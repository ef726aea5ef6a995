------------------------- MODULE Serialization_proofs -------------------------
(***************************************************************************)
(* Theorems about module Serialization, for any classes, fields and bases, *)
(* any objects, any number of them, and buffers of any sizes.              *)
(*                                                                         *)
(* A reader of a file that grows is understood from what follows: the      *)
(* bytes behind those it has consumed are those of the numbers it still    *)
(* wants, and of the objects it has not begun.  For that the operators     *)
(* that lay out objects are unfolded first; they are recursive functions,  *)
(* and what they are is proved by induction, over the numbers, over        *)
(* sequences, and over the order of the classes.                           *)
(***************************************************************************)
EXTENDS Serialization, FiniteSetTheorems, WellFoundedInduction, TLAPS

(* Induction over the numbers, with a set in place of a predicate.         *)
LEMMA LeastExists ==
  ASSUME NEW T, T \subseteq Nat, T # {}
  PROVE  \E x \in T : \A y \in T : x <= y
<1>. DEFINE R == {ss \in Nat \X Nat : ss[1] < ss[2]}
<1>1. IsWellFoundedOn(R, Nat)
  BY NatLessThanWellFounded, Zenon DEF OpToRel
<1>2. PICK x \in T : \A y \in T : ~ (<< y, x >> \in R)
  <2>. HIDE DEF R
  <2>. QED BY <1>1, WFMin
<1>3. ASSUME NEW y \in T PROVE x <= y
  <2>1. x \in Nat /\ y \in Nat /\ << y, x >> \notin R
    BY <1>2
  <2>. QED BY <2>1
<1>. QED BY <1>3

LEMMA Induction ==
  ASSUME NEW T, 0 \in T, \A n \in Nat : n \in T => n + 1 \in T
  PROVE  Nat \subseteq T
<1>. DEFINE B == Nat \ T
<1>1. SUFFICES ASSUME B # {} PROVE FALSE
  OBVIOUS
<1>2. PICK x \in B : \A y \in B : x <= y
  BY <1>1, LeastExists
<1>3. x # 0 /\ x \in Nat
  OBVIOUS
<1>4. x - 1 \in T
  BY <1>2, <1>3
<1>. QED BY <1>3, <1>4

-----------------------------------------------------------------------------
(* FlattenSeq                                                              *)

FlatUpTo(ss) ==
  CHOOSE f : f = [i \in 1 .. Len(ss) |-> IF i = 1 THEN ss[i] ELSE f[i - 1] \o ss[i]]

LEMMA FlatIs ==
  ASSUME NEW ss
  PROVE  FlattenSeq(ss) = IF Len(ss) = 0 THEN ss ELSE FlatUpTo(ss)[Len(ss)]
BY DEF FlattenSeq, FlatUpTo

(* The function exists: one that is right up to n makes one that is right  *)
(* up to n + 1.                                                            *)
LEMMA FlatUnfolds ==
  ASSUME NEW ss, Len(ss) \in Nat
  PROVE  FlatUpTo(ss) = [i \in 1 .. Len(ss) |-> IF i = 1 THEN ss[i] ELSE FlatUpTo(ss)[i - 1] \o ss[i]]
<1>. DEFINE D == 1 .. Len(ss)
            E(f, i) == IF i = 1 THEN ss[i] ELSE f[i - 1] \o ss[i]
            Right(n) == \E f : f = [i \in D |-> f[i]] /\ \A i \in D : i <= n => f[i] = E(f, i)
            T == {n \in Nat : Right(n)}
<1>1. 0 \in T
  <2>1. \A i \in D : ~ (i <= 0)
    OBVIOUS
  <2>2. [i \in D |-> 0] = [i \in D |-> [j \in D |-> 0][i]]
    OBVIOUS
  <2>. QED BY <2>1, <2>2
<1>2. ASSUME NEW n \in Nat, n \in T PROVE n + 1 \in T
  <2>1. PICK f : f = [i \in D |-> f[i]] /\ \A i \in D : i <= n => f[i] = E(f, i)
    BY <1>2
  <2>. DEFINE g == [i \in D |-> IF i <= n THEN f[i] ELSE E(f, i)]
  <2>2. ASSUME NEW i \in D, i <= n + 1 PROVE g[i] = E(g, i)
    <3>1. g[i] = E(f, i)
      BY <2>1, <2>2
    <3>2. CASE i = 1
      BY <3>1, <3>2
    <3>3. CASE i # 1
      <4>1. i - 1 \in D /\ i - 1 <= n
        BY <2>2, <3>3
      <4>2. g[i - 1] = f[i - 1]
        BY <4>1
      <4>. QED BY <3>1, <3>3, <4>2
    <3>. QED BY <3>2, <3>3
  <2>3. g = [i \in D |-> g[i]]
    OBVIOUS
  <2>. HIDE DEF g
  <2>4. Right(n + 1)
    BY <2>2, <2>3
  <2>. HIDE DEF Right
  <2>. QED BY <2>4
<1>3. Len(ss) \in T
  <2>. HIDE DEF T
  <2>. QED BY <1>1, <1>2, Induction
<1>4. PICK f : f = [i \in D |-> f[i]] /\ \A i \in D : f[i] = E(f, i)
  BY <1>3
<1>5. f = [i \in D |-> E(f, i)]
  BY <1>4
<1>. QED BY <1>5 DEF FlatUpTo


LEMMA FlatEmpty == FlattenSeq(<< >>) = << >>
BY DEF FlattenSeq

LEMMA FlatOne == ASSUME NEW S, NEW s \in Seq(S) PROVE FlattenSeq(<< s >>) = s
<1>. DEFINE ss == << s >>
<1>1. Len(ss) = 1 /\ ss[1] = s
  OBVIOUS
<1>. HIDE DEF ss
<1>. DEFINE F == FlatUpTo(ss)
<1>2. F = [i \in 1 .. Len(ss) |-> IF i = 1 THEN ss[i] ELSE F[i - 1] \o ss[i]]
  <2>1. Len(ss) \in Nat
    BY <1>1
  <2>. QED BY <2>1, FlatUnfolds
<1>3. FlattenSeq(ss) = F[1]
  <2>1. Len(ss) # 0
    BY <1>1
  <2>2. FlattenSeq(ss) = F[Len(ss)]
    BY <2>1, FlatIs
  <2>. QED BY <1>1, <2>2
<1>. HIDE DEF F
<1>4. F[1] = s
  BY <1>1, <1>2
<1>. QED BY <1>3, <1>4 DEF ss

LEMMA FlatAppend ==
  ASSUME NEW S, NEW ss \in Seq(Seq(S)), NEW s \in Seq(S)
  PROVE  FlattenSeq(Append(ss, s)) = FlattenSeq(ss) \o s
<1>. DEFINE tt == Append(ss, s)
            n == Len(ss)
<1>1. n \in Nat /\ Len(tt) = n + 1 /\ tt[n + 1] = s /\ \A k \in 1 .. n : tt[k] = ss[k]
  OBVIOUS
<1>. HIDE DEF tt
<1>2. CASE n = 0
  <2>1. ss = << >> /\ tt = << s >>
    BY <1>1, <1>2 DEF tt
  <2>. QED BY <2>1, FlatEmpty, FlatOne DEF tt
<1>3. CASE n # 0
  <2>. DEFINE F == FlatUpTo(ss)
              G == FlatUpTo(tt)
              T == {k \in Nat : k \in 1 .. n => F[k] = G[k]}
  <2>1. F = [i \in 1 .. n |-> IF i = 1 THEN ss[i] ELSE F[i - 1] \o ss[i]]
    BY <1>1, FlatUnfolds
  <2>2. G = [i \in 1 .. n + 1 |-> IF i = 1 THEN tt[i] ELSE G[i - 1] \o tt[i]]
    <3>1. Len(tt) \in Nat
      BY <1>1
    <3>. HIDE DEF n
    <3>. QED BY <1>1, <3>1, FlatUnfolds
  <2>. HIDE DEF F, G, n
  <2>3. ASSUME NEW k \in Nat, k \in T PROVE k + 1 \in T
    <3>. SUFFICES ASSUME k + 1 \in 1 .. n PROVE F[k + 1] = G[k + 1]
      OBVIOUS
    <3>0. tt[k + 1] = ss[k + 1] /\ k + 1 \in 1 .. n + 1
      BY <1>1
    <3>1. CASE k = 0
      <4>1. F[1] = ss[1] /\ G[1] = tt[1]
        BY <1>1, <2>1, <2>2, <3>0, <3>1
      <4>. QED BY <3>0, <3>1, <4>1
    <3>2. CASE k # 0
      <4>1. k \in 1 .. n /\ k + 1 # 1 /\ (k + 1) - 1 = k
        BY <1>1, <3>2
      <4>2. F[k + 1] = F[k] \o ss[k + 1]
        BY <2>1, <4>1
      <4>3. G[k + 1] = G[k] \o tt[k + 1]
        BY <2>2, <3>0, <4>1
      <4>. QED BY <2>3, <3>0, <4>1, <4>2, <4>3
    <3>. QED BY <3>1, <3>2
  <2>4. n \in T
    <3>1. 0 \in T
      OBVIOUS
    <3>. HIDE DEF T
    <3>. QED BY <1>1, <2>3, <3>1, Induction
  <2>5. F[n] = G[n]
    BY <1>1, <1>3, <2>4
  <2>6. G[n + 1] = G[n] \o s
    <3>1. n + 1 \in 1 .. n + 1 /\ n + 1 # 1 /\ (n + 1) - 1 = n
      <4>1. n \in Nat /\ n # 0
        BY <1>1, <1>3
      <4>. QED BY <4>1
    <3>. QED BY <1>1, <2>2, <3>1
  <2>7. FlattenSeq(ss) = F[n]
    BY <1>1, <1>3, FlatIs DEF F, n
  <2>8. FlattenSeq(tt) = G[n + 1]
    <3>1. Len(tt) # 0
      BY <1>1
    <3>. QED BY <1>1, <3>1, FlatIs DEF G
  <2>. QED BY <2>5, <2>6, <2>7, <2>8 DEF tt
<1>. QED BY <1>2, <1>3

(* Induction over sequences, from the front.                               *)
LEMMA SequenceInduction ==
  ASSUME NEW S, NEW T,
         << >> \in T,
         \A q \in Seq(S), x \in S : q \in T => Append(q, x) \in T
  PROVE  Seq(S) \subseteq T
<1>. DEFINE N == {n \in Nat : \A q \in Seq(S) : Len(q) = n => q \in T}
<1>1. 0 \in N
  OBVIOUS
<1>2. ASSUME NEW n \in Nat, n \in N PROVE n + 1 \in N
  <2>. SUFFICES ASSUME NEW q \in Seq(S), Len(q) = n + 1 PROVE q \in T
    OBVIOUS
  <2>. DEFINE p == SubSeq(q, 1, n)
  <2>1. p \in Seq(S) /\ Len(p) = n /\ q[n + 1] \in S /\ q = Append(p, q[n + 1])
    OBVIOUS
  <2>2. p \in T
    BY <1>2, <2>1
  <2>. QED BY <2>1, <2>2
<1>3. Nat \subseteq N
  <2>. HIDE DEF N
  <2>. QED BY <1>1, <1>2, Induction
<1>. QED BY <1>3

LEMMA FlatType == ASSUME NEW S, NEW ss \in Seq(Seq(S)) PROVE FlattenSeq(ss) \in Seq(S)
<1>. DEFINE Good(q) == FlattenSeq(q) \in Seq(S)
            T == {q \in Seq(Seq(S)) : Good(q)}
<1>1. << >> \in T
  <2>1. Good(<< >>)
    <3>1. << >> \in Seq(S)
      OBVIOUS
    <3>. QED BY <3>1, FlatEmpty
  <2>2. << >> \in Seq(Seq(S))
    OBVIOUS
  <2>. HIDE DEF Good
  <2>. QED BY <2>1, <2>2
<1>2. ASSUME NEW q \in Seq(Seq(S)), NEW x \in Seq(S), q \in T PROVE Append(q, x) \in T
  <2>1. FlattenSeq(Append(q, x)) = FlattenSeq(q) \o x
    BY FlatAppend
  <2>2. Good(Append(q, x)) /\ Append(q, x) \in Seq(Seq(S))
    BY <1>2, <2>1
  <2>. HIDE DEF Good
  <2>. QED BY <2>2
<1>3. Seq(Seq(S)) \subseteq T
  <2>. HIDE DEF T
  <2>. QED BY <1>1, <1>2, SequenceInduction
<1>. QED BY <1>3

LEMMA Associates ==
  ASSUME NEW S, NEW a \in Seq(S), NEW b \in Seq(S), NEW c \in Seq(S)
  PROVE  (a \o b) \o c = a \o (b \o c)
OBVIOUS

LEMMA FlatConcat ==
  ASSUME NEW S, NEW ss \in Seq(Seq(S)), NEW tt \in Seq(Seq(S))
  PROVE  FlattenSeq(ss \o tt) = FlattenSeq(ss) \o FlattenSeq(tt)
<1>. DEFINE Good(q) == FlattenSeq(ss \o q) = FlattenSeq(ss) \o FlattenSeq(q)
            T == {q \in Seq(Seq(S)) : Good(q)}
<1>0. FlattenSeq(ss) \in Seq(S)
  BY FlatType
<1>1. << >> \in T
  <2>1. ss \o << >> = ss /\ FlattenSeq(ss) \o << >> = FlattenSeq(ss)
    BY <1>0
  <2>2. Good(<< >>)
    BY <2>1, FlatEmpty
  <2>3. << >> \in Seq(Seq(S))
    OBVIOUS
  <2>. HIDE DEF Good
  <2>. QED BY <2>2, <2>3
<1>2. ASSUME NEW q \in Seq(Seq(S)), NEW x \in Seq(S), q \in T PROVE Append(q, x) \in T
  <2>1. ss \o Append(q, x) = Append(ss \o q, x) /\ ss \o q \in Seq(Seq(S))
    OBVIOUS
  <2>2. FlattenSeq(Append(q, x)) = FlattenSeq(q) \o x
    BY FlatAppend
  <2>3. FlattenSeq(Append(ss \o q, x)) = FlattenSeq(ss \o q) \o x
    BY <2>1, FlatAppend
  <2>4. FlattenSeq(q) \in Seq(S)
    BY FlatType
  <2>5. (FlattenSeq(ss) \o FlattenSeq(q)) \o x = FlattenSeq(ss) \o (FlattenSeq(q) \o x)
    BY <1>0, <2>4, Associates
  <2>6. Good(Append(q, x))
    BY <1>2, <2>1, <2>2, <2>3, <2>5
  <2>7. Append(q, x) \in Seq(Seq(S))
    OBVIOUS
  <2>. HIDE DEF Good
  <2>. QED BY <2>6, <2>7
<1>3. Seq(Seq(S)) \subseteq T
  <2>. HIDE DEF T
  <2>. QED BY <1>1, <1>2, SequenceInduction
<1>. QED BY <1>3

LEMMA SameSequence ==
  ASSUME NEW S, NEW x \in Seq(S), NEW y \in Seq(S), Len(x) = Len(y), \A k \in 1 .. Len(x) : x[k] = y[k]
  PROVE  x = y
OBVIOUS

LEMMA FlatFirst ==
  ASSUME NEW S, NEW ss \in Seq(Seq(S)), ss # << >>
  PROVE  FlattenSeq(ss) = ss[1] \o FlattenSeq(Tail(ss))
<1>1. ss[1] \in Seq(S) /\ Tail(ss) \in Seq(Seq(S)) /\ << ss[1] >> \in Seq(Seq(S))
  OBVIOUS
<1>2. ss = << ss[1] >> \o Tail(ss)
  OBVIOUS
<1>3. FlattenSeq(<< ss[1] >>) = ss[1]
  BY <1>1, FlatOne
<1>4. FlattenSeq(<< ss[1] >> \o Tail(ss)) = FlattenSeq(<< ss[1] >>) \o FlattenSeq(Tail(ss))
  <2>. HIDE <1>2
  <2>. QED BY <1>1, FlatConcat
<1>. QED BY <1>2, <1>3, <1>4

LEMMA ConcatElements ==
  ASSUME NEW S, NEW x \in Seq(S), NEW y \in Seq(S)
  PROVE  ToSet(x \o y) = ToSet(x) \union ToSet(y)
<1>. DEFINE m == Len(x)
            n == Len(y)
            z == x \o y
<1>1. m \in Nat /\ n \in Nat /\ DOMAIN x = 1 .. m /\ DOMAIN y = 1 .. n /\ DOMAIN z = 1 .. m + n
  OBVIOUS
<1>2. \A k \in 1 .. m + n : z[k] = IF k <= m THEN x[k] ELSE y[k - m]
  OBVIOUS
<1>. HIDE DEF m, n, z
<1>3. ASSUME NEW k \in 1 .. m + n PROVE z[k] \in ToSet(x) \union ToSet(y)
  <2>1. CASE k <= m
    BY <1>1, <1>2, <2>1 DEF ToSet
  <2>2. CASE k > m
    <3>1. k - m \in 1 .. n
      BY <1>1, <2>2
    <3>2. z[k] = y[k - m]
      BY <1>1, <1>2, <2>2
    <3>. QED BY <1>1, <3>1, <3>2 DEF ToSet
  <2>. QED BY <1>1, <2>1, <2>2
<1>4. ASSUME NEW k \in 1 .. m PROVE x[k] \in ToSet(z)
  <2>1. k \in 1 .. m + n /\ z[k] = x[k]
    BY <1>1, <1>2
  <2>. QED BY <1>1, <2>1 DEF ToSet
<1>5. ASSUME NEW k \in 1 .. n PROVE y[k] \in ToSet(z)
  <2>1. m + k \in 1 .. m + n /\ (m + k) - m = k /\ ~ (m + k <= m)
    BY <1>1
  <2>2. z[m + k] = y[k]
    BY <1>2, <2>1
  <2>. QED BY <1>1, <2>1, <2>2 DEF ToSet
<1>6. ToSet(z) \subseteq ToSet(x) \union ToSet(y)
  BY <1>1, <1>3 DEF ToSet
<1>7. ToSet(x) \subseteq ToSet(z) /\ ToSet(y) \subseteq ToSet(z)
  BY <1>1, <1>4, <1>5 DEF ToSet
<1>. QED BY <1>6, <1>7 DEF z

(* What is in a flattened sequence is in one of its parts.                 *)
LEMMA FlatElements ==
  ASSUME NEW S, NEW ss \in Seq(Seq(S)), NEW e
  PROVE  e \in ToSet(FlattenSeq(ss)) <=> \E k \in 1 .. Len(ss) : e \in ToSet(ss[k])
<1>. DEFINE Good(q) == e \in ToSet(FlattenSeq(q)) <=> \E k \in 1 .. Len(q) : e \in ToSet(q[k])
            T == {q \in Seq(Seq(S)) : Good(q)}
<1>1. << >> \in T
  <2>1. ToSet(<< >>) = {}
    BY DEF ToSet
  <2>2. Good(<< >>)
    BY <2>1, FlatEmpty
  <2>3. << >> \in Seq(Seq(S))
    OBVIOUS
  <2>. HIDE DEF Good
  <2>. QED BY <2>2, <2>3
<1>2. ASSUME NEW q \in Seq(Seq(S)), NEW x \in Seq(S), q \in T PROVE Append(q, x) \in T
  <2>. DEFINE p == Append(q, x)
              n == Len(q)
  <2>1. p \in Seq(Seq(S))
    OBVIOUS
  <2>2. n \in Nat /\ Len(p) = n + 1 /\ p[n + 1] = x /\ \A k \in 1 .. n : p[k] = q[k]
    OBVIOUS
  <2>3. FlattenSeq(p) = FlattenSeq(q) \o x /\ FlattenSeq(q) \in Seq(S)
    BY FlatAppend, FlatType
  <2>4. ToSet(FlattenSeq(p)) = ToSet(FlattenSeq(q)) \union ToSet(x)
    BY <2>3, ConcatElements
  <2>5. e \in ToSet(FlattenSeq(q)) <=> \E k \in 1 .. n : e \in ToSet(q[k])
    BY <1>2
  <2>. HIDE DEF p, n
  <2>6. (\E k \in 1 .. n + 1 : e \in ToSet(p[k])) <=> (\E k \in 1 .. n : e \in ToSet(q[k])) \/ e \in ToSet(x)
    <3>1. 1 .. n + 1 = (1 .. n) \union {n + 1}
      BY <2>2
    <3>. QED BY <2>2, <3>1
  <2>7. Good(p)
    BY <2>2, <2>4, <2>5, <2>6
  <2>. HIDE DEF Good
  <2>. QED BY <2>1, <2>7 DEF p
<1>3. Seq(Seq(S)) \subseteq T
  <2>. HIDE DEF T
  <2>. QED BY <1>1, <1>2, SequenceInduction
<1>. QED BY <1>3

-----------------------------------------------------------------------------
(* Type lists                                                              *)

LEMMA AtHas ==
  ASSUME NEW S, NEW list \in Seq(S), NEW places
  PROVE  /\ At(list, places) \in Seq(S)
         /\ \A e : e \in ToSet(At(list, places)) <=> \E k \in 1 .. Len(list) : k \in places /\ e = list[k]
<1>. DEFINE n == Len(list)
            part == [k \in 1 .. n |-> IF k \in places THEN << list[k] >> ELSE << >>]
<1>1. n \in Nat /\ \A k \in 1 .. n : list[k] \in S
  OBVIOUS
<1>. HIDE DEF n
<1>2. part \in Seq(Seq(S)) /\ Len(part) = n
  <2>1. \A k \in 1 .. n : (IF k \in places THEN << list[k] >> ELSE << >>) \in Seq(S)
    BY <1>1
  <2>. QED BY <1>1, <2>1
<1>3. \A k \in 1 .. n : part[k] = IF k \in places THEN << list[k] >> ELSE << >>
  OBVIOUS
<1>4. At(list, places) = FlattenSeq(part)
  BY DEF At, n
<1>. HIDE DEF part
<1>5. At(list, places) \in Seq(S)
  BY <1>2, <1>4, FlatType
<1>6. ASSUME NEW e
      PROVE  e \in ToSet(At(list, places)) <=> \E k \in 1 .. n : k \in places /\ e = list[k]
  <2>1. \A x : ToSet(<< x >>) = {x}
    BY DEF ToSet
  <2>2. ToSet(<< >>) = {}
    BY DEF ToSet
  <2>3. \A k \in 1 .. n : e \in ToSet(part[k]) <=> k \in places /\ e = list[k]
    BY <1>3, <2>1, <2>2, ZenonT(30)
  <2>4. e \in ToSet(FlattenSeq(part)) <=> \E k \in 1 .. n : e \in ToSet(part[k])
    BY <1>2, FlatElements
  <2>. QED BY <1>4, <2>3, <2>4
<1>. QED BY <1>5, <1>6 DEF n

(* Removing duplicates leaves a list with the same elements.               *)
LEMMA RemoveDuplicateHas ==
  ASSUME NEW S, NEW list \in Seq(S)
  PROVE  RemoveDuplicate(list) \in Seq(S) /\ ToSet(RemoveDuplicate(list)) = ToSet(list)
<1>. DEFINE n == Len(list)
            last == {k \in 1 .. n : \A j \in k + 1 .. n : list[j] # list[k]}
<1>1. n \in Nat /\ DOMAIN list = 1 .. n
  OBVIOUS
<1>2. RemoveDuplicate(list) = At(list, last)
  BY DEF RemoveDuplicate
<1>. HIDE DEF n
<1>3. ASSUME NEW k \in 1 .. n PROVE \E i \in last : list[i] = list[k]
  <2>. DEFINE behind == {m \in Nat : \E i \in 1 .. n : m = n - i /\ list[i] = list[k]}
  <2>1. n - k \in behind
    BY <1>1
  <2>2. PICK m \in behind : \A x \in behind : m <= x
    <3>1. behind \subseteq Nat /\ behind # {}
      BY <2>1
    <3>. HIDE DEF behind
    <3>. QED BY <3>1, LeastExists
  <2>3. PICK i \in 1 .. n : m = n - i /\ list[i] = list[k]
    BY <2>2
  <2>4. ASSUME NEW j \in i + 1 .. n, list[j] = list[i] PROVE FALSE
    <3>1. j \in 1 .. n /\ n - j \in Nat /\ n - j < n - i
      BY <1>1, <2>4
    <3>2. n - j \in behind
      BY <2>3, <2>4, <3>1
    <3>3. m <= n - j
      <4>. HIDE DEF behind
      <4>. QED BY <2>2, <3>2
    <3>. QED BY <1>1, <2>3, <3>1, <3>3
  <2>. QED BY <2>3, <2>4
<1>4. last \subseteq 1 .. n
  OBVIOUS
<1>. HIDE DEF last
<1>5. At(list, last) \in Seq(S) /\ \A e : e \in ToSet(At(list, last)) <=> \E k \in 1 .. n : k \in last /\ e = list[k]
  BY AtHas DEF n
<1>6. \A e : e \in ToSet(list) <=> \E k \in 1 .. n : e = list[k]
  BY <1>1 DEF ToSet
<1>. QED BY <1>2, <1>3, <1>4, <1>5, <1>6

-----------------------------------------------------------------------------
(* Members                                                                 *)

AllMembers == UNION {Members(c) : c \in Classes}

Rank == CHOOSE rank : rank \in [Classes -> 0 .. Cardinality(Classes)] /\
          \A c \in Classes : \A b \in 1 .. Len(Bases[c]) : rank[Bases[c][b]] < rank[c]

LEMMA RankHas ==
  /\ Cardinality(Classes) \in Nat
  /\ \A c \in Classes : Rank[c] \in 0 .. Cardinality(Classes)
  /\ \A c \in Classes : Bases[c] \in Seq(Classes)
  /\ \A c \in Classes : \A b \in 1 .. Len(Bases[c]) : Bases[c][b] \in Classes /\ Rank[Bases[c][b]] < Rank[c]
<1>1. Cardinality(Classes) \in Nat
  BY OrderAssumption, FS_CardinalityType
<1>2. /\ Rank \in [Classes -> 0 .. Cardinality(Classes)]
      /\ \A c \in Classes : \A b \in 1 .. Len(Bases[c]) : Rank[Bases[c][b]] < Rank[c]
  BY OrderAssumption DEF Rank
<1>3. \A c \in Classes : Bases[c] \in Seq(Classes)
  BY BasesAssumption
<1>4. \A c \in Classes : \A b \in 1 .. Len(Bases[c]) : Bases[c][b] \in Classes
  BY <1>3
<1>. QED BY <1>1, <1>2, <1>3, <1>4

(* What holds of a class when it does of its bases holds of every class.   *)
LEMMA ClassInduction ==
  ASSUME NEW T, \A c \in Classes : (\A b \in 1 .. Len(Bases[c]) : Bases[c][b] \in T) => c \in T
  PROVE  Classes \subseteq T
<1>. DEFINE N == {n \in Nat : \A c \in Classes : Rank[c] < n => c \in T}
<1>1. 0 \in N
  BY RankHas
<1>2. ASSUME NEW n \in Nat, n \in N PROVE n + 1 \in N
  <2>. SUFFICES ASSUME NEW c \in Classes, Rank[c] < n + 1 PROVE c \in T
    OBVIOUS
  <2>1. \A b \in 1 .. Len(Bases[c]) : Bases[c][b] \in Classes /\ Rank[Bases[c][b]] < n
    BY RankHas
  <2>. QED BY <1>2, <2>1
<1>3. Cardinality(Classes) + 1 \in N
  <2>. HIDE DEF N
  <2>. QED BY <1>1, <1>2, Induction, RankHas
<1>. QED BY <1>3, RankHas

LEMMA AggregateUnfolds ==
  ASSUME NEW c \in Classes
  PROVE  Aggregate[c] =
           [k \in 1 .. Len(Fields[c]) |-> << c, k >>]
             \o FlattenSeq([b \in 1 .. Len(Bases[c]) |-> Aggregate[Bases[c][b]]])
<1>. DEFINE own(d) == [k \in 1 .. Len(Fields[d]) |-> << d, k >>]
            bases(f, d) == [b \in 1 .. Len(Bases[d]) |-> f[Bases[d][b]]]
            E(f, d) == own(d) \o FlattenSeq(bases(f, d))
            Right(n) == \E f : f = [d \in Classes |-> f[d]] /\ \A d \in Classes : Rank[d] < n => f[d] = E(f, d)
            N == {n \in Nat : Right(n)}
<1>1. 0 \in N
  <2>1. \A d \in Classes : ~ (Rank[d] < 0)
    BY RankHas
  <2>2. [d \in Classes |-> 0] = [d \in Classes |-> [e \in Classes |-> 0][d]]
    OBVIOUS
  <2>. QED BY <2>1, <2>2
<1>2. ASSUME NEW n \in Nat, n \in N PROVE n + 1 \in N
  <2>1. PICK f : f = [d \in Classes |-> f[d]] /\ \A d \in Classes : Rank[d] < n => f[d] = E(f, d)
    BY <1>2
  <2>. HIDE DEF E
  <2>. DEFINE g == [d \in Classes |-> IF Rank[d] < n THEN f[d] ELSE E(f, d)]
  <2>2. ASSUME NEW d \in Classes, Rank[d] < n + 1 PROVE g[d] = E(g, d)
    <3>1. g[d] = E(f, d)
      BY <2>1
    <3>2. \A b \in 1 .. Len(Bases[d]) : Bases[d][b] \in Classes /\ Rank[Bases[d][b]] < n
      BY <2>2, RankHas
    <3>3. \A b \in 1 .. Len(Bases[d]) : g[Bases[d][b]] = f[Bases[d][b]]
      BY <3>2
    <3>. HIDE DEF g
    <3>4. bases(g, d) = bases(f, d)
      BY <3>3
    <3>. QED BY <3>1, <3>4 DEF E
  <2>3. g = [d \in Classes |-> g[d]]
    OBVIOUS
  <2>. HIDE DEF g
  <2>4. Right(n + 1)
    BY <2>2, <2>3
  <2>. HIDE DEF Right
  <2>. QED BY <2>4
<1>3. Cardinality(Classes) + 1 \in N
  <2>. HIDE DEF N
  <2>. QED BY <1>1, <1>2, Induction, RankHas
<1>4. PICK f : f = [d \in Classes |-> f[d]] /\ \A d \in Classes : f[d] = E(f, d)
  <2>. HIDE DEF E
  <2>. QED BY <1>3, RankHas
<1>5. f = [d \in Classes |-> E(f, d)]
  <2>. HIDE DEF E
  <2>. QED BY <1>4, SMTT(30)
<1>6. Aggregate = [d \in Classes |-> E(Aggregate, d)]
  BY <1>5 DEF Aggregate
<1>. HIDE DEF E
<1>7. Aggregate[c] = E(Aggregate, c)
  BY <1>6
<1>. QED BY <1>7 DEF E

Containing(name) ==
  CHOOSE f : f = [d \in Classes |->
    OwnIndex(d, name) # 0 \/ \E b \in 1 .. Len(Bases[d]) : f[Bases[d][b]]]

LEMMA ContainsUnfolds ==
  ASSUME NEW c \in Classes, NEW name
  PROVE  ContainsName(c, name) <=>
           OwnIndex(c, name) # 0 \/ \E b \in 1 .. Len(Bases[c]) : ContainsName(Bases[c][b], name)
<1>. DEFINE E(f, d) == OwnIndex(d, name) # 0 \/ \E b \in 1 .. Len(Bases[d]) : f[Bases[d][b]]
            Right(n) == \E f : f = [d \in Classes |-> f[d]] /\ \A d \in Classes : Rank[d] < n => f[d] = E(f, d)
            N == {n \in Nat : Right(n)}
<1>1. 0 \in N
  <2>1. \A d \in Classes : ~ (Rank[d] < 0)
    BY RankHas
  <2>2. [d \in Classes |-> 0] = [d \in Classes |-> [e \in Classes |-> 0][d]]
    OBVIOUS
  <2>. HIDE DEF E
  <2>. QED BY <2>1, <2>2
<1>2. ASSUME NEW n \in Nat, n \in N PROVE n + 1 \in N
  <2>1. PICK f : f = [d \in Classes |-> f[d]] /\ \A d \in Classes : Rank[d] < n => f[d] = E(f, d)
    BY <1>2
  <2>. HIDE DEF E
  <2>. DEFINE g == [d \in Classes |-> IF Rank[d] < n THEN f[d] ELSE E(f, d)]
  <2>2. ASSUME NEW d \in Classes, Rank[d] < n + 1 PROVE g[d] = E(g, d)
    <3>1. g[d] = E(f, d)
      BY <2>1
    <3>2. \A b \in 1 .. Len(Bases[d]) : Bases[d][b] \in Classes /\ Rank[Bases[d][b]] < n
      BY <2>2, RankHas
    <3>3. \A b \in 1 .. Len(Bases[d]) : g[Bases[d][b]] = f[Bases[d][b]]
      BY <3>2
    <3>. HIDE DEF g
    <3>. QED BY <3>1, <3>3 DEF E
  <2>3. g = [d \in Classes |-> g[d]]
    OBVIOUS
  <2>. HIDE DEF g
  <2>4. Right(n + 1)
    BY <2>2, <2>3
  <2>. HIDE DEF Right
  <2>. QED BY <2>4
<1>3. Cardinality(Classes) + 1 \in N
  <2>. HIDE DEF N
  <2>. QED BY <1>1, <1>2, Induction, RankHas
<1>4. PICK f : f = [d \in Classes |-> f[d]] /\ \A d \in Classes : f[d] = E(f, d)
  <2>. HIDE DEF E
  <2>. QED BY <1>3, RankHas
<1>5. f = [d \in Classes |-> E(f, d)]
  <2>. HIDE DEF E
  <2>. QED BY <1>4
<1>6. Containing(name) = [d \in Classes |-> E(Containing(name), d)]
  BY <1>5 DEF Containing
<1>. HIDE DEF E
<1>7. Containing(name)[c] = E(Containing(name), c)
  BY <1>6
<1>8. \A d : ContainsName(d, name) = Containing(name)[d]
  BY DEF ContainsName, Containing
<1>. QED BY <1>7, <1>8 DEF E

(* The base findTypeFromBase stops at, or 0.                               *)
FirstBase(c, name) == SelectInSeq(Bases[c], LAMBDA b : ContainsName(b, name))

Finding(name) ==
  CHOOSE f : f = [d \in Classes |->
    IF OwnIndex(d, name) # 0 THEN << d, OwnIndex(d, name) >>
    ELSE IF FirstBase(d, name) # 0 THEN f[Bases[d][FirstBase(d, name)]]
    ELSE NoMember]

LEMMA FirstBaseHas ==
  ASSUME NEW c \in Classes, NEW name
  PROVE  /\ FirstBase(c, name) # 0 =>
              FirstBase(c, name) \in 1 .. Len(Bases[c]) /\ ContainsName(Bases[c][FirstBase(c, name)], name)
         /\ FirstBase(c, name) = 0 => \A b \in 1 .. Len(Bases[c]) : ~ ContainsName(Bases[c][b], name)
<1>. DEFINE I == {b \in 1 .. Len(Bases[c]) : ContainsName(Bases[c][b], name)}
<1>1. FirstBase(c, name) = IF I # {} THEN Min(I) ELSE 0
  BY DEF FirstBase, SelectInSeq
<1>2. I \subseteq Nat /\ 0 \notin I
  BY RankHas
<1>3. CASE I # {}
  <2>. HIDE DEF I
  <2>1. Min(I) \in I
    <3>1. \E x \in I : \A y \in I : x <= y
      BY <1>2, <1>3, LeastExists
    <3>. QED BY <3>1 DEF Min
  <2>2. FirstBase(c, name) \in I
    BY <1>1, <1>3, <2>1
  <2>. QED BY <1>2, <2>2 DEF I
<1>4. CASE I = {}
  BY <1>1, <1>4
<1>. QED BY <1>3, <1>4

LEMMA FindUnfolds ==
  ASSUME NEW c \in Classes, NEW name
  PROVE  FindType(c, name) =
           IF OwnIndex(c, name) # 0 THEN << c, OwnIndex(c, name) >>
           ELSE IF FirstBase(c, name) # 0 THEN FindType(Bases[c][FirstBase(c, name)], name)
           ELSE NoMember
<1>. DEFINE E(f, d) == IF OwnIndex(d, name) # 0 THEN << d, OwnIndex(d, name) >>
                         ELSE IF FirstBase(d, name) # 0 THEN f[Bases[d][FirstBase(d, name)]]
                         ELSE NoMember
            Right(n) == \E f : f = [d \in Classes |-> f[d]] /\ \A d \in Classes : Rank[d] < n => f[d] = E(f, d)
            N == {n \in Nat : Right(n)}
<1>1. 0 \in N
  <2>1. \A d \in Classes : ~ (Rank[d] < 0)
    BY RankHas
  <2>2. [d \in Classes |-> 0] = [d \in Classes |-> [e \in Classes |-> 0][d]]
    OBVIOUS
  <2>. HIDE DEF E
  <2>. QED BY <2>1, <2>2
<1>2. ASSUME NEW n \in Nat, n \in N PROVE n + 1 \in N
  <2>1. PICK f : f = [d \in Classes |-> f[d]] /\ \A d \in Classes : Rank[d] < n => f[d] = E(f, d)
    BY <1>2
  <2>. HIDE DEF E
  <2>. DEFINE g == [d \in Classes |-> IF Rank[d] < n THEN f[d] ELSE E(f, d)]
  <2>2. ASSUME NEW d \in Classes, Rank[d] < n + 1 PROVE g[d] = E(g, d)
    <3>1. g[d] = E(f, d)
      BY <2>1
    <3>2. \A b \in 1 .. Len(Bases[d]) : Bases[d][b] \in Classes /\ Rank[Bases[d][b]] < n
      BY <2>2, RankHas
    <3>3. \A b \in 1 .. Len(Bases[d]) : g[Bases[d][b]] = f[Bases[d][b]]
      BY <3>2
    <3>. HIDE DEF g
    <3>4. FirstBase(d, name) # 0 => FirstBase(d, name) \in 1 .. Len(Bases[d])
      BY FirstBaseHas
    <3>. QED BY <3>1, <3>3, <3>4 DEF E
  <2>3. g = [d \in Classes |-> g[d]]
    OBVIOUS
  <2>. HIDE DEF g
  <2>4. Right(n + 1)
    BY <2>2, <2>3
  <2>. HIDE DEF Right
  <2>. QED BY <2>4
<1>3. Cardinality(Classes) + 1 \in N
  <2>. HIDE DEF N
  <2>. QED BY <1>1, <1>2, Induction, RankHas
<1>4. PICK f : f = [d \in Classes |-> f[d]] /\ \A d \in Classes : f[d] = E(f, d)
  <2>. HIDE DEF E
  <2>. QED BY <1>3, RankHas
<1>5. f = [d \in Classes |-> E(f, d)]
  <2>. HIDE DEF E
  <2>. QED BY <1>4
<1>6. Finding(name) = [d \in Classes |-> E(Finding(name), d)]
  BY <1>5 DEF Finding
<1>. HIDE DEF E
<1>7. Finding(name)[c] = E(Finding(name), c)
  BY <1>6
<1>8. \A d : FindType(d, name) = Finding(name)[d]
  BY DEF FindType, Finding, FirstBase
<1>. QED BY <1>7, <1>8 DEF E

(* The first field of a name has the name; there is one if any has.        *)
LEMMA OwnIndexHas ==
  ASSUME NEW c \in Classes, NEW name
  PROVE  /\ OwnIndex(c, name) # 0 =>
              OwnIndex(c, name) \in 1 .. Len(Fields[c]) /\ Fields[c][OwnIndex(c, name)].name = name
         /\ OwnIndex(c, name) = 0 => \A k \in 1 .. Len(Fields[c]) : Fields[c][k].name # name
<1>. DEFINE I == {k \in 1 .. Len(Fields[c]) : Fields[c][k].name = name}
<1>1. OwnIndex(c, name) = IF I # {} THEN Min(I) ELSE 0
  BY DEF OwnIndex, SelectInSeq
<1>2. I \subseteq Nat /\ 0 \notin I
  BY FieldsAssumption
<1>3. CASE I # {}
  <2>. HIDE DEF I
  <2>1. Min(I) \in I
    <3>1. \E x \in I : \A y \in I : x <= y
      BY <1>2, <1>3, LeastExists
    <3>. QED BY <3>1 DEF Min
  <2>2. OwnIndex(c, name) \in I
    BY <1>1, <1>3, <2>1
  <2>. QED BY <1>2, <2>2 DEF I
<1>4. CASE I = {}
  BY <1>1, <1>4
<1>. QED BY <1>3, <1>4

(* A class's members are those it registers itself and its bases'.         *)
LEMMA AggregateHas ==
  ASSUME NEW c \in Classes
  PROVE  /\ Aggregate[c] \in Seq(AllMembers)
         /\ \A m : m \in ToSet(Aggregate[c]) <=>
              m \in Members(c) \/ \E b \in 1 .. Len(Bases[c]) : m \in ToSet(Aggregate[Bases[c][b]])
<1>. DEFINE T == {d \in Classes : Aggregate[d] \in Seq(AllMembers)}
            own(d) == [k \in 1 .. Len(Fields[d]) |-> << d, k >>]
            bases(d) == [b \in 1 .. Len(Bases[d]) |-> Aggregate[Bases[d][b]]]
<1>1. ASSUME NEW d \in Classes PROVE Len(Fields[d]) \in Nat /\ Len(Bases[d]) \in Nat
  BY FieldsAssumption, RankHas
<1>2. ASSUME NEW d \in Classes
      PROVE  own(d) \in Seq(AllMembers) /\ ToSet(own(d)) = Members(d)
  <2>. DEFINE n == Len(Fields[d])
  <2>1. n \in Nat
    BY <1>1
  <2>. HIDE DEF n
  <2>2. \A k \in 1 .. n : << d, k >> \in AllMembers
    BY DEF AllMembers, Members, n
  <2>3. DOMAIN own(d) = 1 .. n /\ own(d) = [k \in 1 .. n |-> << d, k >>]
    BY DEF n
  <2>4. own(d) \in Seq(AllMembers)
    BY <2>1, <2>2, <2>3
  <2>5. ToSet(own(d)) = Members(d)
    BY <2>3 DEF ToSet, Members, n
  <2>. QED BY <2>4, <2>5
<1>. HIDE DEF own
<1>3. ASSUME NEW d \in Classes, \A b \in 1 .. Len(Bases[d]) : Aggregate[Bases[d][b]] \in Seq(AllMembers)
      PROVE  /\ Aggregate[d] = own(d) \o FlattenSeq(bases(d))
             /\ bases(d) \in Seq(Seq(AllMembers)) /\ Len(bases(d)) = Len(Bases[d])
             /\ Aggregate[d] \in Seq(AllMembers)
  <2>1. bases(d) \in Seq(Seq(AllMembers)) /\ Len(bases(d)) = Len(Bases[d])
    <3>. DEFINE n == Len(Bases[d])
    <3>1. n \in Nat
      BY <1>1
    <3>2. \A b \in 1 .. n : Aggregate[Bases[d][b]] \in Seq(AllMembers)
      BY <1>3
    <3>. HIDE DEF n
    <3>3. bases(d) = [b \in 1 .. n |-> Aggregate[Bases[d][b]]]
      BY DEF n
    <3>4. bases(d) \in Seq(Seq(AllMembers)) /\ Len(bases(d)) = n
      BY <3>1, <3>2, <3>3
    <3>. QED BY <3>4 DEF n
  <2>2. Aggregate[d] = own(d) \o FlattenSeq(bases(d))
    BY AggregateUnfolds DEF own
  <2>. HIDE DEF bases
  <2>3. FlattenSeq(bases(d)) \in Seq(AllMembers)
    BY <2>1, FlatType
  <2>. QED BY <1>2, <2>1, <2>2, <2>3
<1>4. Classes \subseteq T
  <2>1. ASSUME NEW d \in Classes, \A b \in 1 .. Len(Bases[d]) : Bases[d][b] \in T PROVE d \in T
    BY <1>3, <2>1
  <2>. HIDE DEF T
  <2>. QED BY <2>1, ClassInduction
<1>5. \A b \in 1 .. Len(Bases[c]) : Aggregate[Bases[c][b]] \in Seq(AllMembers)
  BY <1>4, RankHas
<1>6. \A b \in 1 .. Len(Bases[c]) : bases(c)[b] = Aggregate[Bases[c][b]]
  OBVIOUS
<1>7. /\ Aggregate[c] = own(c) \o FlattenSeq(bases(c))
      /\ bases(c) \in Seq(Seq(AllMembers)) /\ Len(bases(c)) = Len(Bases[c])
      /\ Aggregate[c] \in Seq(AllMembers)
  BY <1>3, <1>5
<1>. HIDE DEF bases
<1>8. FlattenSeq(bases(c)) \in Seq(AllMembers)
  BY <1>7, FlatType
<1>9. ToSet(Aggregate[c]) = Members(c) \union ToSet(FlattenSeq(bases(c)))
  BY <1>2, <1>7, <1>8, ConcatElements
<1>10. ASSUME NEW m
       PROVE  m \in ToSet(FlattenSeq(bases(c))) <=> \E b \in 1 .. Len(Bases[c]) : m \in ToSet(bases(c)[b])
  BY <1>7, FlatElements
<1>. QED BY <1>6, <1>7, <1>9, <1>10

(* findType finds a member of the class, of the name looked for.           *)
LEMMA FindTypeFinds ==
  ASSUME NEW c \in Classes, NEW name, ContainsName(c, name)
  PROVE  FindType(c, name) \in ToSet(Aggregate[c]) /\ Field(FindType(c, name)).name = name
<1>. DEFINE T == {d \in Classes : ContainsName(d, name) =>
                    FindType(d, name) \in ToSet(Aggregate[d]) /\ Field(FindType(d, name)).name = name}
<1>1. ASSUME NEW d \in Classes, \A b \in 1 .. Len(Bases[d]) : Bases[d][b] \in T PROVE d \in T
  <2>. SUFFICES ASSUME ContainsName(d, name)
                PROVE  FindType(d, name) \in ToSet(Aggregate[d]) /\ Field(FindType(d, name)).name = name
    OBVIOUS
  <2>1. CASE OwnIndex(d, name) # 0
    <3>1. FindType(d, name) = << d, OwnIndex(d, name) >>
      BY <2>1, FindUnfolds
    <3>2. FindType(d, name) \in Members(d) /\ Field(FindType(d, name)).name = name
      BY <2>1, <3>1, OwnIndexHas DEF Members, Field
    <3>. QED BY <3>2, AggregateHas
  <2>2. CASE OwnIndex(d, name) = 0
    <3>. DEFINE b == FirstBase(d, name)
    <3>1. \E k \in 1 .. Len(Bases[d]) : ContainsName(Bases[d][k], name)
      BY <2>2, ContainsUnfolds
    <3>2. b # 0 /\ b \in 1 .. Len(Bases[d]) /\ ContainsName(Bases[d][b], name)
      BY <3>1, FirstBaseHas
    <3>3. FindType(d, name) = FindType(Bases[d][b], name)
      BY <2>2, <3>2, FindUnfolds
    <3>4. FindType(Bases[d][b], name) \in ToSet(Aggregate[Bases[d][b]]) /\ Field(FindType(Bases[d][b], name)).name = name
      BY <1>1, <3>2
    <3>. HIDE DEF b
    <3>. QED BY <3>2, <3>3, <3>4, AggregateHas
  <2>. QED BY <2>1, <2>2
<1>2. c \in T
  <2>. HIDE DEF T
  <2>. QED BY <1>1, ClassInduction
<1>. QED BY <1>2

-----------------------------------------------------------------------------
(* Properties                                                              *)

Info(f) == [name |-> f.name, since |-> f.since]

AllInfos == {Info(Field(m)) : m \in AllMembers}

LEMMA OwnHas ==
  ASSUME NEW c \in Classes
  PROVE  /\ Own(c) \in Seq(AllInfos)
         /\ \A p : p \in ToSet(Own(c)) <=> \E m \in Members(c) : Field(m).property /\ p = Info(Field(m))
<1>. DEFINE fields == Fields[c]
            n == Len(fields)
            some == At(fields, {k \in 1 .. n : fields[k].property})
            S == {fields[k] : k \in {i \in 1 .. n : fields[i].property}}
<1>1. fields \in Seq(ToSet(fields)) /\ n \in Nat
  BY FieldsAssumption
<1>2. /\ some \in Seq(ToSet(fields))
      /\ \A e : e \in ToSet(some) <=> \E k \in 1 .. n : k \in {i \in 1 .. n : fields[i].property} /\ e = fields[k]
  <2>. HIDE DEF n
  <2>. QED BY <1>1, AtHas DEF n
<1>3. Own(c) = [k \in 1 .. Len(some) |-> Info(some[k])]
  BY DEF Own, FilterMapper, Info
<1>4. \A f \in ToSet(some) : \E m \in Members(c) : Field(m).property /\ f = Field(m)
  <2>1. ASSUME NEW k \in 1 .. n, fields[k].property
        PROVE  \E m \in Members(c) : Field(m).property /\ fields[k] = Field(m)
    <3>1. << c, k >> \in Members(c) /\ Field(<< c, k >>) = fields[k]
      BY DEF Members, Field
    <3>. QED BY <2>1, <3>1
  <2>. HIDE DEF some, n
  <2>. QED BY <1>2, <2>1
<1>5. \A m \in Members(c) : Field(m).property => Field(m) \in ToSet(some)
  <2>. SUFFICES ASSUME NEW m \in Members(c), Field(m).property PROVE Field(m) \in ToSet(some)
    OBVIOUS
  <2>1. PICK k \in 1 .. n : m = << c, k >>
    BY DEF Members
  <2>2. Field(m) = fields[k]
    BY <2>1 DEF Field
  <2>. HIDE DEF some, n
  <2>. QED BY <1>2, <2>2
<1>. DEFINE l == Len(some)
<1>6. l \in Nat /\ DOMAIN some = 1 .. l
  <2>. HIDE DEF some
  <2>. QED BY <1>2
<1>7. \A k \in 1 .. l : some[k] \in ToSet(some)
  BY <1>6 DEF ToSet
<1>. HIDE DEF some, l, fields, n
<1>8. DOMAIN Own(c) = 1 .. l /\ \A k \in 1 .. l : Own(c)[k] = Info(some[k])
  BY <1>3 DEF l
<1>9. \A k \in 1 .. l : Info(some[k]) \in AllInfos
  BY <1>4, <1>7 DEF AllInfos, AllMembers
<1>10. Own(c) \in Seq(AllInfos)
  <2>1. Own(c) = [k \in 1 .. l |-> Info(some[k])]
    BY <1>3 DEF l
  <2>. QED BY <1>6, <1>9, <2>1
<1>11. \A p : p \in ToSet(Own(c)) <=> \E f \in ToSet(some) : p = Info(f)
  BY <1>6, <1>8 DEF ToSet
<1>. QED BY <1>4, <1>5, <1>10, <1>11

(* The properties of a class: its own, and those its base registers.       *)
LEMMA PropertiesHas ==
  ASSUME NEW c \in Classes, NEW ver
  PROVE  /\ Properties(c, ver) \in Seq(AllInfos)
         /\ \A p : p \in ToSet(Properties(c, ver)) <=>
              /\ p.since <= ver
              /\ \E m : /\ m \in Members(c) \/ (Bases[c] # << >> /\ m \in Members(Bases[c][1]))
                        /\ Field(m).property /\ p = Info(Field(m))
<1>. DEFINE list == IF Bases[c] = << >> THEN Own(c) ELSE Own(c) \o Own(Bases[c][1])
            infos == PropertyInfos[c]
            n == Len(infos)
            places == {k \in 1 .. n : Included(infos[k], ver)}
<1>1. Bases[c] # << >> => Bases[c][1] \in Classes
  BY RankHas
<1>2. list \in Seq(AllInfos) /\ ToSet(list) = ToSet(Own(c)) \union (IF Bases[c] = << >> THEN {} ELSE ToSet(Own(Bases[c][1])))
  BY <1>1, OwnHas, ConcatElements
<1>3. infos = RemoveDuplicate(list)
  BY DEF PropertyInfos
<1>. HIDE DEF list, infos
<1>4. infos \in Seq(AllInfos) /\ ToSet(infos) = ToSet(list)
  BY <1>2, <1>3, RemoveDuplicateHas
<1>5. Properties(c, ver) = At(infos, places)
  BY DEF Properties, infos
<1>6. n \in Nat /\ DOMAIN infos = 1 .. n
  BY <1>4
<1>. HIDE DEF n
<1>7. /\ Properties(c, ver) \in Seq(AllInfos)
      /\ \A p : p \in ToSet(Properties(c, ver)) <=> \E k \in 1 .. n : k \in places /\ p = infos[k]
  BY <1>4, <1>5, AtHas DEF n
<1>8. \A p : p \in ToSet(Properties(c, ver)) <=> p.since <= ver /\ p \in ToSet(infos)
  BY <1>6, <1>7 DEF Included, ToSet
<1>. QED BY <1>1, <1>2, <1>4, <1>7, <1>8, OwnHas

(* Every property is found as a member of the class.                       *)
LEMMA PropertyIsFound ==
  ASSUME NEW c \in Classes, NEW ver, NEW p \in ToSet(Properties(c, ver))
  PROVE  FindType(c, p.name) \in ToSet(Aggregate[c])
<1>1. PICK m : /\ m \in Members(c) \/ (Bases[c] # << >> /\ m \in Members(Bases[c][1]))
               /\ p = Info(Field(m))
  BY PropertiesHas
<1>2. p.name = Field(m).name
  BY <1>1 DEF Info
<1>3. ASSUME NEW d \in Classes, m \in Members(d) PROVE ContainsName(d, p.name)
  <2>1. OwnIndex(d, p.name) # 0
    BY <1>2, <1>3, OwnIndexHas DEF Members, Field
  <2>. QED BY <2>1, ContainsUnfolds
<1>4. ContainsName(c, p.name)
  <2>1. CASE m \in Members(c)
    BY <1>3, <2>1
  <2>2. CASE Bases[c] # << >> /\ m \in Members(Bases[c][1])
    <3>1. 1 \in 1 .. Len(Bases[c]) /\ Bases[c][1] \in Classes
      BY <2>2, RankHas
    <3>2. ContainsName(Bases[c][1], p.name)
      BY <1>3, <2>2, <3>1
    <3>. QED BY <3>1, <3>2, ContainsUnfolds
  <2>. QED BY <1>1, <2>1, <2>2
<1>. QED BY <1>4, FindTypeFinds

(* Every member that is a property, neither hidden nor inherited further   *)
(* than from a base, is found for one of the properties.                   *)
LEMMA MemberIsListed ==
  ASSUME NEW c \in Classes, Len(Bases[c]) <= 1, NEW ver, NEW m \in ToSet(Aggregate[c]),
         Field(m).property, Field(m).since <= ver, ~ Hidden(c, m), ~ Inherited(c, m)
  PROVE  \E p \in ToSet(Properties(c, ver)) : FindType(c, p.name) = m
<1>. DEFINE I == {k \in 1 .. Len(Aggregate[c]) : Aggregate[c][k] = m}
<1>1. FindName(c, m) = Field(m).name
  <2>1. I # {} /\ I \subseteq Nat
    BY AggregateHas DEF ToSet
  <2>2. Min(I) \in I
    <3>. HIDE DEF I
    <3>1. \E x \in I : \A y \in I : x <= y
      BY <2>1, LeastExists
    <3>. QED BY <3>1 DEF Min
  <2>3. SelectInSeq(Aggregate[c], LAMBDA x : x = m) = Min(I)
    BY <2>1 DEF SelectInSeq
  <2>. QED BY <2>2, <2>3 DEF FindName
<1>2. FindType(c, Field(m).name) = m
  BY <1>1 DEF Hidden
<1>3. m \in Members(c) \/ (Bases[c] # << >> /\ m \in Members(Bases[c][1]))
  <2>1. m \in AllMembers
    <3>1. \A S : \A q \in Seq(S) : ToSet(q) \subseteq S
      BY DEF ToSet
    <3>. QED BY <3>1, AggregateHas
  <2>2. PICK d \in Classes : m \in Members(d)
    BY <2>1 DEF AllMembers
  <2>3. m[1] = d
    BY <2>2 DEF Members
  <2>4. d = c \/ d \in ToSet(Bases[c])
    BY <2>3 DEF Inherited
  <2>5. d \in ToSet(Bases[c]) => Bases[c] # << >> /\ d = Bases[c][1]
    <3>1. Bases[c] \in Seq(Classes)
      BY RankHas
    <3>2. \A k \in DOMAIN Bases[c] : k = 1
      BY <3>1
    <3>. QED BY <3>1, <3>2 DEF ToSet
  <2>. QED BY <2>2, <2>4, <2>5
<1>4. Info(Field(m)).since = Field(m).since /\ Info(Field(m)).name = Field(m).name
  BY DEF Info
<1>5. Info(Field(m)) \in ToSet(Properties(c, ver))
  BY <1>3, <1>4, PropertiesHas
<1>. QED BY <1>2, <1>4, <1>5

-----------------------------------------------------------------------------
(* Numbers and bytes                                                       *)

Nums == [value : Nat, size : Sizes]

AllBytes == [of : Nums, place : Nat]

LEMMA SwappedHas ==
  ASSUME NEW x \in Nums
  PROVE  /\ InMemory(x) \in Seq(AllBytes) /\ Len(InMemory(x)) = x.size /\ InMemory(x)[1].of = x
         /\ Swapped(x) \in Seq(AllBytes) /\ Len(Swapped(x)) = x.size /\ Swapped(x)[1].of = x
         /\ x.size \in 1 .. 8
<1>. DEFINE n == x.size
            bytes == InMemory(x)
<1>1. n \in 1 .. 8
  BY DEF Nums, Sizes
<1>. HIDE DEF n
<1>2. bytes = [k \in 1 .. n |-> [of |-> x, place |-> k - 1]]
  BY DEF InMemory, n
<1>3. \A k \in 1 .. n : [of |-> x, place |-> k - 1] \in AllBytes
  BY <1>1 DEF AllBytes
<1>. HIDE DEF bytes
<1>4. bytes \in Seq(AllBytes) /\ Len(bytes) = n /\ \A k \in 1 .. n : bytes[k].of = x
  BY <1>1, <1>2, <1>3
<1>5. Swapped(x) = [k \in 1 .. n |-> bytes[(n - k) + 1]]
  BY <1>4 DEF Swapped, Reverse, bytes
<1>6. \A k \in 1 .. n : (n - k) + 1 \in 1 .. n
  BY <1>1
<1>7. Swapped(x) \in Seq(AllBytes) /\ Len(Swapped(x)) = n
  BY <1>1, <1>4, <1>5, <1>6
<1>8. Swapped(x)[1].of = x
  BY <1>1, <1>4, <1>5, <1>6
<1>. QED BY <1>1, <1>4, <1>7, <1>8 DEF n, bytes

LEMMA BytesHas ==
  /\ Bytes(<< >>) = << >>
  /\ \A xs \in Seq(Nums) : Bytes(xs) \in Seq(AllBytes)
  /\ \A xs \in Seq(Nums) : xs # << >> => Bytes(xs) = Swapped(xs[1]) \o Bytes(Tail(xs))
<1>. DEFINE parts(xs) == [k \in 1 .. Len(xs) |-> Swapped(xs[k])]
<1>1. Bytes(<< >>) = << >>
  <2>1. parts(<< >>) = << >>
    OBVIOUS
  <2>. QED BY <2>1, FlatEmpty DEF Bytes
<1>2. ASSUME NEW xs \in Seq(Nums)
      PROVE  parts(xs) \in Seq(Seq(AllBytes)) /\ Len(parts(xs)) = Len(xs) /\ \A k \in 1 .. Len(xs) : parts(xs)[k] = Swapped(xs[k])
  <2>1. Len(xs) \in Nat /\ \A k \in 1 .. Len(xs) : Swapped(xs[k]) \in Seq(AllBytes)
    BY SwappedHas
  <2>. QED BY <2>1
<1>3. \A xs \in Seq(Nums) : Bytes(xs) \in Seq(AllBytes)
  <2>. SUFFICES ASSUME NEW xs \in Seq(Nums) PROVE Bytes(xs) \in Seq(AllBytes)
    OBVIOUS
  <2>1. parts(xs) \in Seq(Seq(AllBytes)) /\ Bytes(xs) = FlattenSeq(parts(xs))
    BY <1>2 DEF Bytes
  <2>. HIDE DEF parts
  <2>. QED BY <2>1, FlatType
<1>4. ASSUME NEW xs \in Seq(Nums), xs # << >>
      PROVE  Bytes(xs) = Swapped(xs[1]) \o Bytes(Tail(xs))
  <2>1. Tail(xs) \in Seq(Nums) /\ Len(Tail(xs)) = Len(xs) - 1 /\ Len(xs) \in Nat \ {0}
        /\ \A k \in 1 .. Len(xs) - 1 : Tail(xs)[k] = xs[k + 1]
    BY <1>4
  <2>2. parts(xs) \in Seq(Seq(AllBytes)) /\ parts(xs) # << >> /\ parts(xs)[1] = Swapped(xs[1])
    BY <1>2, <2>1
  <2>3. Tail(parts(xs)) = parts(Tail(xs))
    <3>1. Len(Tail(parts(xs))) = Len(xs) - 1 /\ Len(parts(Tail(xs))) = Len(xs) - 1
      BY <1>2, <2>1
    <3>2. \A k \in 1 .. Len(xs) - 1 : Tail(parts(xs))[k] = Swapped(xs[k + 1])
      <4>1. \A k \in 1 .. Len(xs) : parts(xs)[k] = Swapped(xs[k])
        BY <1>2
      <4>2. \A k \in 1 .. Len(xs) - 1 : Tail(parts(xs))[k] = parts(xs)[k + 1]
        <5>1. parts(xs) \in Seq(Seq(AllBytes)) /\ Len(parts(xs)) = Len(xs)
          BY <1>2
        <5>. HIDE DEF parts
        <5>. QED BY <5>1
      <4>. QED BY <2>1, <4>1, <4>2
    <3>3. \A k \in 1 .. Len(xs) - 1 : parts(Tail(xs))[k] = Swapped(xs[k + 1])
      BY <1>2, <2>1
    <3>4. parts(Tail(xs)) \in Seq(Seq(AllBytes)) /\ Tail(parts(xs)) \in Seq(Seq(AllBytes))
      <4>1. parts(xs) \in Seq(Seq(AllBytes)) /\ parts(xs) # << >> /\ parts(Tail(xs)) \in Seq(Seq(AllBytes))
        BY <1>2, <2>1, <2>2
      <4>. HIDE DEF parts
      <4>. QED BY <4>1
    <3>. HIDE DEF parts
    <3>5. \A k \in 1 .. Len(Tail(parts(xs))) : Tail(parts(xs))[k] = parts(Tail(xs))[k]
      BY <3>1, <3>2, <3>3
    <3>. QED BY <3>1, <3>4, <3>5, SameSequence
  <2>4. Bytes(xs) = FlattenSeq(parts(xs)) /\ Bytes(Tail(xs)) = FlattenSeq(parts(Tail(xs)))
    BY DEF Bytes
  <2>. HIDE DEF parts
  <2>5. FlattenSeq(parts(xs)) = parts(xs)[1] \o FlattenSeq(Tail(parts(xs)))
    BY <2>2, FlatFirst
  <2>. QED BY <2>2, <2>3, <2>4, <2>5
<1>. QED BY <1>1, <1>3, <1>4

(* What a value is written as: as many numbers as it has items, and a      *)
(* container's count before them.                                          *)
Container(m) == Field(m).shape \in {"list", "stack"}

LEMMA FieldHas ==
  ASSUME NEW m \in AllMembers
  PROVE  Field(m).shape \in Shapes /\ Field(m).size \in Sizes /\ Field(m).blank \in Seq(Nat) /\ Field(m).since \in Nat
<1>1. PICK c \in Classes : m \in Members(c)
  BY DEF AllMembers
<1>2. PICK k \in 1 .. Len(Fields[c]) : m = << c, k >>
  BY <1>1 DEF Members
<1>. QED BY <1>2, ShapesAssumption, FieldsAssumption DEF Field

AreNumbers(m, v, ns) ==
  /\ ns \in Seq(Nums)
  /\ Field(m).shape = "fixed" =>
       Len(ns) = Len(v) /\ \A k \in 1 .. Len(v) : ns[k] = Number(v[k], Field(m).size)
  /\ Field(m).shape = "enum" => Len(ns) = 1 /\ ns[1] = Number(v[1] % 256, 1)
  /\ Container(m) =>
       /\ Len(ns) = Len(v) + 1 /\ ns[1] = Number(Len(v), 8)
       /\ \A k \in 1 .. Len(v) :
            ns[k + 1] = Number(IF Field(m).shape = "list" THEN v[k] ELSE v[(Len(v) - k) + 1], Field(m).size)

LEMMA NumbersHas ==
  ASSUME NEW m \in AllMembers, NEW v \in Seq(Nat), Field(m).shape = "enum" => Len(v) = 1
  PROVE  AreNumbers(m, v, Numbers(Field(m), v))
<1>. USE DEF AreNumbers
<1>. DEFINE f == Field(m)
            ns == Numbers(f, v)
            n == Len(v)
            es == Elements(f, v)
<1>1. f.shape \in Shapes /\ f.size \in Sizes
  BY FieldHas
<1>. HIDE DEF f
<1>2. n \in Nat /\ (\A k \in 1 .. n : v[k] \in Nat) /\ \A k \in 1 .. n : (n - k) + 1 \in 1 .. n
  OBVIOUS
<1>. HIDE DEF n
<1>3. es = [k \in 1 .. n |-> Number(v[k], f.size)]
  BY DEF Elements, n
<1>. HIDE DEF es
<1>4. \A k \in 1 .. n : Number(v[k], f.size) \in Nums
  BY <1>1, <1>2 DEF Number, Nums
<1>5. es \in Seq(Nums) /\ Len(es) = n /\ \A k \in 1 .. n : es[k] = Number(v[k], f.size)
  BY <1>2, <1>3, <1>4
<1>6. Number(n, 8) \in Nums
  BY <1>2 DEF Number, Nums, Sizes
<1>7. CASE f.shape = "fixed"
  <2>1. ns = es
    BY <1>7 DEF Numbers, es
  <2>. QED BY <1>5, <1>7, <2>1 DEF n, f, Container
<1>8. CASE f.shape = "enum"
  <2>1. ns = << Number(v[1] % 256, 1) >>
    BY <1>8 DEF Numbers, Byte
  <2>2. v[1] % 256 \in Nat
    BY <1>2, <1>8, SMTT(30) DEF n, f
  <2>3. Number(v[1] % 256, 1) \in Nums
    BY <2>2 DEF Number, Nums, Sizes
  <2>. HIDE DEF ns
  <2>. QED BY <1>8, <2>1, <2>3 DEF n, f, Container, ns
<1>9. CASE f.shape = "list"
  <2>1. ns = << Number(n, 8) >> \o es
    BY <1>9 DEF Numbers, Count, es, n
  <2>. HIDE DEF ns
  <2>2. ns \in Seq(Nums) /\ Len(ns) = n + 1 /\ ns[1] = Number(n, 8) /\ \A k \in 1 .. n : ns[k + 1] = es[k]
    BY <1>2, <1>5, <1>6, <2>1
  <2>. QED BY <1>5, <1>9, <2>2 DEF n, f, Container, ns
<1>10. CASE f.shape = "stack"
  <2>. DEFINE r == Reverse(es)
  <2>1. ns = << Number(n, 8) >> \o r
    BY <1>10 DEF Numbers, Count, es, n
  <2>. HIDE DEF ns
  <2>2. r \in Seq(Nums) /\ Len(r) = n /\ \A k \in 1 .. n : r[k] = es[(n - k) + 1]
    <3>1. r = [k \in 1 .. n |-> es[(n - k) + 1]]
      BY <1>5 DEF Reverse
    <3>2. \A k \in 1 .. n : es[(n - k) + 1] \in Nums
      BY <1>2, <1>5
    <3>. HIDE DEF r
    <3>. QED BY <1>2, <3>1, <3>2
  <2>. HIDE DEF r
  <2>3. ns \in Seq(Nums) /\ Len(ns) = n + 1 /\ ns[1] = Number(n, 8) /\ \A k \in 1 .. n : ns[k + 1] = r[k]
    BY <1>2, <1>6, <2>1, <2>2
  <2>4. \A k \in 1 .. n : ns[k + 1] = Number(v[(n - k) + 1], f.size)
    BY <1>2, <1>5, <2>2, <2>3
  <2>. QED BY <1>10, <2>3, <2>4 DEF n, f, Container, ns
<1>. QED BY <1>1, <1>7, <1>8, <1>9, <1>10 DEF Shapes

-----------------------------------------------------------------------------
(* Objects                                                                 *)

LEMMA OwnElements == ASSUME NEW S, NEW q \in Seq(S) PROVE q \in Seq(ToSet(q)) /\ ToSet(q) \subseteq S
<1>1. Len(q) \in Nat /\ DOMAIN q = 1 .. Len(q) /\ q = [k \in 1 .. Len(q) |-> q[k]]
  OBVIOUS
<1>2. \A k \in 1 .. Len(q) : q[k] \in ToSet(q) /\ q[k] \in S
  BY <1>1 DEF ToSet
<1>. QED BY <1>1, <1>2 DEF ToSet

LEMMA ObjectHas ==
  ASSUME NEW o \in Objects
  PROVE  /\ o.class \in Classes /\ Len(Bases[o.class]) <= 1
         /\ o.members \in [ToSet(Aggregate[o.class]) -> Seq(Nat)]
         /\ \A m \in ToSet(Aggregate[o.class]) :
              /\ m \in AllMembers /\ o.members[m] \in Seq(Nat)
              /\ Field(m).shape = "enum" => Len(o.members[m]) = 1
              /\ Field(m).shape = "fixed" => Len(o.members[m]) = Len(Field(m).blank)
<1>1. /\ o.class \in Classes /\ Len(Bases[o.class]) <= 1
      /\ o.members \in [ToSet(Aggregate[o.class]) -> Seq(Nat)]
      /\ \A m \in DOMAIN o.members :
           /\ Field(m).shape = "enum" => Len(o.members[m]) = 1
           /\ Field(m).shape = "fixed" => Len(o.members[m]) = Len(Field(m).blank)
  BY ObjectsAssumption
<1>2. ToSet(Aggregate[o.class]) \subseteq AllMembers
  BY <1>1, AggregateHas, OwnElements
<1>. QED BY <1>1, <1>2

LEMMA ValueHas ==
  ASSUME NEW o \in Objects, NEW m \in ToSet(Aggregate[o.class])
  PROVE  Numbers(Field(m), o.members[m]) \in Seq(Nums)
BY ObjectHas, NumbersHas DEF AreNumbers

LEMMA InfosNumbersHas ==
  ASSUME NEW o \in Objects, NEW ver, NEW infos \in Seq(ToSet(Properties(o.class, ver)))
  PROVE  /\ InfosNumbers(o, infos) \in Seq(Nums)
         /\ infos = << >> => InfosNumbers(o, infos) = << >>
         /\ infos # << >> =>
              /\ Target(o, infos) \in ToSet(Aggregate[o.class])
              /\ InfosNumbers(o, infos) =
                   Numbers(Field(Target(o, infos)), o.members[Target(o, infos)]) \o InfosNumbers(o, Tail(infos))
<1>. DEFINE Ps == ToSet(Properties(o.class, ver))
            value(p) == Numbers(Field(FindType(o.class, p.name)), o.members[FindType(o.class, p.name)])
            parts(q) == [k \in 1 .. Len(q) |-> value(q[k])]
<1>1. \A p \in Ps : FindType(o.class, p.name) \in ToSet(Aggregate[o.class])
  BY ObjectHas, PropertyIsFound
<1>2. \A p \in Ps : value(p) \in Seq(Nums)
  BY <1>1, ValueHas
<1>3. \A q : InfosNumbers(o, q) = FlattenSeq(parts(q))
  BY DEF InfosNumbers
<1>. HIDE DEF value
<1>4. ASSUME NEW q \in Seq(Ps)
      PROVE  /\ parts(q) \in Seq(Seq(Nums)) /\ Len(parts(q)) = Len(q)
             /\ \A k \in 1 .. Len(q) : parts(q)[k] = value(q[k])
  <2>1. Len(q) \in Nat /\ \A k \in 1 .. Len(q) : q[k] \in Ps
    OBVIOUS
  <2>2. \A k \in 1 .. Len(q) : value(q[k]) \in Seq(Nums)
    BY <1>2, <2>1
  <2>. QED BY <2>1, <2>2
<1>5. ASSUME NEW q \in Seq(Ps) PROVE InfosNumbers(o, q) \in Seq(Nums)
  <2>. HIDE DEF parts
  <2>. QED BY <1>3, <1>4, FlatType
<1>6. infos = << >> => InfosNumbers(o, infos) = << >>
  <2>1. parts(<< >>) = << >>
    OBVIOUS
  <2>. QED BY <1>3, <2>1, FlatEmpty
<1>7. ASSUME infos # << >>
      PROVE  InfosNumbers(o, infos) = value(infos[1]) \o InfosNumbers(o, Tail(infos))
  <2>. DEFINE n == Len(infos)
  <2>1. Tail(infos) \in Seq(Ps) /\ Len(Tail(infos)) = n - 1 /\ n \in Nat \ {0}
        /\ \A k \in 1 .. n - 1 : Tail(infos)[k] = infos[k + 1]
    BY <1>7
  <2>2. parts(infos) \in Seq(Seq(Nums)) /\ parts(infos) # << >> /\ Len(parts(infos)) = n
        /\ \A k \in 1 .. n : parts(infos)[k] = value(infos[k])
    BY <1>4, <2>1
  <2>3. /\ parts(Tail(infos)) \in Seq(Seq(Nums)) /\ Len(parts(Tail(infos))) = n - 1
        /\ \A k \in 1 .. n - 1 : parts(Tail(infos))[k] = value(Tail(infos)[k])
    BY <1>4, <2>1
  <2>. HIDE DEF parts, n
  <2>4. Tail(parts(infos)) \in Seq(Seq(Nums)) /\ Len(Tail(parts(infos))) = n - 1
        /\ \A k \in 1 .. n - 1 : Tail(parts(infos))[k] = parts(infos)[k + 1]
    BY <2>1, <2>2
  <2>5. \A k \in 1 .. n - 1 : Tail(parts(infos))[k] = parts(Tail(infos))[k]
    BY <2>1, <2>2, <2>3, <2>4
  <2>6. Tail(parts(infos)) = parts(Tail(infos))
    BY <2>3, <2>4, <2>5, SameSequence
  <2>7. FlattenSeq(parts(infos)) = parts(infos)[1] \o FlattenSeq(Tail(parts(infos)))
    BY <2>2, FlatFirst
  <2>8. parts(infos)[1] = value(infos[1])
    BY <2>1, <2>2
  <2>. QED BY <1>3, <2>6, <2>7, <2>8
<1>8. infos # << >> => infos[1] \in Ps /\ Target(o, infos) = FindType(o.class, infos[1].name)
  BY DEF Target
<1>. QED BY <1>1, <1>5, <1>6, <1>7, <1>8 DEF value

LEMMA ObjectNumbersHas ==
  ASSUME NEW o \in Objects, NEW ver
  PROVE  /\ Properties(o.class, ver) \in Seq(ToSet(Properties(o.class, ver)))
         /\ ObjectNumbers(o, ver) \in Seq(Nums)
<1>1. Properties(o.class, ver) \in Seq(AllInfos)
  BY ObjectHas, PropertiesHas
<1>2. Properties(o.class, ver) \in Seq(ToSet(Properties(o.class, ver)))
  BY <1>1, OwnElements
<1>. QED BY <1>2, InfosNumbersHas DEF ObjectNumbers

(* The objects of w from the j + 1st on, as bytes.                         *)
Laid(w, ver, j) ==
  FlattenSeq([k \in 1 .. Len(w) - j |-> Bytes(ObjectNumbers(w[j + k], ver))])

LEMMA LaidHas ==
  ASSUME NEW w \in Seq(Objects), NEW ver, NEW j \in 0 .. Len(w)
  PROVE  /\ Laid(w, ver, j) \in Seq(AllBytes)
         /\ j = Len(w) => Laid(w, ver, j) = << >>
         /\ j < Len(w) => Laid(w, ver, j) = Bytes(ObjectNumbers(w[j + 1], ver)) \o Laid(w, ver, j + 1)
         /\ \A o \in Objects : Laid(Append(w, o), ver, j) = Laid(w, ver, j) \o Bytes(ObjectNumbers(o, ver))
<1>. DEFINE bytes(o) == Bytes(ObjectNumbers(o, ver))
            parts(u, i) == [k \in 1 .. Len(u) - i |-> bytes(u[i + k])]
<1>1. \A o \in Objects : bytes(o) \in Seq(AllBytes)
  BY ObjectNumbersHas, BytesHas
<1>2. \A u, i : Laid(u, ver, i) = FlattenSeq(parts(u, i))
  BY DEF Laid
<1>. HIDE DEF bytes
<1>3. ASSUME NEW u \in Seq(Objects), NEW i \in 0 .. Len(u)
      PROVE  /\ parts(u, i) \in Seq(Seq(AllBytes)) /\ Len(parts(u, i)) = Len(u) - i
             /\ \A k \in 1 .. Len(u) - i : parts(u, i)[k] = bytes(u[i + k])
             /\ Laid(u, ver, i) \in Seq(AllBytes)
  <2>1. Len(u) - i \in Nat /\ \A k \in 1 .. Len(u) - i : u[i + k] \in Objects
    OBVIOUS
  <2>2. \A k \in 1 .. Len(u) - i : bytes(u[i + k]) \in Seq(AllBytes)
    BY <1>1, <2>1
  <2>3. /\ parts(u, i) \in Seq(Seq(AllBytes)) /\ Len(parts(u, i)) = Len(u) - i
        /\ \A k \in 1 .. Len(u) - i : parts(u, i)[k] = bytes(u[i + k])
    BY <2>1, <2>2
  <2>. HIDE DEF parts
  <2>. QED BY <1>2, <2>3, FlatType
<1>4. ASSUME j = Len(w) PROVE Laid(w, ver, j) = << >>
  <2>1. parts(w, j) \in Seq(Seq(AllBytes)) /\ Len(parts(w, j)) = Len(w) - j
    BY <1>3
  <2>. HIDE DEF parts
  <2>2. parts(w, j) = << >>
    BY <1>4, <2>1
  <2>. QED BY <1>2, <2>2, FlatEmpty
<1>. DEFINE n == Len(w)
<1>5. ASSUME j < n PROVE Laid(w, ver, j) = bytes(w[j + 1]) \o Laid(w, ver, j + 1)
  <2>1. n \in Nat /\ j + 1 \in 0 .. n
    BY <1>5
  <2>2. /\ parts(w, j) \in Seq(Seq(AllBytes)) /\ Len(parts(w, j)) = n - j
        /\ \A k \in 1 .. n - j : parts(w, j)[k] = bytes(w[j + k])
    BY <1>3
  <2>3. /\ parts(w, j + 1) \in Seq(Seq(AllBytes)) /\ Len(parts(w, j + 1)) = n - (j + 1)
        /\ \A k \in 1 .. n - (j + 1) : parts(w, j + 1)[k] = bytes(w[(j + 1) + k])
    BY <1>3, <2>1
  <2>. HIDE DEF parts, n
  <2>4. parts(w, j) # << >> /\ parts(w, j)[1] = bytes(w[j + 1])
    BY <1>5, <2>1, <2>2
  <2>5. Tail(parts(w, j)) \in Seq(Seq(AllBytes)) /\ Len(Tail(parts(w, j))) = n - (j + 1)
        /\ \A k \in 1 .. n - (j + 1) : Tail(parts(w, j))[k] = parts(w, j)[k + 1]
    BY <1>5, <2>1, <2>2, <2>4
  <2>6. ASSUME NEW k \in 1 .. n - (j + 1) PROVE Tail(parts(w, j))[k] = parts(w, j + 1)[k]
    <3>1. k + 1 \in 1 .. n - j /\ j + (k + 1) = (j + 1) + k
      BY <2>1
    <3>. QED BY <2>2, <2>3, <2>5, <3>1
  <2>7. Tail(parts(w, j)) = parts(w, j + 1)
    BY <2>3, <2>5, <2>6, SameSequence
  <2>8. FlattenSeq(parts(w, j)) = parts(w, j)[1] \o FlattenSeq(Tail(parts(w, j)))
    BY <2>2, <2>4, FlatFirst
  <2>. QED BY <1>2, <2>4, <2>7, <2>8
<1>6. ASSUME NEW o \in Objects PROVE Laid(Append(w, o), ver, j) = Laid(w, ver, j) \o bytes(o)
  <2>. DEFINE u == Append(w, o)
  <2>1. n \in Nat /\ u \in Seq(Objects) /\ Len(u) = n + 1 /\ u[n + 1] = o /\ \A k \in 1 .. n : u[k] = w[k]
    OBVIOUS
  <2>. HIDE DEF u
  <2>2. /\ parts(w, j) \in Seq(Seq(AllBytes)) /\ Len(parts(w, j)) = n - j
        /\ \A k \in 1 .. n - j : parts(w, j)[k] = bytes(w[j + k])
    BY <1>3
  <2>3. /\ parts(u, j) \in Seq(Seq(AllBytes)) /\ Len(parts(u, j)) = n + 1 - j
        /\ \A k \in 1 .. n + 1 - j : parts(u, j)[k] = bytes(u[j + k])
    <3>1. j \in 0 .. Len(u)
      BY <2>1
    <3>2. /\ parts(u, j) \in Seq(Seq(AllBytes)) /\ Len(parts(u, j)) = Len(u) - j
          /\ \A k \in 1 .. Len(u) - j : parts(u, j)[k] = bytes(u[j + k])
      BY <1>3, <2>1, <3>1
    <3>. HIDE DEF n, parts
    <3>. QED BY <2>1, <3>2
  <2>4. bytes(o) \in Seq(AllBytes)
    BY <1>1
  <2>. HIDE DEF parts, n
  <2>5. /\ Append(parts(w, j), bytes(o)) \in Seq(Seq(AllBytes)) /\ Len(Append(parts(w, j), bytes(o))) = n + 1 - j
        /\ Append(parts(w, j), bytes(o))[(n - j) + 1] = bytes(o)
        /\ \A k \in 1 .. n - j : Append(parts(w, j), bytes(o))[k] = parts(w, j)[k]
    BY <2>1, <2>2, <2>4
  <2>6. ASSUME NEW k \in 1 .. n + 1 - j PROVE parts(u, j)[k] = Append(parts(w, j), bytes(o))[k]
    <3>1. CASE k \in 1 .. n - j
      <4>1. j + k \in 1 .. n /\ j \in Nat
        BY <2>1, <3>1 DEF n
      <4>. QED BY <2>1, <2>2, <2>3, <2>5, <3>1, <4>1
    <3>2. CASE k = (n - j) + 1
      <4>1. j + k = n + 1
        BY <2>1, <3>2 DEF n
      <4>. QED BY <2>1, <2>3, <2>5, <3>2, <4>1
    <3>3. k \in 1 .. n - j \/ k = (n - j) + 1
      BY <2>1 DEF n
    <3>. QED BY <3>1, <3>2, <3>3
  <2>7. parts(u, j) = Append(parts(w, j), bytes(o))
    BY <2>3, <2>5, <2>6, SameSequence
  <2>8. FlattenSeq(Append(parts(w, j), bytes(o))) = FlattenSeq(parts(w, j)) \o bytes(o)
    BY <2>2, <2>4, FlatAppend
  <2>. QED BY <1>2, <2>7, <2>8 DEF u
<1>. QED BY <1>3, <1>4, <1>5, <1>6 DEF bytes

-----------------------------------------------------------------------------
(* What follows the first n of a sequence                                  *)

After(s, n) == SubSeq(s, n + 1, Len(s))

LEMMA PartHas ==
  ASSUME NEW S, NEW s \in Seq(S), NEW n \in Nat, NEW m \in Nat, n + m <= Len(s)
  PROVE  /\ SubSeq(s, n + 1, n + m) \in Seq(S) /\ Len(SubSeq(s, n + 1, n + m)) = m
         /\ \A k \in 1 .. m : SubSeq(s, n + 1, n + m)[k] = s[n + k]
<1>1. Len(s) \in Nat /\ \A k \in 1 .. m : n + k \in 1 .. Len(s) /\ ((n + 1) + k) - 1 = n + k
  OBVIOUS
<1>2. SubSeq(s, n + 1, n + m) = [k \in 1 .. m |-> s[n + k]]
  <2>1. (n + m) - (n + 1) + 1 = m
    OBVIOUS
  <2>2. SubSeq(s, n + 1, n + m) = [k \in 1 .. ((n + m) - (n + 1) + 1) |-> s[((n + 1) + k) - 1]]
    BY DEF SubSeq
  <2>. QED BY <1>1, <2>1, <2>2
<1>. QED BY <1>1, <1>2

LEMMA JoinHas ==
  ASSUME NEW S, NEW x \in Seq(S), NEW y \in Seq(S)
  PROVE  /\ x \o y \in Seq(S) /\ Len(x \o y) = Len(x) + Len(y)
         /\ \A k \in 1 .. Len(x) + Len(y) : (x \o y)[k] = IF k <= Len(x) THEN x[k] ELSE y[k - Len(x)]
OBVIOUS

LEMMA AfterHas ==
  ASSUME NEW S, NEW s \in Seq(S), NEW n \in 0 .. Len(s)
  PROVE  /\ After(s, n) \in Seq(S) /\ Len(After(s, n)) = Len(s) - n
         /\ \A k \in 1 .. Len(s) - n : After(s, n)[k] = s[n + k]
<1>1. Len(s) \in Nat /\ \A k \in 1 .. Len(s) - n : n + k \in 1 .. Len(s) /\ ((n + 1) + k) - 1 = n + k
  OBVIOUS
<1>. QED BY <1>1 DEF After

LEMMA AfterEnds ==
  ASSUME NEW S, NEW s \in Seq(S)
  PROVE  After(s, 0) = s /\ After(s, Len(s)) = << >>
<1>1. 0 \in 0 .. Len(s) /\ Len(s) \in 0 .. Len(s)
  OBVIOUS
<1>2. After(s, 0) = s
  BY <1>1, AfterHas, SameSequence
<1>. QED BY <1>1, <1>2, AfterHas

LEMMA AfterOne ==
  ASSUME NEW S, NEW s \in Seq(S), NEW n \in 0 .. Len(s), n < Len(s)
  PROVE  After(s, n) = << s[n + 1] >> \o After(s, n + 1)
<1>1. Len(s) \in Nat /\ n + 1 \in 0 .. Len(s) /\ s[n + 1] \in S
  OBVIOUS
<1>2. /\ After(s, n) \in Seq(S) /\ Len(After(s, n)) = Len(s) - n
      /\ \A k \in 1 .. Len(s) - n : After(s, n)[k] = s[n + k]
  BY AfterHas
<1>3. /\ After(s, n + 1) \in Seq(S) /\ Len(After(s, n + 1)) = Len(s) - (n + 1)
      /\ \A k \in 1 .. Len(s) - (n + 1) : After(s, n + 1)[k] = s[(n + 1) + k]
  BY <1>1, AfterHas
<1>. DEFINE t == << s[n + 1] >> \o After(s, n + 1)
<1>4. /\ t \in Seq(S) /\ Len(t) = Len(s) - n /\ t[1] = s[n + 1]
      /\ \A k \in 2 .. Len(s) - n : t[k] = After(s, n + 1)[k - 1]
  BY <1>1, <1>3
<1>. HIDE DEF t
<1>5. ASSUME NEW k \in 1 .. Len(s) - n PROVE t[k] = s[n + k]
  <2>1. CASE k = 1
    BY <1>4, <2>1
  <2>2. CASE k # 1
    <3>1. k \in 2 .. Len(s) - n /\ k - 1 \in 1 .. Len(s) - (n + 1) /\ (n + 1) + (k - 1) = n + k
      BY <1>1, <2>2
    <3>. QED BY <1>3, <1>4, <3>1
  <2>. QED BY <2>1, <2>2
<1>6. After(s, n) = t
  BY <1>2, <1>4, <1>5, SameSequence
<1>. QED BY <1>6 DEF t

LEMMA AfterConcat ==
  ASSUME NEW S, NEW s \in Seq(S), NEW t \in Seq(S), NEW n \in 0 .. Len(s)
  PROVE  After(s \o t, n) = After(s, n) \o t
<1>. DEFINE u == s \o t
            v == After(s, n) \o t
<1>1. Len(s) \in Nat /\ Len(t) \in Nat /\ n \in Nat
  OBVIOUS
<1>2. u \in Seq(S) /\ Len(u) = Len(s) + Len(t)
      /\ \A k \in 1 .. Len(s) + Len(t) : u[k] = IF k <= Len(s) THEN s[k] ELSE t[k - Len(s)]
  OBVIOUS
<1>3. /\ After(s, n) \in Seq(S) /\ Len(After(s, n)) = Len(s) - n
      /\ \A k \in 1 .. Len(s) - n : After(s, n)[k] = s[n + k]
  BY AfterHas
<1>4. v \in Seq(S) /\ Len(v) = (Len(s) - n) + Len(t)
      /\ \A k \in 1 .. (Len(s) - n) + Len(t) :
           v[k] = IF k <= Len(s) - n THEN After(s, n)[k] ELSE t[k - (Len(s) - n)]
  <2>. DEFINE a == After(s, n)
  <2>1. a \in Seq(S) /\ Len(a) = Len(s) - n
    BY <1>3
  <2>. HIDE DEF a
  <2>2. /\ a \o t \in Seq(S) /\ Len(a \o t) = Len(a) + Len(t)
        /\ \A k \in 1 .. Len(a) + Len(t) : (a \o t)[k] = IF k <= Len(a) THEN a[k] ELSE t[k - Len(a)]
    BY <2>1, JoinHas
  <2>. QED BY <2>1, <2>2 DEF a
<1>. HIDE DEF u, v
<1>5. n \in 0 .. Len(u)
  BY <1>1, <1>2
<1>6. /\ After(u, n) \in Seq(S) /\ Len(After(u, n)) = Len(u) - n
      /\ \A k \in 1 .. Len(u) - n : After(u, n)[k] = u[n + k]
  BY <1>2, <1>5, AfterHas, ZenonT(30)
<1>7. ASSUME NEW k \in 1 .. Len(u) - n PROVE After(u, n)[k] = v[k]
  <2>1. n + k \in 1 .. Len(s) + Len(t) /\ k \in 1 .. (Len(s) - n) + Len(t)
    BY <1>1, <1>2
  <2>2. CASE k <= Len(s) - n
    <3>1. n + k <= Len(s) /\ k \in 1 .. Len(s) - n
      BY <1>1, <2>2
    <3>. QED BY <1>2, <1>3, <1>4, <1>6, <2>1, <2>2, <3>1
  <2>3. CASE ~ (k <= Len(s) - n)
    <3>1. ~ (n + k <= Len(s)) /\ (n + k) - Len(s) = k - (Len(s) - n)
      BY <1>1, <2>3
    <3>. QED BY <1>2, <1>4, <1>6, <2>1, <2>3, <3>1
  <2>. QED BY <2>2, <2>3
<1>8. Len(After(u, n)) = Len(v)
  BY <1>1, <1>2, <1>4, <1>6
<1>9. After(u, n) = v
  BY <1>4, <1>6, <1>7, <1>8, SameSequence
<1>. QED BY <1>9 DEF u, v

(* Where what follows begins with a, it goes on after it.                  *)
Continues(s, n, a, b) == After(s, n) = a \o b

LEMMA AfterSplits ==
  ASSUME NEW s \in Seq(AllBytes), NEW n \in 0 .. Len(s), NEW a \in Seq(AllBytes), NEW b \in Seq(AllBytes),
         Continues(s, n, a, b)
  PROVE  /\ n + Len(a) \in 0 .. Len(s) /\ Len(s) - n = Len(a) + Len(b)
         /\ After(s, n + Len(a)) = b
         /\ \A k \in 1 .. Len(a) : s[n + k] = a[k]
<1>. DEFINE l == Len(a)
            c == a \o b
<1>1. Len(s) \in Nat /\ l \in Nat /\ Len(b) \in Nat /\ n \in Nat
  OBVIOUS
<1>2. c \in Seq(AllBytes) /\ Len(c) = l + Len(b)
      /\ \A k \in 1 .. l + Len(b) : c[k] = IF k <= l THEN a[k] ELSE b[k - l]
  OBVIOUS
<1>3. Len(After(s, n)) = Len(s) - n /\ \A k \in 1 .. Len(s) - n : After(s, n)[k] = s[n + k]
  BY AfterHas
<1>. HIDE DEF l, c
<1>4. After(s, n) = c
  BY DEF c, Continues
<1>5. Len(s) - n = l + Len(b) /\ n + l \in 0 .. Len(s)
  <2>1. Len(After(s, n)) = Len(c)
    BY <1>4
  <2>2. Len(s) - n = l + Len(b)
    BY <1>2, <1>3, <2>1
  <2>. QED BY <1>1, <2>2
<1>6. ASSUME NEW k \in 1 .. l PROVE s[n + k] = a[k]
  <2>1. k \in 1 .. l + Len(b) /\ k \in 1 .. Len(s) - n /\ k <= l
    BY <1>1, <1>5
  <2>. QED BY <1>2, <1>3, <1>4, <2>1
<1>7. /\ After(s, n + l) \in Seq(AllBytes) /\ Len(After(s, n + l)) = Len(s) - (n + l)
      /\ \A k \in 1 .. Len(s) - (n + l) : After(s, n + l)[k] = s[(n + l) + k]
  BY <1>5, AfterHas
<1>8. ASSUME NEW k \in 1 .. Len(b) PROVE s[(n + l) + k] = b[k]
  <2>1. l + k \in 1 .. l + Len(b) /\ l + k \in 1 .. Len(s) - n /\ ~ (l + k <= l) /\ (l + k) - l = k /\ n + (l + k) = (n + l) + k
    BY <1>1, <1>5
  <2>. QED BY <1>2, <1>3, <1>4, <2>1
<1>9. Len(s) - (n + l) = Len(b)
  BY <1>1, <1>5
<1>10. After(s, n + l) = b
  BY <1>7, <1>8, <1>9, SameSequence
<1>. QED BY <1>5, <1>6, <1>10 DEF l

-----------------------------------------------------------------------------
(* The writer                                                              *)

WriterType ==
  /\ size \in Nat /\ size >= 8 /\ version \in Nat
  /\ written \in Seq(Objects) /\ numbers \in Seq(Nums)
  /\ buffer \in Seq(AllBytes) /\ stream \in Seq(AllBytes) /\ file \in Seq(AllBytes)
  /\ writer \in {"open", "closed", "destroyed"}

(* Between buffer, stream and file nothing is lost, and once the writer is *)
(* closed nothing is left in the stream.                                   *)
WriterInv ==
  /\ WriterType
  /\ writer # "open" => stream = << >>
  /\ writer = "open" => file \o stream \o buffer \o Bytes(numbers) = Encoding
  /\ writer = "destroyed" => file = Encoding
  /\ writer = "closed" => IsPrefix(file, Encoding) /\ (early \/ file = Encoding)

LEMMA Regroup ==
  ASSUME NEW x \in Seq(AllBytes), NEW y \in Seq(AllBytes), NEW z \in Seq(AllBytes)
  PROVE  (x \o y) \o z = x \o (y \o z)
BY Associates

LEMMA BytesJoin ==
  /\ \A x \in Seq(AllBytes), y \in Seq(AllBytes) : x \o y \in Seq(AllBytes)
  /\ \A x \in Seq(AllBytes) : x \o << >> = x /\ << >> \o x = x
  /\ << >> \in Seq(AllBytes)
OBVIOUS

LEMMA PrefixHas ==
  ASSUME NEW S, NEW x \in Seq(S), NEW y \in Seq(S)
  PROVE  IsPrefix(x, x \o y)
<1>. DEFINE z == x \o y
<1>1. Len(x) \in Nat /\ z \in Seq(S) /\ Len(x) <= Len(z) /\ Len(z) \in Nat /\ \A k \in 1 .. Len(x) : z[k] = x[k]
  OBVIOUS
<1>. HIDE DEF z
<1>2. SubSeq(x, 1, Len(x)) \in Seq(S) /\ Len(SubSeq(x, 1, Len(x))) = Len(x)
      /\ \A k \in 1 .. Len(x) : SubSeq(x, 1, Len(x))[k] = x[k]
  BY <1>1
<1>3. SubSeq(z, 1, Len(x)) \in Seq(S) /\ Len(SubSeq(z, 1, Len(x))) = Len(x)
      /\ \A k \in 1 .. Len(x) : SubSeq(z, 1, Len(x))[k] = z[k]
  BY <1>1
<1>4. SubSeq(x, 1, Len(x)) = SubSeq(z, 1, Len(x))
  BY <1>1, <1>2, <1>3, SameSequence
<1>5. IsPrefix(x, z)
  BY <1>1, <1>4 DEF IsPrefix
<1>. QED BY <1>5 DEF z

LEMMA PrefixAgrees ==
  ASSUME NEW S, NEW x \in Seq(S), NEW z \in Seq(S), IsPrefix(x, z)
  PROVE  Len(x) <= Len(z) /\ \A k \in 1 .. Len(x) : z[k] = x[k]
<1>1. Len(x) <= Len(z) /\ SubSeq(x, 1, Len(x)) = SubSeq(z, 1, Len(x)) /\ Len(x) \in Nat /\ Len(z) \in Nat
  BY DEF IsPrefix
<1>2. \A k \in 1 .. Len(x) : SubSeq(x, 1, Len(x))[k] = x[k] /\ SubSeq(z, 1, Len(x))[k] = z[k]
  BY <1>1
<1>. QED BY <1>1, <1>2

(* The version, and then the objects.                                      *)
LEMMA HeaderHas ==
  ASSUME NEW n \in Nat
  PROVE  /\ Number(n, 8) \in Nums /\ Number(n, 8).value = n /\ Number(n, 8).size = 8
         /\ InMemory(Number(n, 8)) \in Seq(AllBytes) /\ Len(InMemory(Number(n, 8))) = 8
         /\ InMemory(Number(n, 8))[1].of = Number(n, 8)
<1>1. Number(n, 8) \in Nums /\ Number(n, 8).value = n /\ Number(n, 8).size = 8
  BY DEF Number, Nums, Sizes
<1>. QED BY <1>1, SwappedHas

LEMMA LaidFromStart ==
  ASSUME NEW w \in Seq(Objects), NEW ver
  PROVE  FlattenSeq([k \in 1 .. Len(w) |-> Bytes(ObjectNumbers(w[k], ver))]) = Laid(w, ver, 0)
<1>. DEFINE n == Len(w)
<1>1. n \in Nat
  OBVIOUS
<1>. HIDE DEF n
<1>2. n - 0 = n /\ \A k \in 1 .. n : 0 + k = k
  BY <1>1
<1>3. [k \in 1 .. n |-> Bytes(ObjectNumbers(w[k], ver))] = [k \in 1 .. n - 0 |-> Bytes(ObjectNumbers(w[0 + k], ver))]
  BY <1>2
<1>. QED BY <1>3 DEF Laid, n

LEMMA EncodingIs ==
  ASSUME WriterType
  PROVE  /\ Encoding = Header \o Laid(written, version, 0)
         /\ Laid(written, version, 0) \in Seq(AllBytes) /\ Header \in Seq(AllBytes) /\ Len(Header) = 8
         /\ Encoding \in Seq(AllBytes)
<1>1. Encoding = Header \o Laid(written, version, 0)
  BY LaidFromStart DEF Encoding, WriterType
<1>2. 0 \in 0 .. Len(written)
  BY DEF WriterType
<1>3. Laid(written, version, 0) \in Seq(AllBytes)
  BY <1>2, LaidHas DEF WriterType
<1>4. Header \in Seq(AllBytes) /\ Len(Header) = 8
  BY HeaderHas DEF WriterType, Header
<1>. QED BY <1>1, <1>3, <1>4, BytesJoin

(* The file is the beginning of what has been put.                         *)
LEMMA FileLeads ==
  ASSUME WriterInv
  PROVE  Len(file) <= Len(Encoding) /\ \A k \in 1 .. Len(file) : Encoding[k] = file[k]
<1>. USE DEF WriterInv
<1>1. Encoding \in Seq(AllBytes) /\ file \in Seq(AllBytes)
  BY EncodingIs DEF WriterType
<1>2. IsPrefix(file, Encoding)
  <2>1. CASE writer = "open"
    <3>1. stream \in Seq(AllBytes) /\ buffer \in Seq(AllBytes) /\ Bytes(numbers) \in Seq(AllBytes)
      BY BytesHas DEF WriterType
    <3>. DEFINE rest == stream \o (buffer \o Bytes(numbers))
    <3>2. buffer \o Bytes(numbers) \in Seq(AllBytes) /\ file \o stream \in Seq(AllBytes)
      BY <1>1, <3>1, BytesJoin
    <3>3. rest \in Seq(AllBytes)
      BY <3>1, <3>2, BytesJoin
    <3>4. ((file \o stream) \o buffer) \o Bytes(numbers) = (file \o stream) \o (buffer \o Bytes(numbers))
      BY <3>1, <3>2, Regroup, ZenonT(30)
    <3>5. (file \o stream) \o (buffer \o Bytes(numbers)) = file \o rest
      BY <1>1, <3>1, <3>2, Regroup, ZenonT(30)
    <3>6. Encoding = file \o rest
      BY <2>1, <3>4, <3>5
    <3>. HIDE DEF rest
    <3>. QED BY <1>1, <3>3, <3>6, PrefixHas
  <2>2. CASE writer = "destroyed"
    <3>1. file = Encoding /\ file \o << >> = file /\ << >> \in Seq(AllBytes)
      BY <1>1, <2>2, BytesJoin
    <3>2. IsPrefix(file, file \o << >>)
      BY <1>1, <3>1, PrefixHas
    <3>. QED BY <3>1, <3>2
  <2>3. CASE writer = "closed"
    BY <2>3
  <2>. QED BY <2>1, <2>2, <2>3 DEF WriterType
<1>. QED BY <1>1, <1>2, PrefixAgrees

LEMMA InitWrites == Init => WriterInv
<1>. SUFFICES ASSUME Init PROVE WriterInv
  OBVIOUS
<1>1. version \in Nat /\ size \in Nat /\ size >= 8
  BY VersionsAssumption, BufferAssumption DEF Init
<1>2. Header \in Seq(AllBytes)
  BY <1>1, HeaderHas DEF Header
<1>3. WriterType
  <2>1. written \in Seq(Objects) /\ numbers \in Seq(Nums) /\ stream \in Seq(AllBytes) /\ file \in Seq(AllBytes)
    BY DEF Init
  <2>. QED BY <1>1, <1>2, <2>1 DEF Init, WriterType
<1>4. Encoding = Header
  <2>1. Len(written) = 0 /\ 0 \in 0 .. Len(written)
    BY DEF Init
  <2>2. Laid(written, version, 0) = << >>
    BY <1>3, <2>1, LaidHas DEF WriterType
  <2>. QED BY <1>2, <1>3, <2>2, EncodingIs, BytesJoin
<1>5. file \o stream \o buffer \o Bytes(numbers) = Header
  <2>1. file = << >> /\ stream = << >> /\ buffer = Header /\ numbers = << >>
    BY DEF Init
  <2>2. Bytes(numbers) = << >>
    BY <2>1, BytesHas
  <2>3. file \o stream = << >>
    BY <2>1, BytesJoin
  <2>4. file \o stream \o buffer = Header
    BY <1>2, <2>1, <2>3, BytesJoin
  <2>. QED BY <1>2, <2>2, <2>4, BytesJoin
<1>. QED BY <1>3, <1>4, <1>5 DEF Init, WriterInv

LEMMA PutWrites ==
  ASSUME WriterInv, NEW o \in Objects, Put(o)
  PROVE  /\ WriterInv'
         /\ Encoding' = Encoding \o Bytes(ObjectNumbers(o, version))
<1>. USE DEF Put
<1>1. WriterType /\ file \o stream \o buffer \o Bytes(numbers) = Encoding /\ numbers = << >>
  BY DEF WriterInv
<1>2. numbers' \in Seq(Nums) /\ written' \in Seq(Objects)
  BY <1>1, ObjectNumbersHas DEF WriterType
<1>3. WriterType'
  BY <1>1, <1>2 DEF WriterType
<1>4. /\ Encoding = Header \o Laid(written, version, 0)
      /\ Laid(written, version, 0) \in Seq(AllBytes) /\ Header \in Seq(AllBytes) /\ Encoding \in Seq(AllBytes)
  BY <1>1, EncodingIs
<1>5. Encoding' = Header' \o Laid(written', version', 0)
  BY <1>3, LaidFromStart DEF Encoding, WriterType
<1>6. Header' = Header /\ version' = version /\ written' = Append(written, o)
  BY DEF Header
<1>7. Laid(written', version, 0) = Laid(written, version, 0) \o Bytes(ObjectNumbers(o, version))
  <2>1. 0 \in 0 .. Len(written)
    BY <1>1 DEF WriterType
  <2>2. written \in Seq(Objects)
    BY <1>1 DEF WriterType
  <2>3. \A z \in Objects :
          Laid(Append(written, z), version, 0) = Laid(written, version, 0) \o Bytes(ObjectNumbers(z, version))
    BY <2>1, <2>2, LaidHas
  <2>. QED BY <1>6, <2>3, ZenonT(30)
<1>8. Bytes(ObjectNumbers(o, version)) \in Seq(AllBytes)
  BY <1>2, BytesHas
<1>9. Encoding' = Encoding \o Bytes(ObjectNumbers(o, version))
  <2>1. Encoding' = Header \o (Laid(written, version, 0) \o Bytes(ObjectNumbers(o, version)))
    BY <1>5, <1>6, <1>7
  <2>. QED BY <1>4, <1>8, <2>1, Regroup, ZenonT(30)
<1>10. file \o stream \o buffer = Encoding
  <2>1. Bytes(numbers) = << >>
    BY <1>1, BytesHas
  <2>2. file \o stream \o buffer \in Seq(AllBytes)
    BY <1>1, BytesJoin DEF WriterType
  <2>. QED BY <1>1, <2>1, <2>2, BytesJoin
<1>11. file' \o stream' \o buffer' \o Bytes(numbers') = Encoding'
  BY <1>9, <1>10
<1>. QED BY <1>3, <1>9, <1>11 DEF WriterInv

(* The steps of the writer that move bytes leave what has been put.        *)
LEMMA EncodingStays == ASSUME version' = version, written' = written PROVE Encoding' = Encoding
BY DEF Encoding, Header

LEMMA WriteWrites == ASSUME WriterInv, Write PROVE WriterInv'
<1>. USE DEF Write
<1>. DEFINE x == Swapped(Head(numbers))
            y == Bytes(Tail(numbers))
            z == file \o stream
<1>1. WriterType /\ file \o stream \o buffer \o Bytes(numbers) = Encoding /\ numbers # << >>
  BY DEF WriterInv
<1>2. Head(numbers) \in Nums /\ numbers[1] = Head(numbers) /\ Tail(numbers) \in Seq(Nums)
  BY <1>1 DEF WriterType
<1>3. x \in Seq(AllBytes) /\ y \in Seq(AllBytes) /\ Bytes(numbers) = x \o y
  BY <1>1, <1>2, SwappedHas, BytesHas DEF WriterType
<1>4. file \in Seq(AllBytes) /\ stream \in Seq(AllBytes) /\ buffer \in Seq(AllBytes) /\ z \in Seq(AllBytes)
  BY <1>1, BytesJoin DEF WriterType
<1>5. /\ \/ stream' = stream \o buffer /\ buffer' = x
         \/ buffer' = buffer \o x /\ stream' = stream
      /\ numbers' = Tail(numbers) /\ file' = file /\ Bytes(numbers') = y
  OBVIOUS
<1>6. WriterType'
  <2>1. stream \o buffer \in Seq(AllBytes) /\ buffer \o x \in Seq(AllBytes)
    BY <1>3, <1>4, BytesJoin
  <2>2. stream' \in Seq(AllBytes) /\ buffer' \in Seq(AllBytes)
    BY <1>3, <1>4, <1>5, <2>1
  <2>3. numbers' \in Seq(Nums) /\ file' \in Seq(AllBytes)
    BY <1>2, <1>4, <1>5
  <2>. QED BY <1>1, <2>2, <2>3 DEF WriterType
<1>7. (z \o buffer) \o (x \o y) = Encoding
  BY <1>1, <1>3
<1>8. z \o buffer \in Seq(AllBytes) /\ x \o y \in Seq(AllBytes) /\ stream \o buffer \in Seq(AllBytes)
  BY <1>3, <1>4, BytesJoin
<1>. HIDE DEF x, y
<1>9. ((z \o buffer) \o x) \o y = Encoding
  <2>. DEFINE w == z \o buffer
  <2>1. w \in Seq(AllBytes) /\ w \o (x \o y) = Encoding
    BY <1>7, <1>8
  <2>. HIDE DEF w
  <2>2. (w \o x) \o y = w \o (x \o y)
    BY <1>3, <2>1, Regroup
  <2>3. (w \o x) \o y = Encoding
    BY <2>1, <2>2
  <2>. QED BY <2>3 DEF w
<1>10. (z \o (buffer \o x)) \o y = Encoding
  <2>1. (z \o buffer) \o x = z \o (buffer \o x)
    BY <1>3, <1>4, Regroup, ZenonT(30)
  <2>. QED BY <1>9, <2>1
<1>11. file \o (stream \o buffer) = z \o buffer
  BY <1>4, BytesJoin, SMTT(30)
<1>12. file' \o stream' \o buffer' \o Bytes(numbers') = Encoding
  <2>1. CASE stream' = stream \o buffer /\ buffer' = x
    BY <1>5, <1>9, <1>11, <2>1
  <2>2. CASE buffer' = buffer \o x /\ stream' = stream
    BY <1>5, <1>10, <2>2
  <2>. QED BY <1>5, <2>1, <2>2
<1>13. Encoding' = Encoding
  BY EncodingStays
<1>. QED BY <1>6, <1>12, <1>13 DEF WriterInv

LEMMA HandOver ==
  ASSUME WriterInv, writer = "open", numbers = << >>
  PROVE  (file \o stream) \o buffer = Encoding /\ file \o (stream \o buffer) = Encoding
         /\ file \o stream \in Seq(AllBytes) /\ stream \o buffer \in Seq(AllBytes)
<1>1. WriterType /\ file \o stream \o buffer \o Bytes(numbers) = Encoding
  BY DEF WriterInv
<1>2. Bytes(numbers) = << >>
  BY BytesHas
<1>3. file \in Seq(AllBytes) /\ stream \in Seq(AllBytes) /\ buffer \in Seq(AllBytes)
  BY <1>1 DEF WriterType
<1>4. file \o stream \in Seq(AllBytes) /\ stream \o buffer \in Seq(AllBytes)
  BY <1>3, BytesJoin
<1>5. (file \o stream) \o buffer \in Seq(AllBytes)
  BY <1>3, <1>4, BytesJoin
<1>6. (file \o stream) \o buffer = Encoding
  BY <1>1, <1>2, <1>5, BytesJoin
<1>7. (file \o stream) \o buffer = file \o (stream \o buffer)
  BY <1>3, Regroup
<1>. QED BY <1>4, <1>6, <1>7

LEMMA FlushWrites == ASSUME WriterInv, Flush PROVE WriterInv'
<1>. USE DEF Flush
<1>1. WriterType /\ file \o (stream \o buffer) = Encoding /\ stream \o buffer \in Seq(AllBytes) /\ numbers = << >>
  BY HandOver DEF WriterInv
<1>2. file \in Seq(AllBytes) /\ Bytes(numbers') = << >> /\ Encoding' = Encoding
  BY <1>1, EncodingStays, BytesHas DEF WriterType
<1>3. WriterType'
  BY <1>1, BytesJoin DEF WriterType
<1>4. file \o (stream \o buffer) \in Seq(AllBytes)
  BY <1>1, <1>2, BytesJoin
<1>5. file' \o stream' \o buffer' \o Bytes(numbers') = Encoding
  <2>. DEFINE z == file \o (stream \o buffer)
  <2>1. file' \o stream' = z /\ buffer' = << >>
    OBVIOUS
  <2>. HIDE DEF z
  <2>2. z \o << >> = z /\ z = Encoding /\ z \in Seq(AllBytes)
    BY <1>1, <1>4, BytesJoin DEF z
  <2>. QED BY <1>2, <2>1, <2>2
<1>. QED BY <1>2, <1>3, <1>5 DEF WriterInv

LEMMA CloseWrites == ASSUME WriterInv, Close PROVE WriterInv'
<1>. USE DEF Close
<1>1. WriterType /\ (file \o stream) \o buffer = Encoding /\ file \o stream \in Seq(AllBytes)
  BY HandOver DEF WriterInv
<1>2. Encoding' = Encoding
  BY EncodingStays
<1>3. WriterType'
  BY <1>1, BytesJoin DEF WriterType
<1>4. IsPrefix(file', Encoding)
  <2>. DEFINE z == file \o stream
  <2>1. file' = z /\ z \in Seq(AllBytes) /\ z \o buffer = Encoding /\ buffer \in Seq(AllBytes)
    BY <1>1 DEF WriterType
  <2>. HIDE DEF z
  <2>2. IsPrefix(z, z \o buffer)
    BY <2>1, PrefixHas
  <2>. QED BY <2>1, <2>2
<1>5. early' \/ file' = Encoding
  BY <1>1, BytesJoin
<1>. QED BY <1>2, <1>3, <1>4, <1>5 DEF WriterInv

LEMMA DestroyWrites == ASSUME WriterInv, Destroy PROVE WriterInv'
<1>. USE DEF Destroy
<1>1. WriterType /\ (file \o stream) \o buffer = Encoding
  BY HandOver DEF WriterInv
<1>2. Encoding' = Encoding
  BY EncodingStays
<1>3. file' = Encoding /\ Encoding \in Seq(AllBytes)
  BY <1>1, EncodingIs
<1>4. WriterType'
  BY <1>1, <1>3, BytesJoin DEF WriterType
<1>. QED BY <1>2, <1>3, <1>4 DEF WriterInv

LEMMA SpillWrites == ASSUME WriterInv, Spill PROVE WriterInv' /\ \E x \in Seq(AllBytes) : file' = file \o x
<1>. USE DEF Spill
<1>1. WriterType /\ writer = "open" /\ file \o stream \o buffer \o Bytes(numbers) = Encoding
  BY DEF WriterInv, WriterType
<1>2. PICK n \in 1 .. Len(stream) :
        file' = file \o SubSeq(stream, 1, n) /\ stream' = SubSeq(stream, n + 1, Len(stream))
  <2>1. Len(stream) \in Nat /\ Len(stream) # 0
    BY <1>1 DEF WriterType
  <2>2. PICK n \in (Pieces \intersect 1 .. Len(stream)) \union {Len(stream)} :
          file' = file \o SubSeq(stream, 1, n) /\ stream' = SubSeq(stream, n + 1, Len(stream))
    OBVIOUS
  <2>3. n \in 1 .. Len(stream)
    BY <2>1
  <2>. QED BY <2>2, <2>3
<1>. DEFINE x == SubSeq(stream, 1, n)
            y == SubSeq(stream, n + 1, Len(stream))
<1>3. x \in Seq(AllBytes) /\ y \in Seq(AllBytes) /\ x \o y = stream
  BY <1>1, SMTT(30) DEF WriterType
<1>. HIDE DEF x, y
<1>4. file' = file \o x /\ stream' = y
  BY <1>2 DEF x, y
<1>5. file \in Seq(AllBytes)
  BY <1>1 DEF WriterType
<1>6. (file \o x) \o y = file \o stream
  <2>1. (file \o x) \o y = file \o (x \o y)
    BY <1>3, <1>5, Regroup
  <2>. QED BY <1>3, <2>1
<1>7. WriterType'
  BY <1>1, <1>3, <1>4, <1>5, BytesJoin DEF WriterType
<1>8. file' \o stream' \o buffer' \o Bytes(numbers') = Encoding
  BY <1>1, <1>4, <1>6
<1>9. Encoding' = Encoding
  BY EncodingStays
<1>10. WriterInv'
  BY <1>1, <1>7, <1>8, <1>9 DEF WriterInv
<1>. QED BY <1>3, <1>4, <1>10

LEMMA WriterKeeps == ASSUME WriterInv, [Next]_vars PROVE WriterInv'
<1>1. ASSUME UNCHANGED << size, file, writerVars >> PROVE WriterInv'
  <2>1. Encoding' = Encoding
    BY <1>1, EncodingStays DEF writerVars
  <2>. QED BY <1>1, <2>1 DEF WriterInv, WriterType, writerVars
<1>2. CASE Writer
  BY <1>2, PutWrites, WriteWrites, FlushWrites, CloseWrites, DestroyWrites, SpillWrites DEF Writer
<1>3. CASE Reader
  <2>1. UNCHANGED << size, file, writerVars >>
    BY <1>3 DEF Reader, Open, Take, TakeNumber, TakeProperty, Taken
  <2>. QED BY <1>1, <2>1
<1>4. CASE UNCHANGED vars
  BY <1>1, <1>4 DEF vars
<1>. QED BY <1>2, <1>3, <1>4 DEF Next

(* No byte is lost, doubled or overtaken on its way from the program to    *)
(* the file, whatever the size of the buffer, the flushes, and the moments *)
(* at which the stream writes; only a close cuts the end.                  *)
THEOREM WriterTheorem == Spec => []NothingLost
<1>1. WriterInv => NothingLost
  BY DEF WriterInv, WriterType, NothingLost
<1>. QED BY <1>1, InitWrites, WriterKeeps, PTL DEF Spec

-----------------------------------------------------------------------------
(* The reader's buffer                                                     *)

(* What the reader has read of the file, less what is in its buffer.       *)
Consumed == at - Len(window)

(* The buffer holds the part of the file before the stream's position.     *)
WindowInv ==
  /\ at \in 0 .. Len(file) /\ window \in Seq(AllBytes) /\ Len(window) <= at
  /\ \A k \in 1 .. Len(window) : window[k] = file[Consumed + k]
  /\ eof \in BOOLEAN

(* The stream of a reader opened late has ended at the end of the file.    *)
StageInv ==
  /\ reader \in {"none", "open"} /\ failed \in BOOLEAN
  /\ reader = "none" =>
       at = 0 /\ ~ eof /\ ~ failed /\ ~ whole /\ window = << >> /\ taking = Nothing /\ got = << >>
  /\ whole => writer = "destroyed" /\ (eof => at = Len(file))

(* However the buffer is filled, it goes on where it was, and a read that  *)
(* succeeds has its bytes; one fails only where the file ends, or ended.   *)
LEMMA ReadHas ==
  ASSUME WriterInv, WindowInv, NEW n \in 1 .. 8
  PROVE  LET r == Read(n) IN
         /\ r.at \in 0 .. Len(file) /\ r.window \in Seq(AllBytes) /\ Len(r.window) <= r.at
         /\ r.at - Len(r.window) = Consumed
         /\ \A k \in 1 .. Len(r.window) : r.window[k] = file[Consumed + k]
         /\ r.eof \in BOOLEAN /\ r.ok \in BOOLEAN
         /\ r.ok => n <= Len(r.window)
         /\ (eof => at = Len(file)) =>
              (r.eof => r.at = Len(file)) /\ (n <= Len(file) - Consumed => r.ok)
<1>. USE DEF WindowInv, Consumed
<1>0. size \in Nat /\ size >= 8 /\ file \in Seq(AllBytes) /\ Len(file) \in Nat /\ Len(window) \in Nat /\ at \in Nat
  BY DEF WriterInv, WriterType
<1>1. CASE Len(window) >= n
  <2>1. Read(n) = [window |-> window, at |-> at, eof |-> eof, ok |-> TRUE]
    BY <1>1 DEF Read
  <2>. QED BY <1>0, <1>1, <2>1
<1>2. CASE ~ (Len(window) >= n) /\ eof
  <2>1. Read(n) = [window |-> window, at |-> at, eof |-> eof, ok |-> FALSE]
    BY <1>2 DEF Read
  <2>. QED BY <1>0, <1>2, <2>1
<1>3. CASE ~ (Len(window) >= n) /\ ~ eof
  <2>. DEFINE m == Least(size - Len(window), Len(file) - at)
              more == SubSeq(file, at + 1, at + m)
              w == window \o more
  <2>1. /\ m \in Nat /\ m <= size - Len(window) /\ m <= Len(file) - at
        /\ m = size - Len(window) \/ m = Len(file) - at
        /\ m < size - Len(window) => m = Len(file) - at
    BY <1>0, <1>3 DEF Least
  <2>2. Read(n) = [window |-> w, at |-> at + m, eof |-> m < size - Len(window), ok |-> m > 0 /\ Len(w) >= n]
    BY <1>3 DEF Read, Filled
  <2>. HIDE DEF m
  <2>3. more \in Seq(AllBytes) /\ Len(more) = m /\ \A k \in 1 .. m : more[k] = file[at + k]
    <3>1. at \in Nat /\ at + m <= Len(file) /\ m \in Nat /\ file \in Seq(AllBytes)
      BY <1>0, <2>1
    <3>2. /\ SubSeq(file, at + 1, at + m) \in Seq(AllBytes) /\ Len(SubSeq(file, at + 1, at + m)) = m
          /\ \A k \in 1 .. m : SubSeq(file, at + 1, at + m)[k] = file[at + k]
      BY <3>1, PartHas, SMTT(30)
    <3>. QED BY <3>2, Zenon
  <2>. HIDE DEF more
  <2>4. w \in Seq(AllBytes) /\ Len(w) = Len(window) + m
        /\ \A k \in 1 .. Len(window) + m : w[k] = IF k <= Len(window) THEN window[k] ELSE more[k - Len(window)]
    <3>1. window \in Seq(AllBytes)
      OBVIOUS
    <3>2. /\ window \o more \in Seq(AllBytes) /\ Len(window \o more) = Len(window) + Len(more)
          /\ \A k \in 1 .. Len(window) + Len(more) :
               (window \o more)[k] = IF k <= Len(window) THEN window[k] ELSE more[k - Len(window)]
      BY <2>3, <3>1, JoinHas
    <3>. QED BY <2>3, <3>2
  <2>. HIDE DEF w
  <2>5. \A k \in 1 .. Len(w) : w[k] = file[Consumed + k]
    <3>. SUFFICES ASSUME NEW k \in 1 .. Len(w) PROVE w[k] = file[Consumed + k]
      OBVIOUS
    <3>1. CASE k <= Len(window)
      BY <1>0, <2>1, <2>4, <3>1
    <3>2. CASE ~ (k <= Len(window))
      <4>1. k - Len(window) \in 1 .. m /\ at + (k - Len(window)) = Consumed + k
        BY <1>0, <2>1, <2>4, <3>2
      <4>2. w[k] = more[k - Len(window)]
        BY <2>4, <3>2
      <4>. QED BY <2>3, <4>1, <4>2
    <3>. QED BY <3>1, <3>2
  <2>6. at + m \in 0 .. Len(file) /\ Len(w) <= at + m /\ (at + m) - Len(w) = Consumed
    BY <1>0, <2>1, <2>4, SMTT(30)
  <2>7. n <= Len(file) - Consumed => m > 0 /\ Len(w) >= n
    BY <1>0, <1>3, <2>1, <2>4
  <2>8. m < size - Len(window) => at + m = Len(file)
    BY <1>0, <2>1
  <2>. DEFINE r == Read(n)
  <2>9. r.window = w /\ r.at = at + m /\ r.eof = (m < size - Len(window)) /\ r.ok = (m > 0 /\ Len(w) >= n)
    BY <2>2
  <2>. HIDE DEF r, WindowInv, Consumed
  <2>10. r.ok => n <= Len(w)
    BY <1>0, <2>1, <2>4, <2>9
  <2>11. r.eof => r.at = Len(file)
    BY <2>8, <2>9
  <2>12. n <= Len(file) - Consumed => r.ok
    BY <2>7, <2>9
  <2>13. r.eof \in BOOLEAN /\ r.ok \in BOOLEAN
    BY <2>9
  <2>14. r.at \in 0 .. Len(file) /\ r.window \in Seq(AllBytes) /\ Len(r.window) <= r.at /\ r.at - Len(r.window) = Consumed
    BY <2>4, <2>6, <2>9
  <2>15. \A k \in 1 .. Len(r.window) : r.window[k] = file[Consumed + k]
    BY <2>5, <2>9
  <2>. QED BY <2>9, <2>10, <2>11, <2>12, <2>13, <2>14, <2>15 DEF r
<1>. QED BY <1>1, <1>2, <1>3

(* A step that reads n bytes: the buffer is still part of the file, and n  *)
(* more are consumed unless the read fails.                                *)
ReadStep(n) ==
  /\ Keep(Read(n))
  /\ window' = IF Read(n).ok THEN SubSeq(Read(n).window, n + 1, Len(Read(n).window)) ELSE Read(n).window
  /\ UNCHANGED << size, file, writerVars >>

LEMMA ReadSteps ==
  ASSUME WriterInv, WindowInv, NEW n \in 1 .. 8, ReadStep(n)
  PROVE  /\ WindowInv'
         /\ Consumed' = Consumed + (IF Read(n).ok THEN n ELSE 0)
<1>. DEFINE r == Read(n)
            w == r.window
<1>1. /\ r.at \in 0 .. Len(file) /\ w \in Seq(AllBytes) /\ Len(w) <= r.at
      /\ r.at - Len(w) = Consumed
      /\ \A k \in 1 .. Len(w) : w[k] = file[Consumed + k]
      /\ r.eof \in BOOLEAN /\ r.ok \in BOOLEAN
      /\ r.ok => n <= Len(w)
  BY ReadHas
<1>2. at' = r.at /\ eof' = r.eof /\ file' = file /\ window' = IF r.ok THEN After(w, n) ELSE w
  BY DEF ReadStep, Keep, After
<1>. HIDE DEF r, w
<1>3. Len(w) \in Nat /\ Consumed \in Int
  BY <1>1
<1>4. CASE ~ r.ok
  <2>1. window' = w /\ Consumed' = Consumed
    BY <1>1, <1>2, <1>4 DEF Consumed
  <2>2. WindowInv'
    BY <1>1, <1>2, <2>1 DEF WindowInv
  <2>. QED BY <1>3, <1>4, <2>1, <2>2 DEF r
<1>5. CASE r.ok
  <2>1. n \in 0 .. Len(w)
    BY <1>1, <1>3, <1>5
  <2>2. /\ window' \in Seq(AllBytes) /\ Len(window') = Len(w) - n
        /\ \A k \in 1 .. Len(w) - n : window'[k] = w[n + k]
    BY <1>1, <1>2, <1>5, <2>1, AfterHas
  <2>3. Consumed' = Consumed + n
    BY <1>1, <1>2, <1>3, <2>2 DEF Consumed
  <2>4. \A k \in 1 .. Len(window') : window'[k] = file[Consumed' + k]
    <3>. SUFFICES ASSUME NEW k \in 1 .. Len(w) - n PROVE w[n + k] = file[(Consumed + n) + k]
      BY <2>2, <2>3
    <3>1. n + k \in 1 .. Len(w) /\ Consumed + (n + k) = (Consumed + n) + k
      BY <1>3, <2>1
    <3>. QED BY <1>1, <3>1
  <2>5. Len(window') <= at'
    BY <1>1, <1>2, <1>3, <2>1, <2>2
  <2>6. WindowInv'
    BY <1>1, <1>2, <2>2, <2>4, <2>5 DEF WindowInv
  <2>. QED BY <1>5, <2>3, <2>6 DEF r
<1>. QED BY <1>1, <1>4, <1>5

(* The writer only appends to the file, and not once it is gone.           *)
LEMMA FileGrows ==
  ASSUME WriterInv, Writer
  PROVE  /\ \E x \in Seq(AllBytes) : file' = file \o x
         /\ writer # "destroyed"
<1>1. WriterType /\ file \in Seq(AllBytes) /\ stream \in Seq(AllBytes) /\ buffer \in Seq(AllBytes)
  BY DEF WriterInv, WriterType
<1>2. writer # "destroyed"
  BY DEF WriterInv, Writer, Put, Write, Flush, Close, Destroy, Spill
<1>3. ASSUME file' = file PROVE \E x \in Seq(AllBytes) : file' = file \o x
  <2>1. file \o << >> = file /\ << >> \in Seq(AllBytes)
    BY <1>1, BytesJoin
  <2>. QED BY <1>3, <2>1
<1>4. CASE (\E o \in Objects : Put(o)) \/ Write \/ Flush
  BY <1>2, <1>3, <1>4 DEF Put, Write, Flush
<1>5. CASE Close
  BY <1>1, <1>2, <1>5 DEF Close
<1>6. CASE Destroy
  <2>1. (file \o stream) \o buffer = file \o (stream \o buffer) /\ stream \o buffer \in Seq(AllBytes)
    BY <1>1, Regroup, BytesJoin
  <2>2. file' = file \o (stream \o buffer)
    BY <1>6, <2>1 DEF Destroy
  <2>. QED BY <1>2, <2>1, <2>2
<1>7. CASE Spill
  BY <1>2, <1>7, SpillWrites
<1>. QED BY <1>4, <1>5, <1>6, <1>7 DEF Writer

LEMMA WriterLeavesWindow ==
  ASSUME WriterInv, WindowInv, StageInv, Writer
  PROVE  WindowInv' /\ StageInv' /\ Consumed' = Consumed
<1>1. UNCHANGED readerVars
  BY DEF Writer, Put, Write, Flush, Close, Destroy, Spill
<1>2. PICK x \in Seq(AllBytes) : file' = file \o x
  BY FileGrows
<1>3. writer # "destroyed"
  BY FileGrows
<1>4. file \in Seq(AllBytes)
  BY DEF WriterInv, WriterType
<1>5. Len(file) \in Nat /\ Len(file) <= Len(file') /\ Len(file') \in Nat /\ \A k \in 1 .. Len(file) : file'[k] = file[k]
  BY <1>2, <1>4
<1>6. Consumed' = Consumed
  BY <1>1 DEF Consumed, readerVars
<1>7. ASSUME NEW k \in 1 .. Len(window) PROVE window[k] = file'[Consumed + k]
  <2>1. Consumed + k \in 1 .. Len(file)
    BY <1>5 DEF WindowInv, Consumed
  <2>. QED BY <1>5, <2>1 DEF WindowInv
<1>8. WindowInv'
  BY <1>1, <1>5, <1>6, <1>7 DEF WindowInv, readerVars
<1>9. StageInv'
  BY <1>1, <1>3 DEF StageInv, readerVars
<1>. QED BY <1>6, <1>8, <1>9

-----------------------------------------------------------------------------
(* An object that is being read                                            *)

(* What a member's value comes back as.                                    *)
AsPut(m, items) == IF Field(m).shape = "enum" THEN << items[1] % 256 >> ELSE items

Images(o) == [class : {o.class}, members : [ToSet(Aggregate[o.class]) -> Seq(Nat)]]

(* x is read as o, but for the properties in infos: every member is as     *)
(* put, or as in a new object, which the other properties are not.         *)
Restoring(x, o, infos, ver) ==
  /\ x \in Images(o)
  /\ \A m \in ToSet(Aggregate[o.class]) : x.members[m] \in {Field(m).blank, AsPut(m, o.members[m])}
  /\ \A p \in ToSet(Properties(o.class, ver)) \ ToSet(infos) :
       LET m == FindType(o.class, p.name) IN x.members[m] = AsPut(m, o.members[m])

(* The member at hand, and the numbers its value was written as.           *)
MemberOf(t) == Target(t.into[1], t.infos)

ValueOf(t, o) == Numbers(Field(MemberOf(t)), o.members[MemberOf(t)])

(* The reader is inside a value: it has the first of its numbers, and      *)
(* wants as many as are left, or, of a container, the count.               *)
Inside(t, o) ==
  /\ t.items \in Seq(Nat)
  /\ Len(t.items) <= Len(ValueOf(t, o))
  /\ \A k \in 1 .. Len(t.items) : t.items[k] = ValueOf(t, o)[k].value
  /\ t.wanted =
       IF Container(MemberOf(t)) /\ t.items = << >>
       THEN << 8 >>
       ELSE [k \in 1 .. Len(ValueOf(t, o)) - Len(t.items) |-> ValueOf(t, o)[Len(t.items) + k].size]

(* The numbers of the object that are still to be read.                    *)
Left(t, o) ==
  IF t.infos = << >> THEN << >>
  ELSE After(ValueOf(t, o), Len(t.items)) \o InfosNumbers(o, Tail(t.infos))

Taking(t, o, ver) ==
  /\ t = [into |-> << t.into[1] >>, infos |-> t.infos, wanted |-> t.wanted, items |-> t.items]
  /\ Restoring(t.into[1], o, t.infos, ver)
  /\ t.infos \in Seq(ToSet(Properties(o.class, ver)))
  /\ IF t.infos = << >> THEN t.wanted = << >> ELSE Inside(t, o)

LEMMA HeadHas ==
  ASSUME NEW S, NEW q \in Seq(S), q # << >>
  PROVE  /\ Head(q) = q[1] /\ Head(q) \in S
         /\ Tail(q) \in Seq(S) /\ Len(Tail(q)) = Len(q) - 1 /\ Len(q) \in Nat \ {0}
         /\ \A k \in 1 .. Len(q) - 1 : Tail(q)[k] = q[k + 1]
OBVIOUS

LEMMA AsPutHas ==
  ASSUME NEW o \in Objects, NEW m \in ToSet(Aggregate[o.class])
  PROVE  AsPut(m, o.members[m]) \in Seq(Nat)
<1>1. o.members[m] \in Seq(Nat) /\ (Field(m).shape = "enum" => Len(o.members[m]) = 1)
  BY ObjectHas
<1>2. CASE Field(m).shape = "enum"
  <2>1. o.members[m][1] \in Nat
    BY <1>1, <1>2
  <2>2. o.members[m][1] % 256 \in Nat
    BY <2>1
  <2>3. << o.members[m][1] % 256 >> \in Seq(Nat)
    BY <2>2
  <2>. QED BY <1>2, <2>3 DEF AsPut
<1>. QED BY <1>1, <1>2 DEF AsPut

LEMMA MemberHas ==
  ASSUME NEW o \in Objects, NEW ver, NEW t, Taking(t, o, ver), t.infos # << >>
  PROVE  /\ MemberOf(t) \in ToSet(Aggregate[o.class]) /\ MemberOf(t) = Target(o, t.infos)
         /\ MemberOf(t) \in AllMembers
         /\ Head(t.infos) \in ToSet(Properties(o.class, ver))
         /\ MemberOf(t) = FindType(o.class, Head(t.infos).name)
         /\ Tail(t.infos) \in Seq(ToSet(Properties(o.class, ver)))
         /\ ValueOf(t, o) \in Seq(Nums)
<1>1. t.into[1].class = o.class /\ t.infos \in Seq(ToSet(Properties(o.class, ver)))
  BY DEF Taking, Restoring, Images
<1>2. MemberOf(t) = FindType(o.class, Head(t.infos).name) /\ MemberOf(t) = Target(o, t.infos)
  BY <1>1 DEF MemberOf, Target
<1>3. Head(t.infos) \in ToSet(Properties(o.class, ver)) /\ Tail(t.infos) \in Seq(ToSet(Properties(o.class, ver)))
  BY <1>1, HeadHas
<1>4. MemberOf(t) \in ToSet(Aggregate[o.class])
  BY <1>1, <1>2, InfosNumbersHas
<1>. QED BY <1>2, <1>3, <1>4, ObjectHas, ValueHas DEF ValueOf

(* A property that is begun: all its numbers are to be read.               *)
LEMMA ReadingBegins ==
  ASSUME NEW o \in Objects, NEW ver, NEW infos \in Seq(ToSet(Properties(o.class, ver))),
         NEW x, Restoring(x, o, infos, ver)
  PROVE  LET t == Reading(x, infos) IN
         Taking(t, o, ver) /\ t # Nothing /\ Left(t, o) = InfosNumbers(o, infos)
<1>. DEFINE t == Reading(x, infos)
            m == MemberOf(t)
            v == o.members[m]
            ns == ValueOf(t, o)
<1>1. /\ t.into = << x >> /\ t.into[1] = x /\ t.infos = infos /\ t.items = << >>
      /\ t.wanted = IF infos = << >> THEN << >> ELSE Wanted(m)
      /\ t = [into |-> << x >>, infos |-> infos, wanted |-> t.wanted, items |-> << >>]
  BY DEF Reading, MemberOf
<1>2. t # Nothing
  <2>1. Nothing.into = << >> /\ << x >> # << >>
    BY DEF Nothing
  <2>. QED BY <1>1, <2>1
<1>. HIDE DEF t
<1>3. CASE infos = << >>
  BY <1>1, <1>2, <1>3, InfosNumbersHas DEF Taking, Left, t
<1>4. CASE infos # << >>
  <2>1. x.class = o.class
    BY DEF Restoring, Images
  <2>2. m = Target(o, infos)
    BY <1>1, <2>1 DEF MemberOf, Target
  <2>3. /\ m \in ToSet(Aggregate[o.class]) /\ InfosNumbers(o, infos) = ns \o InfosNumbers(o, Tail(infos))
    BY <1>4, <2>2, InfosNumbersHas DEF ValueOf
  <2>. HIDE DEF m
  <2>4. /\ m \in AllMembers /\ v \in Seq(Nat)
        /\ Field(m).shape = "enum" => Len(v) = 1
        /\ Field(m).shape = "fixed" => Len(v) = Len(Field(m).blank)
    BY <2>3, ObjectHas
  <2>5. /\ ns \in Seq(Nums)
        /\ Field(m).shape = "fixed" =>
             Len(ns) = Len(v) /\ \A k \in 1 .. Len(v) : ns[k] = Number(v[k], Field(m).size)
        /\ Field(m).shape = "enum" => Len(ns) = 1 /\ ns[1] = Number(v[1] % 256, 1)
    <3>1. AreNumbers(m, v, ns)
      BY <2>4, NumbersHas DEF ValueOf, m
    <3>. HIDE DEF ns, v
    <3>. QED BY <3>1 DEF AreNumbers
  <2>6. Len(<< >>) = 0 /\ << >> \in Seq(Nat) /\ Len(ns) \in Nat /\ Len(ns) - 0 = Len(ns) /\ \A k \in 1 .. Len(ns) : 0 + k = k
    BY <2>5
  <2>. HIDE DEF ns, v
  <2>7. Wanted(m) = IF Container(m) THEN << 8 >> ELSE [k \in 1 .. Len(ns) - 0 |-> ns[0 + k].size]
    <3>1. Field(m).shape \in Shapes
      BY <2>4, FieldHas
    <3>2. CASE Field(m).shape = "fixed"
      <4>1. Wanted(m) = [k \in 1 .. Len(Field(m).blank) |-> Field(m).size]
        BY <3>2 DEF Wanted
      <4>2. \A k \in 1 .. Len(ns) : ns[0 + k].size = Field(m).size
        <5>1. \A k \in 1 .. Len(ns) : ns[k] = Number(v[k], Field(m).size)
          BY <2>5, <3>2
        <5>2. \A a, b : Number(a, b).size = b
          BY DEF Number
        <5>3. \A k \in 1 .. Len(ns) : ns[k].size = Field(m).size
          BY <5>1, <5>2
        <5>. QED BY <2>6, <5>3
      <4>3. Len(Field(m).blank) = Len(ns) - 0
        BY <2>4, <2>5, <2>6, <3>2
      <4>. QED BY <2>6, <3>2, <4>1, <4>2, <4>3 DEF Container
    <3>3. CASE Field(m).shape = "enum"
      <4>1. Wanted(m) = << 1 >>
        BY <3>3 DEF Wanted
      <4>2. Len(ns) = 1 /\ ns[1].size = 1
        BY <2>5, <3>3 DEF Number
      <4>3. [k \in 1 .. Len(ns) - 0 |-> ns[0 + k].size] = [k \in 1 .. 1 |-> 1]
        BY <4>2
      <4>4. << 1 >> = [k \in 1 .. 1 |-> 1]
        OBVIOUS
      <4>. QED BY <3>3, <4>1, <4>3, <4>4 DEF Container
    <3>4. CASE Container(m)
      BY <3>4 DEF Wanted, Container
    <3>. QED BY <3>1, <3>2, <3>3, <3>4 DEF Shapes, Container
  <2>8. Inside(t, o)
    BY <1>1, <1>4, <2>6, <2>7 DEF Inside, m, ns
  <2>9. Taking(t, o, ver)
    BY <1>1, <1>4, <2>8 DEF Taking
  <2>10. After(ns, 0) = ns
    BY <2>5, AfterEnds
  <2>11. Left(t, o) = ns \o InfosNumbers(o, Tail(infos))
    BY <1>1, <1>4, <2>6, <2>10 DEF Left, ns
  <2>. QED BY <1>2, <2>3, <2>9, <2>11 DEF t
<1>. QED BY <1>3, <1>4 DEF t

(* TakeNumber with the number x.                                           *)
NextOf(t, x) ==
  IF Container(MemberOf(t)) /\ t.wanted = << 8 >> /\ t.items = << >>
  THEN [t EXCEPT !.wanted = [k \in 1 .. x |-> Field(MemberOf(t)).size], !.items = << x >>]
  ELSE [t EXCEPT !.wanted = Tail(@), !.items = Append(@, x)]

(* The number that is wanted is the next of the value, and when that is    *)
(* what is read, the others are still to be read.                          *)
LEMMA NumberFollows ==
  ASSUME NEW o \in Objects, NEW ver, NEW t, Taking(t, o, ver), t.infos # << >>, t.wanted # << >>
  PROVE  LET x == ValueOf(t, o)[Len(t.items) + 1]
             u == NextOf(t, x.value) IN
         /\ x \in Nums /\ Head(t.wanted) = x.size
         /\ Taking(u, o, ver) /\ u # Nothing
         /\ Left(u, o) \in Seq(Nums)
         /\ Left(t, o) = << x >> \o Left(u, o)
<1>. DEFINE ns == ValueOf(t, o)
            n == Len(t.items)
            x == ns[n + 1]
            u == NextOf(t, x.value)
            m == MemberOf(t)
            v == o.members[m]
<1>1. /\ t = [into |-> << t.into[1] >>, infos |-> t.infos, wanted |-> t.wanted, items |-> t.items]
      /\ t.items \in Seq(Nat) /\ n <= Len(ns) /\ ns \in Seq(Nums)
      /\ \A k \in 1 .. n : t.items[k] = ns[k].value
      /\ t.wanted = IF Container(m) /\ t.items = << >> THEN << 8 >>
                    ELSE [k \in 1 .. Len(ns) - n |-> ns[n + k].size]
      /\ m \in AllMembers /\ m \in ToSet(Aggregate[o.class])
      /\ Tail(t.infos) \in Seq(ToSet(Properties(o.class, ver)))
  BY MemberHas DEF Taking, Inside
<1>2. /\ v \in Seq(Nat)
      /\ Container(m) => Len(ns) = Len(v) + 1 /\ ns[1] = Number(Len(v), 8)
                         /\ \A k \in 1 .. Len(v) : ns[k + 1].size = Field(m).size
  <2>1. v \in Seq(Nat) /\ (Field(m).shape = "enum" => Len(v) = 1)
    BY <1>1, ObjectHas
  <2>2. ns = Numbers(Field(m), v)
    BY DEF ValueOf
  <2>. HIDE DEF ns, v, m
  <2>3. Container(m) => Len(ns) = Len(v) + 1 /\ ns[1] = Number(Len(v), 8)
          /\ \A k \in 1 .. Len(v) :
               ns[k + 1] = Number(IF Field(m).shape = "list" THEN v[k] ELSE v[(Len(v) - k) + 1], Field(m).size)
    <3>1. AreNumbers(m, v, ns)
      BY <1>1, <2>1, <2>2, NumbersHas
    <3>. QED BY <3>1 DEF AreNumbers
  <2>4. \A a, b : Number(a, b).size = b
    BY DEF Number
  <2>. QED BY <2>1, <2>3, <2>4
<1>3. n \in Nat /\ Len(ns) \in Nat /\ Len(v) \in Nat
  BY <1>1, <1>2
<1>. HIDE DEF ns, n, m, v
<1>4. n < Len(ns) /\ Head(t.wanted) = x.size
  <2>1. CASE Container(m) /\ t.items = << >>
    <3>1. n = 0 /\ t.wanted = << 8 >>
      BY <1>1, <2>1 DEF n
    <3>2. x = Number(Len(v), 8) /\ Len(ns) > 0
      BY <1>2, <1>3, <2>1, <3>1
    <3>. QED BY <3>1, <3>2 DEF Number
  <2>2. CASE ~ (Container(m) /\ t.items = << >>)
    <3>1. t.wanted = [k \in 1 .. Len(ns) - n |-> ns[n + k].size]
      BY <1>1, <2>2
    <3>2. Len(ns) - n # 0
      BY <3>1
    <3>3. Len(ns) - n \in Nat \ {0} /\ 1 \in 1 .. Len(ns) - n
      BY <1>1, <1>3, <3>2
    <3>4. Head(t.wanted) = t.wanted[1]
      <4>. DEFINE l == Len(ns) - n
                  g == [k \in 1 .. l |-> ns[n + k].size]
      <4>1. Head(g) = g[1]
        <5>1. l \in Nat \ {0}
          BY <3>3
        <5>. HIDE DEF l
        <5>2. Len(g) = l
          BY <5>1
        <5>. QED BY <5>1, <5>2 DEF Head
      <4>. QED BY <3>1, <4>1
    <3>. QED BY <1>3, <3>1, <3>3, <3>4
  <2>. QED BY <2>1, <2>2
<1>5. x \in Nums /\ x.value \in Nat
  <2>1. n + 1 \in 1 .. Len(ns)
    BY <1>3, <1>4
  <2>2. x \in Nums
    BY <1>1, <2>1
  <2>. QED BY <2>2 DEF Nums
<1>. HIDE DEF x
<1>6. /\ u.into = t.into /\ u.infos = t.infos
      /\ u = [into |-> t.into, infos |-> t.infos, wanted |-> u.wanted, items |-> u.items]
      /\ u.items = Append(t.items, x.value)
      /\ u.wanted = [k \in 1 .. Len(ns) - (n + 1) |-> ns[(n + 1) + k].size]
  <2>1. CASE Container(m) /\ t.items = << >>
    <3>1. n = 0 /\ t.wanted = << 8 >>
      BY <1>1, <2>1 DEF n
    <3>2. u = [t EXCEPT !.wanted = [k \in 1 .. x.value |-> Field(m).size], !.items = << x.value >>]
      BY <2>1, <3>1 DEF NextOf, m
    <3>3. x.value = Len(v) /\ Len(ns) - (n + 1) = Len(v)
      BY <1>2, <1>3, <2>1, <3>1 DEF x, Number
    <3>4. \A k \in 1 .. Len(v) : ns[(n + 1) + k].size = Field(m).size
      <4>1. \A k \in 1 .. Len(v) : (n + 1) + k = k + 1
        BY <1>3, <3>1
      <4>. QED BY <1>2, <2>1, <4>1
    <3>5. u = [into |-> t.into, infos |-> t.infos, wanted |-> [k \in 1 .. Len(v) |-> Field(m).size], items |-> << x.value >>]
      BY <1>1, <3>2, <3>3
    <3>. HIDE DEF u
    <3>6. [k \in 1 .. Len(v) |-> Field(m).size] = [k \in 1 .. Len(ns) - (n + 1) |-> ns[(n + 1) + k].size]
      BY <3>3, <3>4
    <3>7. << x.value >> = Append(t.items, x.value)
      BY <2>1
    <3>. QED BY <3>5, <3>6, <3>7
  <2>2. CASE ~ (Container(m) /\ t.items = << >>)
    <3>1. t.wanted = [k \in 1 .. Len(ns) - n |-> ns[n + k].size]
      BY <1>1, <2>2
    <3>2. u = [t EXCEPT !.wanted = Tail(t.wanted), !.items = Append(t.items, x.value)]
      <4>1. ~ (Container(m) /\ t.wanted = << 8 >> /\ t.items = << >>)
        BY <2>2
      <4>. QED BY <4>1 DEF NextOf, m
    <3>3. u = [into |-> t.into, infos |-> t.infos, wanted |-> Tail(t.wanted), items |-> Append(t.items, x.value)]
      BY <1>1, <3>2
    <3>. HIDE DEF u
    <3>4. Tail(t.wanted) = [k \in 1 .. Len(ns) - (n + 1) |-> ns[(n + 1) + k].size]
      <4>. DEFINE w == t.wanted
                  l == Len(ns) - n
                  g == [k \in 1 .. Len(ns) - (n + 1) |-> ns[(n + 1) + k].size]
      <4>1. l \in Nat \ {0} /\ Len(ns) - (n + 1) = l - 1
        BY <1>3, <1>4
      <4>2. \A k \in 1 .. l : ns[n + k].size \in Sizes
        <5>1. \A k \in 1 .. l : n + k \in 1 .. Len(ns)
          BY <1>3
        <5>2. \A z \in Nums : z.size \in Sizes
          BY DEF Nums
        <5>. QED BY <1>1, <5>1, <5>2
      <4>3. w = [k \in 1 .. l |-> ns[n + k].size] /\ g = [k \in 1 .. l - 1 |-> ns[(n + 1) + k].size]
        BY <3>1, <4>1
      <4>. HIDE DEF w, g, l
      <4>4. \A k \in 1 .. l - 1 : (n + 1) + k = n + (k + 1) /\ k + 1 \in 1 .. l
        BY <1>3, <4>1
      <4>5. w \in Seq(Sizes) /\ Len(w) = l /\ \A k \in 1 .. l : w[k] = ns[n + k].size
        BY <4>1, <4>2, <4>3
      <4>6. l - 1 \in Nat /\ \A k \in 1 .. l - 1 : ns[(n + 1) + k].size \in Sizes
        BY <4>1, <4>2, <4>4
      <4>10. g \in Seq(Sizes) /\ Len(g) = l - 1 /\ \A k \in 1 .. l - 1 : g[k] = ns[n + (k + 1)].size
        BY <4>3, <4>4, <4>6, SMTT(30)
      <4>9. w # << >>
        BY <4>1, <4>5
      <4>11. Tail(w) \in Seq(Sizes) /\ Len(Tail(w)) = l - 1 /\ \A k \in 1 .. l - 1 : Tail(w)[k] = w[k + 1]
        BY <4>5, <4>9, HeadHas
      <4>7. \A k \in 1 .. l - 1 : Tail(w)[k] = g[k]
        BY <4>4, <4>5, <4>10, <4>11
      <4>8. Tail(w) = g
        BY <4>7, <4>10, <4>11, SameSequence
      <4>. QED BY <4>8 DEF w, g
    <3>. QED BY <3>3, <3>4
  <2>. QED BY <2>1, <2>2
<1>. HIDE DEF u
<1>7. MemberOf(u) = m /\ ValueOf(u, o) = ns
  BY <1>6 DEF MemberOf, ValueOf, m, ns
<1>8. u.items \in Seq(Nat) /\ Len(u.items) = n + 1 /\ u.items # << >>
      /\ \A k \in 1 .. n + 1 : u.items[k] = ns[k].value
  <2>. DEFINE q == u.items
  <2>1. q \in Seq(Nat) /\ Len(q) = n + 1 /\ q[n + 1] = x.value /\ \A k \in 1 .. n : q[k] = t.items[k]
    BY <1>1, <1>5, <1>6 DEF n
  <2>. HIDE DEF q
  <2>2. \A k \in 1 .. n + 1 : k \in 1 .. n \/ k = n + 1
    BY <1>3
  <2>3. n + 1 # 0
    BY <1>3
  <2>4. q # << >>
    BY <2>1, <2>3
  <2>5. x.value = ns[n + 1].value
    BY DEF x
  <2>6. \A k \in 1 .. n + 1 : q[k] = ns[k].value
    BY <1>1, <2>1, <2>2, <2>5
  <2>. QED BY <2>1, <2>4, <2>6 DEF q
<1>9. Inside(u, o)
  BY <1>3, <1>4, <1>6, <1>7, <1>8, SMTT(30) DEF Inside
<1>10. u.into = << u.into[1] >> /\ u.into[1] = t.into[1]
  BY <1>1, <1>6
<1>11. Taking(u, o, ver)
  BY <1>6, <1>9, <1>10 DEF Taking
<1>12. u # Nothing
  BY <1>8 DEF Nothing
<1>13. After(ns, n) = << x >> \o After(ns, n + 1) /\ After(ns, n + 1) \in Seq(Nums)
  <2>1. n \in 0 .. Len(ns) /\ n + 1 \in 0 .. Len(ns)
    BY <1>3, <1>4
  <2>. QED BY <1>1, <1>4, <2>1, AfterOne, AfterHas DEF x
<1>. DEFINE rest == InfosNumbers(o, Tail(t.infos))
<1>14. rest \in Seq(Nums)
  BY <1>1, InfosNumbersHas
<1>15. Left(t, o) = After(ns, n) \o rest /\ Left(u, o) = After(ns, n + 1) \o rest
  BY <1>6, <1>7, <1>8 DEF Left, ns, n
<1>. HIDE DEF rest
<1>16. Left(u, o) \in Seq(Nums)
  BY <1>13, <1>14, <1>15
<1>17. Left(t, o) = << x >> \o Left(u, o)
  <2>1. << x >> \in Seq(Nums)
    BY <1>5
  <2>. QED BY <1>13, <1>14, <1>15, <2>1, Associates
<1>. QED BY <1>4, <1>5, <1>11, <1>12, <1>16, <1>17 DEF u, x, n, ns

LEMMA LeftHas ==
  ASSUME NEW o \in Objects, NEW ver, NEW t, Taking(t, o, ver)
  PROVE  Left(t, o) \in Seq(Nums)
<1>1. CASE t.infos = << >>
  BY <1>1 DEF Left
<1>2. CASE t.infos # << >>
  <2>. DEFINE ns == ValueOf(t, o)
              n == Len(t.items)
              rest == InfosNumbers(o, Tail(t.infos))
  <2>1. ns \in Seq(Nums) /\ Tail(t.infos) \in Seq(ToSet(Properties(o.class, ver)))
    BY <1>2, MemberHas
  <2>2. n \in 0 .. Len(ns)
    BY <1>2, <2>1 DEF Taking, Inside
  <2>3. After(ns, n) \in Seq(Nums) /\ rest \in Seq(Nums)
    BY <2>1, <2>2, AfterHas, InfosNumbersHas
  <2>4. Left(t, o) = After(ns, n) \o rest
    BY <1>2 DEF Left
  <2>. HIDE DEF ns, n, rest
  <2>. QED BY <2>3, <2>4
<1>. QED BY <1>1, <1>2

(* Restored, of t.                                                         *)
RestoredOf(t) ==
  CASE Field(MemberOf(t)).shape \in {"fixed", "enum"} -> t.items
    [] Field(MemberOf(t)).shape = "list" -> Tail(t.items)
    [] Field(MemberOf(t)).shape = "stack" -> Reverse(Tail(t.items))

LEMMA ReverseHas ==
  ASSUME NEW S, NEW q \in Seq(S)
  PROVE  /\ Reverse(q) \in Seq(S) /\ Len(Reverse(q)) = Len(q)
         /\ \A k \in 1 .. Len(q) : Reverse(q)[k] = q[(Len(q) - k) + 1]
BY DEF Reverse

(* All numbers of a value are read: it is the value that was put.          *)
LEMMA ValueIsPut ==
  ASSUME NEW o \in Objects, NEW ver, NEW t, Taking(t, o, ver), t.infos # << >>, t.wanted = << >>
  PROVE  /\ Len(t.items) = Len(ValueOf(t, o))
         /\ RestoredOf(t) = AsPut(MemberOf(t), o.members[MemberOf(t)])
<1>. DEFINE ns == ValueOf(t, o)
            q == t.items
            m == MemberOf(t)
            v == o.members[m]
<1>1. /\ q \in Seq(Nat) /\ Len(q) <= Len(ns) /\ ns \in Seq(Nums)
      /\ \A k \in 1 .. Len(q) : q[k] = ns[k].value
      /\ t.wanted = IF Container(m) /\ q = << >> THEN << 8 >>
                    ELSE [k \in 1 .. Len(ns) - Len(q) |-> ns[Len(q) + k].size]
      /\ m \in AllMembers /\ m \in ToSet(Aggregate[o.class])
  BY MemberHas DEF Taking, Inside
<1>2. ns = Numbers(Field(m), v)
  BY DEF ValueOf
<1>3. v \in Seq(Nat) /\ (Field(m).shape = "enum" => Len(v) = 1)
  BY <1>1, ObjectHas
<1>4. Field(m).shape \in Shapes
  BY <1>1, FieldHas
<1>5. RestoredOf(t) = CASE Field(m).shape \in {"fixed", "enum"} -> q
                        [] Field(m).shape = "list" -> Tail(q)
                        [] Field(m).shape = "stack" -> Reverse(Tail(q))
  BY DEF RestoredOf
<1>. HIDE DEF ns, q, m, v
<1>6. /\ Field(m).shape = "fixed" =>
            Len(ns) = Len(v) /\ \A k \in 1 .. Len(v) : ns[k] = Number(v[k], Field(m).size)
      /\ Field(m).shape = "enum" => Len(ns) = 1 /\ ns[1] = Number(v[1] % 256, 1)
      /\ Container(m) =>
           /\ Len(ns) = Len(v) + 1
           /\ \A k \in 1 .. Len(v) :
                ns[k + 1] = Number(IF Field(m).shape = "list" THEN v[k] ELSE v[(Len(v) - k) + 1], Field(m).size)
  <2>1. AreNumbers(m, v, ns)
    BY <1>1, <1>2, <1>3, NumbersHas
  <2>. QED BY <2>1 DEF AreNumbers
<1>7. \A a, b : Number(a, b).value = a
  BY DEF Number
<1>8. Len(q) \in Nat /\ Len(ns) \in Nat /\ Len(v) \in Nat
  BY <1>1, <1>3
<1>9. Len(q) = Len(ns)
  <2>1. << 8 >> # << >>
    OBVIOUS
  <2>2. [k \in 1 .. Len(ns) - Len(q) |-> ns[Len(q) + k].size] = << >>
    BY <1>1, <2>1
  <2>. DEFINE l == Len(ns) - Len(q)
  <2>3. l \in Nat
    BY <1>1, <1>8
  <2>4. DOMAIN [k \in 1 .. l |-> ns[Len(q) + k].size] = DOMAIN << >>
    BY <2>2
  <2>. HIDE DEF l
  <2>5. 1 .. l = {}
    BY <2>4
  <2>6. l = 0
    BY <2>3, <2>5
  <2>. QED BY <1>8, <2>6 DEF l
<1>10. CASE Field(m).shape = "fixed"
  <2>1. \A k \in 1 .. Len(v) : q[k] = v[k]
    BY <1>1, <1>6, <1>7, <1>9, <1>10
  <2>2. q = v
    <3>1. Len(q) = Len(v)
      BY <1>6, <1>9, <1>10
    <3>. QED BY <1>1, <1>3, <2>1, <3>1, SameSequence
  <2>3. RestoredOf(t) = q
    BY <1>5, <1>10
  <2>. QED BY <1>9, <1>10, <2>2, <2>3 DEF AsPut, ns, m, v, q
<1>11. CASE Field(m).shape = "enum"
  <2>1. Len(q) = 1 /\ q[1] = v[1] % 256
    BY <1>1, <1>6, <1>7, <1>9, <1>11
  <2>2. q = << v[1] % 256 >>
    BY <1>1, <2>1
  <2>3. RestoredOf(t) = q
    BY <1>5, <1>11
  <2>. QED BY <1>9, <1>11, <2>2, <2>3 DEF AsPut, ns, m, v, q
<1>12. CASE Container(m)
  <2>. DEFINE w == Tail(q)
  <2>1. Len(ns) = Len(v) + 1
    BY <1>6, <1>12
  <2>2. q # << >>
    <3>1. Len(q) # 0
      BY <1>8, <1>9, <2>1
    <3>. QED BY <3>1
  <2>3. w \in Seq(Nat) /\ Len(w) = Len(v) /\ \A k \in 1 .. Len(v) : w[k] = q[k + 1]
    <3>1. w \in Seq(Nat) /\ Len(w) = Len(q) - 1 /\ \A k \in 1 .. Len(q) - 1 : w[k] = q[k + 1]
      BY <1>1, <2>2, HeadHas
    <3>2. Len(q) - 1 = Len(v)
      BY <1>8, <1>9, <2>1
    <3>. QED BY <3>1, <3>2
  <2>. HIDE DEF w
  <2>4. \A k \in 1 .. Len(v) : q[k + 1] = ns[k + 1].value
    BY <1>1, <1>8, <1>9, <2>1
  <2>5. \A k \in 1 .. Len(v) : w[k] = IF Field(m).shape = "list" THEN v[k] ELSE v[(Len(v) - k) + 1]
    <3>. SUFFICES ASSUME NEW k \in 1 .. Len(v)
                  PROVE  w[k] = IF Field(m).shape = "list" THEN v[k] ELSE v[(Len(v) - k) + 1]
      OBVIOUS
    <3>. DEFINE e == IF Field(m).shape = "list" THEN v[k] ELSE v[(Len(v) - k) + 1]
    <3>1. ns[k + 1] = Number(e, Field(m).size)
      BY <1>6, <1>12
    <3>. HIDE DEF e
    <3>2. w[k] = e
      BY <1>7, <2>3, <2>4, <3>1
    <3>. QED BY <3>2 DEF e
  <2>6. Field(m).shape # "enum"
    BY <1>12 DEF Container
  <2>7. AsPut(m, v) = v
    BY <2>6 DEF AsPut
  <2>8. CASE Field(m).shape = "list"
    <3>1. RestoredOf(t) = w
      BY <1>5, <2>8 DEF w
    <3>2. w = v
      BY <1>3, <2>3, <2>5, <2>8, SameSequence
    <3>. QED BY <1>9, <2>7, <3>1, <3>2 DEF ns, m, v, q
  <2>9. CASE Field(m).shape = "stack"
    <3>1. RestoredOf(t) = Reverse(w)
      BY <1>5, <2>9 DEF w
    <3>2. Reverse(w) \in Seq(Nat) /\ Len(Reverse(w)) = Len(v)
          /\ \A k \in 1 .. Len(v) : Reverse(w)[k] = w[(Len(v) - k) + 1]
      BY <2>3, ReverseHas
    <3>3. \A k \in 1 .. Len(v) : w[(Len(v) - k) + 1] = v[k]
      <4>1. \A k \in 1 .. Len(v) : (Len(v) - k) + 1 \in 1 .. Len(v) /\ (Len(v) - ((Len(v) - k) + 1)) + 1 = k
        BY <1>8
      <4>. QED BY <2>5, <2>9, <4>1
    <3>4. Reverse(w) = v
      BY <1>3, <3>2, <3>3, SameSequence
    <3>. QED BY <1>9, <2>7, <3>1, <3>4 DEF ns, m, v, q
  <2>. QED BY <1>12, <2>8, <2>9 DEF Container
<1>. QED BY <1>4, <1>10, <1>11, <1>12 DEF Shapes, Container

(* TakeProperty: what is still to be read are the other properties.        *)
LEMMA ValueTaken ==
  ASSUME NEW o \in Objects, NEW ver, NEW t, Taking(t, o, ver), t.infos # << >>, t.wanted = << >>
  PROVE  /\ Restoring([t.into[1] EXCEPT !.members[MemberOf(t)] = RestoredOf(t)], o, Tail(t.infos), ver)
         /\ Tail(t.infos) \in Seq(ToSet(Properties(o.class, ver)))
         /\ Left(t, o) = InfosNumbers(o, Tail(t.infos))
<1>. DEFINE x == t.into[1]
            m == MemberOf(t)
            a == AsPut(m, o.members[m])
            y == [x EXCEPT !.members[m] = RestoredOf(t)]
            infos == t.infos
<1>1. RestoredOf(t) = a /\ Len(t.items) = Len(ValueOf(t, o))
  BY ValueIsPut
<1>2. /\ x \in Images(o) /\ infos \in Seq(ToSet(Properties(o.class, ver)))
      /\ \A d \in ToSet(Aggregate[o.class]) : x.members[d] \in {Field(d).blank, AsPut(d, o.members[d])}
      /\ \A p \in ToSet(Properties(o.class, ver)) \ ToSet(infos) :
           x.members[FindType(o.class, p.name)] =
             AsPut(FindType(o.class, p.name), o.members[FindType(o.class, p.name)])
  BY DEF Taking, Restoring
<1>3. /\ m \in ToSet(Aggregate[o.class]) /\ m = FindType(o.class, Head(infos).name)
      /\ Tail(infos) \in Seq(ToSet(Properties(o.class, ver))) /\ ValueOf(t, o) \in Seq(Nums)
  BY MemberHas
<1>4. a \in Seq(Nat)
  BY <1>3, AsPutHas
<1>5. y \in Images(o) /\ \A d \in ToSet(Aggregate[o.class]) : y.members[d] = IF d = m THEN a ELSE x.members[d]
  <2>. HIDE DEF x, m, a
  <2>. QED BY <1>1, <1>2, <1>3, <1>4 DEF Images
<1>. HIDE DEF x, y, infos
<1>6. \A d \in ToSet(Aggregate[o.class]) : y.members[d] \in {Field(d).blank, AsPut(d, o.members[d])}
  BY <1>2, <1>5
<1>7. ASSUME NEW p \in ToSet(Properties(o.class, ver)) \ ToSet(Tail(infos))
      PROVE  LET d == FindType(o.class, p.name) IN y.members[d] = AsPut(d, o.members[d])
  <2>1. FindType(o.class, p.name) \in ToSet(Aggregate[o.class])
    BY ObjectHas, PropertyIsFound
  <2>2. CASE p \notin ToSet(infos)
    BY <1>2, <1>5, <2>1, <2>2
  <2>3. CASE p \in ToSet(infos)
    <3>1. PICK k \in 1 .. Len(infos) : p = infos[k]
      BY <2>3 DEF ToSet
    <3>2. /\ Head(infos) = infos[1] /\ Len(Tail(infos)) = Len(infos) - 1 /\ Len(infos) \in Nat \ {0}
          /\ \A j \in 1 .. Len(infos) - 1 : Tail(infos)[j] = infos[j + 1]
      BY <1>2, HeadHas DEF infos
    <3>3. k = 1
      <4>1. SUFFICES ASSUME k # 1 PROVE FALSE
        OBVIOUS
      <4>2. k - 1 \in 1 .. Len(infos) - 1 /\ (k - 1) + 1 = k
        BY <3>2, <4>1
      <4>3. Tail(infos)[k - 1] = p /\ k - 1 \in 1 .. Len(Tail(infos))
        BY <3>1, <3>2, <4>2
      <4>4. DOMAIN Tail(infos) = 1 .. Len(Tail(infos))
        BY <1>3
      <4>. QED BY <4>3, <4>4 DEF ToSet
    <3>4. FindType(o.class, p.name) = m
      BY <1>3, <3>1, <3>2, <3>3
    <3>. QED BY <1>3, <1>5, <3>4
  <2>. QED BY <2>2, <2>3
<1>8. Restoring(y, o, Tail(infos), ver)
  BY <1>5, <1>6, <1>7 DEF Restoring
<1>9. After(ValueOf(t, o), Len(t.items)) = << >>
  BY <1>1, <1>3, AfterEnds
<1>10. Left(t, o) = << >> \o InfosNumbers(o, Tail(infos))
  BY <1>9 DEF Left, infos
<1>11. Left(t, o) = InfosNumbers(o, Tail(infos))
  BY <1>3, <1>10, InfosNumbersHas
<1>. QED BY <1>3, <1>8, <1>11 DEF y, x, infos

LEMMA BlankRestoring ==
  ASSUME NEW o \in Objects, NEW ver
  PROVE  Restoring(Blank(o.class), o, Properties(o.class, ver), ver)
<1>1. \A m \in ToSet(Aggregate[o.class]) : Field(m).blank \in Seq(Nat)
  BY ObjectHas, FieldHas
<1>. QED BY <1>1 DEF Restoring, Blank, Images

-----------------------------------------------------------------------------
(* The reader                                                              *)

(* Of the objects w the reader has got g and is at t, and the bytes that   *)
(* follow are what it waits for.                                           *)
Awaits(w, ver, g, t, bytes) ==
  /\ g \in Seq(UNION {Images(o) : o \in Objects}) /\ Len(g) <= Len(w)
  /\ \A k \in 1 .. Len(g) : Restoring(g[k], w[k], << >>, ver)
  /\ IF t = Nothing
     THEN bytes = Laid(w, ver, Len(g))
     ELSE /\ Len(g) < Len(w)
          /\ Taking(t, w[Len(g) + 1], ver)
          /\ bytes = Bytes(Left(t, w[Len(g) + 1])) \o Laid(w, ver, Len(g) + 1)

ReaderInv ==
  /\ known = version
  /\ Awaits(written, version, got, taking, After(Encoding, Consumed))

SerialInv ==
  /\ WriterInv /\ StageInv
  /\ ~ failed => WindowInv /\ (reader = "open" => ReaderInv)
  /\ CompleteWhenWhole

LEMMA ConsumedHas ==
  ASSUME WriterInv, WindowInv
  PROVE  /\ Consumed \in 0 .. Len(file) /\ Consumed \in 0 .. Len(Encoding)
         /\ Encoding \in Seq(AllBytes) /\ file \in Seq(AllBytes)
<1>1. file \in Seq(AllBytes) /\ Encoding \in Seq(AllBytes) /\ Len(file) <= Len(Encoding)
  BY EncodingIs, FileLeads DEF WriterInv, WriterType
<1>. QED BY <1>1 DEF WindowInv, Consumed

(* A read that succeeds has the bytes that follow, and one that reads from *)
(* the whole file succeeds.                                                *)
LEMMA BytesRead ==
  ASSUME WriterInv, WindowInv, NEW n \in 1 .. 8, ReadStep(n),
         NEW a \in Seq(AllBytes), NEW b \in Seq(AllBytes), Len(a) = n,
         After(Encoding, Consumed) = a \o b
  PROVE  /\ Read(n).ok => SubSeq(Read(n).window, 1, n) = a /\ Read(n).window[1] = a[1]
                           /\ After(Encoding, Consumed') = b
         /\ writer = "destroyed" /\ (eof => at = Len(file)) =>
              Read(n).ok /\ (eof' => at' = Len(file))
<1>. DEFINE r == Read(n)
            w == r.window
            p == SubSeq(w, 1, n)
<1>1. /\ w \in Seq(AllBytes) /\ \A k \in 1 .. Len(w) : w[k] = file[Consumed + k]
      /\ Len(w) <= r.at /\ r.at \in 0 .. Len(file) /\ r.at - Len(w) = Consumed
      /\ r.ok => n <= Len(w)
      /\ (eof => at = Len(file)) => (r.eof => r.at = Len(file)) /\ (n <= Len(file) - Consumed => r.ok)
  BY ReadHas
<1>2. at' = r.at /\ eof' = r.eof
  BY DEF ReadStep, Keep
<1>3. r.ok => Consumed' = Consumed + n
  BY ReadSteps
<1>. HIDE DEF r
<1>4. Consumed \in 0 .. Len(Encoding) /\ Encoding \in Seq(AllBytes) /\ file \in Seq(AllBytes) /\ Consumed \in 0 .. Len(file)
  BY ConsumedHas
<1>5. /\ Len(Encoding) - Consumed = Len(a) + Len(b)
      /\ After(Encoding, Consumed + Len(a)) = b
      /\ \A k \in 1 .. Len(a) : Encoding[Consumed + k] = a[k]
  <2>. DEFINE e == Encoding
              c == Consumed
  <2>1. c \in 0 .. Len(e) /\ e \in Seq(AllBytes) /\ Continues(e, c, a, b)
    BY <1>4 DEF Continues
  <2>. HIDE DEF e, c
  <2>2. /\ Len(e) - c = Len(a) + Len(b)
        /\ After(e, c + Len(a)) = b
        /\ \A k \in 1 .. Len(a) : e[c + k] = a[k]
    BY <2>1, AfterSplits, ZenonT(30)
  <2>. QED BY <2>2 DEF e, c
<1>6. ASSUME r.ok PROVE SubSeq(w, 1, n) = a /\ w[1] = a[1] /\ After(Encoding, Consumed') = b
  <2>. HIDE DEF w, p
  <2>1. n <= Len(w) /\ Len(w) \in Nat /\ n \in Nat
    BY <1>1, <1>6
  <2>2. p \in Seq(AllBytes) /\ Len(p) = n /\ \A k \in 1 .. n : p[k] = w[k]
    <3>1. w \in Seq(AllBytes)
      BY <1>1
    <3>. QED BY <2>1, <3>1 DEF p
  <2>3. \A k \in 1 .. n : w[k] = a[k]
    <3>. SUFFICES ASSUME NEW k \in 1 .. n PROVE w[k] = a[k]
      OBVIOUS
    <3>1. k \in 1 .. Len(w)
      BY <2>1
    <3>2. Consumed + k \in 1 .. Len(file)
      BY <1>1, <1>4, <3>1, SMTT(30)
    <3>3. Encoding[Consumed + k] = file[Consumed + k]
      BY <3>2, FileLeads
    <3>. QED BY <1>1, <1>5, <3>1, <3>3
  <2>4. p = a
    BY <2>2, <2>3, SameSequence
  <2>5. w[1] = a[1]
    BY <2>1, <2>3
  <2>. QED BY <1>3, <1>5, <1>6, <2>4, <2>5 DEF p
<1>7. ASSUME writer = "destroyed", eof => at = Len(file) PROVE r.ok /\ (eof' => at' = Len(file))
  <2>1. file = Encoding
    BY <1>7 DEF WriterInv
  <2>2. n <= Len(file) - Consumed
    BY <1>4, <1>5, <2>1
  <2>. QED BY <1>1, <1>2, <1>7, <2>2
<1>. QED BY <1>6, <1>7 DEF r

LEMMA ReaderLeavesWriter == Reader => UNCHANGED << size, file, writerVars >> /\ Encoding' = Encoding
<1>1. ASSUME Reader PROVE UNCHANGED << size, file, writerVars >>
  BY <1>1 DEF Reader, Open, Take, TakeNumber, TakeProperty, Taken
<1>. QED BY <1>1, EncodingStays DEF writerVars

LEMMA InitReads == Init => SerialInv
<1>. SUFFICES ASSUME Init PROVE SerialInv
  OBVIOUS
<1>1. WriterInv
  BY InitWrites
<1>2. window = << >> /\ at = 0 /\ file = << >> /\ eof = FALSE
  BY DEF Init
<1>3. WindowInv
  <2>1. Len(window) = 0 /\ Len(file) = 0 /\ window \in Seq(AllBytes)
    BY <1>2
  <2>2. at = 0 /\ eof \in BOOLEAN
    BY <1>2
  <2>. QED BY <2>1, <2>2 DEF WindowInv
<1>4. StageInv /\ CompleteWhenWhole /\ reader # "open"
  BY DEF Init, StageInv, CompleteWhenWhole
<1>. QED BY <1>1, <1>3, <1>4 DEF SerialInv

(* The version is the first number of the file.                            *)
LEMMA OpenReads == ASSUME SerialInv, Open PROVE SerialInv'
<1>. DEFINE r == Read(8)
<1>1. /\ WriterInv /\ ~ failed /\ WindowInv
      /\ at = 0 /\ ~ eof /\ window = << >> /\ taking = Nothing /\ got = << >>
  BY DEF SerialInv, Open, StageInv
<1>2. ReadStep(8)
  BY DEF Open, ReadStep
<1>3. Consumed = 0
  <2>1. Len(window) = 0
    BY <1>1
  <2>2. at = 0
    BY <1>1
  <2>. QED BY <2>1, <2>2 DEF Consumed
<1>4. /\ Encoding = Header \o Laid(written, version, 0) /\ Encoding \in Seq(AllBytes)
      /\ Laid(written, version, 0) \in Seq(AllBytes) /\ Header \in Seq(AllBytes) /\ Len(Header) = 8
  BY <1>1, EncodingIs DEF WriterInv
<1>5. After(Encoding, Consumed) = Header \o Laid(written, version, 0)
  BY <1>3, <1>4, AfterEnds
<1>6. Header[1].of.value = version
  <2>1. version \in Nat
    BY <1>1 DEF WriterInv, WriterType
  <2>. QED BY <2>1, HeaderHas DEF Header
<1>7. /\ r.ok => r.window[1] = Header[1] /\ After(Encoding, Consumed') = Laid(written, version, 0)
      /\ writer = "destroyed" => r.ok /\ (eof' => at' = Len(file))
  <2>1. 8 \in 1 .. 8 /\ (eof => at = Len(file))
    BY <1>1
  <2>. HIDE DEF r
  <2>2. /\ Read(8).ok => Read(8).window[1] = Header[1] /\ After(Encoding, Consumed') = Laid(written, version, 0)
        /\ writer = "destroyed" /\ (eof => at = Len(file)) => Read(8).ok /\ (eof' => at' = Len(file))
    BY <1>1, <1>2, <1>4, <1>5, <2>1, BytesRead
  <2>. QED BY <2>1, <2>2 DEF r
<1>8. WindowInv'
  BY <1>1, <1>2, ReadSteps
<1>9. UNCHANGED << size, file, writerVars >> /\ Encoding' = Encoding
  BY ReaderLeavesWriter DEF Reader
<1>10. WriterInv'
  BY <1>1, WriterKeeps DEF Next, Reader
<1>11. /\ reader' = "open" /\ whole' = (writer = "destroyed") /\ failed' = ~ r.ok
       /\ r.ok => known' = r.window[1].of.value
       /\ taking' = taking /\ got' = got
  BY DEF Open
<1>. HIDE DEF r
<1>12. StageInv' /\ CompleteWhenWhole'
  BY <1>7, <1>9, <1>11 DEF StageInv, CompleteWhenWhole, writerVars
<1>13. ASSUME ~ failed' PROVE ReaderInv'
  <2>1. r.ok /\ known' = version /\ written' = written /\ version' = version
    BY <1>6, <1>7, <1>9, <1>11, <1>13 DEF writerVars
  <2>2. written \in Seq(Objects)
    BY <1>1 DEF WriterInv, WriterType
  <2>3. Awaits(written, version, got, taking, Laid(written, version, 0))
    BY <1>1, <2>2 DEF Awaits
  <2>. QED BY <1>7, <1>9, <1>11, <2>1, <2>3 DEF ReaderInv
<1>. QED BY <1>8, <1>10, <1>11, <1>12, <1>13 DEF SerialInv

(* What a step that reads nothing leaves alone.                            *)
LEMMA NoRead ==
  ASSUME SerialInv, Reader, UNCHANGED << reader, whole, known, at, eof, window, failed >>, reader = "open",
         ~ failed => Awaits(written, version, got', taking', After(Encoding, Consumed))
  PROVE  SerialInv'
<1>1. UNCHANGED << size, file, writerVars >> /\ Encoding' = Encoding
  BY ReaderLeavesWriter
<1>2. WriterInv'
  BY WriterKeeps DEF SerialInv, Next
<1>3. StageInv' /\ CompleteWhenWhole'
  BY <1>1 DEF SerialInv, StageInv, CompleteWhenWhole, writerVars
<1>4. Consumed' = Consumed
  BY DEF Consumed
<1>5. WindowInv => WindowInv'
  BY <1>1, <1>4 DEF WindowInv
<1>6. ASSUME ~ failed PROVE ReaderInv'
  <2>1. ReaderInv
    BY <1>6 DEF SerialInv
  <2>2. written' = written /\ version' = version
    BY <1>1 DEF writerVars
  <2>. QED BY <1>1, <1>4, <1>6, <2>1, <2>2 DEF ReaderInv
<1>. QED BY <1>2, <1>3, <1>5, <1>6 DEF SerialInv

LEMMA TakeReads == ASSUME SerialInv, Take PROVE SerialInv'
<1>1. ASSUME ~ failed PROVE Awaits(written, version, got', taking', After(Encoding, Consumed))
  <2>. DEFINE o == written[Len(got) + 1]
              t == Reading(Blank(o.class), Properties(o.class, version))
              bytes == After(Encoding, Consumed)
  <2>1. /\ known = version /\ Len(got) < Len(written) /\ written \in Seq(Objects)
        /\ Awaits(written, version, got, Nothing, bytes)
        /\ taking' = t /\ got' = got
    BY <1>1 DEF SerialInv, Take, ReaderInv, WriterInv, WriterType
  <2>2. got \in Seq(UNION {Images(z) : z \in Objects}) /\ bytes = Laid(written, version, Len(got))
    BY <2>1 DEF Awaits
  <2>. HIDE DEF bytes
  <2>3. Len(got) \in 0 .. Len(written) /\ Len(got) + 1 \in 1 .. Len(written)
    BY <2>1, <2>2
  <2>4. o \in Objects
    BY <2>1, <2>3
  <2>5. Laid(written, version, Len(got)) =
          Bytes(ObjectNumbers(o, version)) \o Laid(written, version, Len(got) + 1)
    BY <2>1, <2>3, LaidHas
  <2>. HIDE DEF o
  <2>6. Properties(o.class, version) \in Seq(ToSet(Properties(o.class, version)))
    BY <2>4, ObjectNumbersHas
  <2>7. Restoring(Blank(o.class), o, Properties(o.class, version), version)
    BY <2>4, BlankRestoring
  <2>8. Taking(t, o, version) /\ t # Nothing /\ Left(t, o) = ObjectNumbers(o, version)
    BY <2>4, <2>6, <2>7, ReadingBegins DEF ObjectNumbers
  <2>. HIDE DEF t
  <2>9. Awaits(written, version, got, t, bytes)
    BY <2>1, <2>2, <2>5, <2>8 DEF Awaits, o
  <2>. QED BY <2>1, <2>9 DEF bytes
<1>. QED BY <1>1, NoRead DEF Take, Reader

LEMMA TakePropertyReads == ASSUME SerialInv, TakeProperty PROVE SerialInv'
<1>1. ASSUME ~ failed PROVE Awaits(written, version, got', taking', After(Encoding, Consumed))
  <2>. DEFINE o == written[Len(got) + 1]
              t == taking
              x == [t.into[1] EXCEPT !.members[MemberOf(t)] = RestoredOf(t)]
              u == Reading(x, Tail(t.infos))
              bytes == After(Encoding, Consumed)
  <2>1. /\ written \in Seq(Objects)
        /\ Awaits(written, version, got, t, bytes)
        /\ t # Nothing /\ t.infos # << >> /\ t.wanted = << >>
    BY <1>1 DEF SerialInv, TakeProperty, ReaderInv, WriterInv, WriterType
  <2>2. taking' = u /\ got' = got
    BY DEF TakeProperty, Member, MemberOf, Restored, RestoredOf
  <2>. HIDE DEF bytes, t
  <2>3. /\ got \in Seq(UNION {Images(z) : z \in Objects}) /\ Len(got) < Len(written)
        /\ Taking(t, o, version)
        /\ bytes = Bytes(Left(t, o)) \o Laid(written, version, Len(got) + 1)
    BY <2>1 DEF Awaits
  <2>4. o \in Objects
    BY <2>1, <2>3
  <2>. HIDE DEF o
  <2>5. /\ Restoring(x, o, Tail(t.infos), version)
        /\ Tail(t.infos) \in Seq(ToSet(Properties(o.class, version)))
        /\ Left(t, o) = InfosNumbers(o, Tail(t.infos))
    BY <2>1, <2>3, <2>4, ValueTaken
  <2>. HIDE DEF x
  <2>6. Taking(u, o, version) /\ u # Nothing /\ Left(u, o) = Left(t, o)
    BY <2>4, <2>5, ReadingBegins
  <2>. HIDE DEF u
  <2>7. Awaits(written, version, got, u, bytes)
    BY <2>1, <2>3, <2>6 DEF Awaits, o
  <2>. QED BY <2>2, <2>7 DEF bytes
<1>. QED BY <1>1, NoRead DEF TakeProperty, Reader

LEMMA TakenReads == ASSUME SerialInv, Taken PROVE SerialInv'
<1>1. ASSUME ~ failed PROVE Awaits(written, version, got', taking', After(Encoding, Consumed))
  <2>. DEFINE o == written[Len(got) + 1]
              t == taking
              x == t.into[1]
              n == Len(got)
              all == UNION {Images(z) : z \in Objects}
              bytes == After(Encoding, Consumed)
  <2>1. /\ written \in Seq(Objects)
        /\ Awaits(written, version, got, t, bytes)
        /\ t # Nothing /\ t.infos = << >>
        /\ taking' = Nothing /\ got' = Append(got, x)
    BY <1>1 DEF SerialInv, Taken, ReaderInv, WriterInv, WriterType
  <2>. HIDE DEF bytes, t
  <2>2. /\ got \in Seq(all) /\ n < Len(written)
        /\ \A k \in 1 .. n : Restoring(got[k], written[k], << >>, version)
        /\ Taking(t, o, version)
        /\ bytes = Bytes(Left(t, o)) \o Laid(written, version, n + 1)
    BY <2>1 DEF Awaits
  <2>3. o \in Objects /\ n + 1 \in 0 .. Len(written)
    BY <2>1, <2>2
  <2>4. Restoring(x, o, << >>, version)
    BY <2>1, <2>2 DEF Taking
  <2>5. x \in all
    BY <2>3, <2>4 DEF Restoring
  <2>6. bytes = Laid(written, version, n + 1)
    <3>1. Left(t, o) = << >>
      BY <2>1 DEF Left
    <3>2. Laid(written, version, n + 1) \in Seq(AllBytes)
      BY <2>1, <2>3, LaidHas
    <3>. QED BY <2>2, <3>1, <3>2, BytesHas, BytesJoin
  <2>. HIDE DEF x, all
  <2>7. /\ got' \in Seq(all) /\ Len(got') = n + 1 /\ got'[n + 1] = x
        /\ \A k \in 1 .. n : got'[k] = got[k]
    BY <2>1, <2>2, <2>5
  <2>8. \A k \in 1 .. n + 1 : Restoring(got'[k], written[k], << >>, version)
    <3>1. n \in Nat
      BY <2>2
    <3>2. \A k \in 1 .. n + 1 : k \in 1 .. n \/ k = n + 1
      BY <3>1
    <3>. HIDE DEF n
    <3>. QED BY <2>2, <2>4, <2>7, <3>2 DEF n
  <2>9. Len(got') <= Len(written)
    BY <2>2, <2>3, <2>7
  <2>10. Awaits(written, version, got', Nothing, bytes)
    BY <2>6, <2>7, <2>8, <2>9 DEF Awaits, all
  <2>. QED BY <2>1, <2>10 DEF bytes
<1>. QED BY <1>1, NoRead DEF Taken, Reader

LEMMA BytesOfFirst ==
  ASSUME NEW x \in Nums, NEW xs \in Seq(Nums)
  PROVE  Bytes(<< x >> \o xs) = Swapped(x) \o Bytes(xs)
<1>. DEFINE q == << x >> \o xs
<1>1. q \in Seq(Nums) /\ q # << >> /\ q[1] = x /\ Tail(q) = xs
  OBVIOUS
<1>. HIDE DEF q
<1>2. Bytes(q) = Swapped(q[1]) \o Bytes(Tail(q))
  BY <1>1, BytesHas
<1>. QED BY <1>1, <1>2 DEF q

(* The number that is read is the one that was written.                    *)
LEMMA TakeNumberReads == ASSUME SerialInv, TakeNumber PROVE SerialInv'
<1>. DEFINE t == taking
            n == Head(t.wanted)
            r == Read(n)
            z == IF r.ok THEN AsNumber(SubSeq(r.window, 1, n)) ELSE 0
<1>1. /\ reader = "open" /\ t # Nothing /\ t.wanted # << >>
      /\ ReadStep(n) /\ failed' = (failed \/ ~ r.ok)
      /\ taking' = NextOf(t, z)
      /\ UNCHANGED << reader, whole, known, got >>
  BY DEF TakeNumber, ReadStep, NextOf, IsCount, Member, MemberOf, Container
<1>2. UNCHANGED << size, file, writerVars >> /\ Encoding' = Encoding
  BY ReaderLeavesWriter DEF Reader
<1>3. WriterInv'
  BY WriterKeeps DEF SerialInv, Next, Reader
<1>. HIDE DEF t, n, r, z
<1>4. CASE failed
  <2>1. failed' /\ ~ whole
    BY <1>1, <1>4 DEF SerialInv, CompleteWhenWhole
  <2>2. StageInv' /\ CompleteWhenWhole'
    BY <1>1, <2>1 DEF SerialInv, StageInv, CompleteWhenWhole
  <2>. QED BY <1>3, <2>1, <2>2 DEF SerialInv
<1>5. CASE ~ failed
  <2>. DEFINE o == written[Len(got) + 1]
              x == ValueOf(t, o)[Len(t.items) + 1]
              u == NextOf(t, x.value)
              rest == Laid(written, version, Len(got) + 1)
              bytes == After(Encoding, Consumed)
  <2>1. /\ WriterInv /\ WindowInv /\ StageInv /\ written \in Seq(Objects)
        /\ Awaits(written, version, got, t, bytes)
    BY <1>1, <1>5 DEF SerialInv, ReaderInv, WriterInv, WriterType, t
  <2>. HIDE DEF bytes
  <2>2. /\ got \in Seq(UNION {Images(y) : y \in Objects}) /\ Len(got) < Len(written)
        /\ Taking(t, o, version)
        /\ bytes = Bytes(Left(t, o)) \o rest
    BY <1>1, <2>1 DEF Awaits
  <2>3. o \in Objects /\ Len(got) + 1 \in 0 .. Len(written)
    BY <2>1, <2>2
  <2>4. rest \in Seq(AllBytes)
    BY <2>1, <2>3, LaidHas
  <2>5. t.infos # << >>
    BY <1>1, <2>2 DEF Taking
  <2>. HIDE DEF o, rest
  <2>6. /\ x \in Nums /\ n = x.size
        /\ Taking(u, o, version) /\ u # Nothing
        /\ Left(u, o) \in Seq(Nums)
        /\ Left(t, o) = << x >> \o Left(u, o)
    BY <1>1, <2>2, <2>3, <2>5, NumberFollows DEF n
  <2>. HIDE DEF x, u
  <2>7. /\ Swapped(x) \in Seq(AllBytes) /\ Len(Swapped(x)) = n /\ Swapped(x)[1].of = x
        /\ n \in 1 .. 8
    BY <2>6, SwappedHas
  <2>8. Bytes(Left(u, o)) \in Seq(AllBytes)
    BY <2>6, BytesHas
  <2>9. bytes = Swapped(x) \o (Bytes(Left(u, o)) \o rest)
    <3>1. Bytes(Left(t, o)) = Swapped(x) \o Bytes(Left(u, o))
      BY <2>6, BytesOfFirst
    <3>. QED BY <2>2, <2>4, <2>7, <2>8, <3>1, Regroup
  <2>10. /\ r.ok => SubSeq(r.window, 1, n) = Swapped(x)
                     /\ After(Encoding, Consumed') = Bytes(Left(u, o)) \o rest
         /\ writer = "destroyed" /\ (eof => at = Len(file)) => r.ok /\ (eof' => at' = Len(file))
    <3>. DEFINE b == Bytes(Left(u, o)) \o rest
    <3>1. b \in Seq(AllBytes)
      BY <2>4, <2>8, BytesJoin
    <3>2. After(Encoding, Consumed) = Swapped(x) \o b
      BY <2>9 DEF bytes
    <3>. HIDE DEF b
    <3>3. /\ Read(n).ok => SubSeq(Read(n).window, 1, n) = Swapped(x) /\ After(Encoding, Consumed') = b
          /\ writer = "destroyed" /\ (eof => at = Len(file)) => Read(n).ok /\ (eof' => at' = Len(file))
      BY <1>1, <2>1, <2>7, <3>1, <3>2, BytesRead
    <3>. QED BY <3>3 DEF b, r
  <2>11. WindowInv'
    BY <1>1, <2>1, <2>7, ReadSteps
  <2>12. StageInv' /\ CompleteWhenWhole'
    <3>1. whole => r.ok /\ writer = "destroyed" /\ (eof' => at' = Len(file))
      BY <2>1, <2>10 DEF StageInv
    <3>2. writer' = writer /\ file' = file /\ failed' \in BOOLEAN
      BY <1>1, <1>2 DEF writerVars
    <3>. QED BY <1>1, <1>5, <3>1, <3>2 DEF StageInv, CompleteWhenWhole
  <2>13. ASSUME ~ failed' PROVE ReaderInv'
    <3>1. r.ok
      BY <1>1, <2>13
    <3>2. z = x.value
      <4>1. AsNumber(Swapped(x)) = x.value
        BY <2>7 DEF AsNumber
      <4>. QED BY <2>10, <3>1, <4>1 DEF z
    <3>3. taking' = u /\ got' = got /\ known' = known
      BY <1>1, <3>2 DEF u
    <3>4. Awaits(written, version, got, u, Bytes(Left(u, o)) \o rest)
      BY <2>1, <2>2, <2>6 DEF Awaits, o, rest
    <3>5. After(Encoding, Consumed)' = Bytes(Left(u, o)) \o rest
      BY <1>2, <2>10, <3>1
    <3>6. written' = written /\ version' = version /\ known = version
      BY <1>1, <1>2, <1>5 DEF SerialInv, ReaderInv, writerVars
    <3>. QED BY <3>3, <3>4, <3>5, <3>6 DEF ReaderInv
  <2>. QED BY <1>3, <2>11, <2>12, <2>13 DEF SerialInv
<1>. QED BY <1>4, <1>5

-----------------------------------------------------------------------------
(* The writer, while an object is read                                     *)

(* Another object is put after those the reader waits for.                 *)
LEMMA PutAwaits ==
  ASSUME NEW w \in Seq(Objects), NEW ver, NEW o \in Objects, NEW g, NEW t, NEW bytes,
         Awaits(w, ver, g, t, bytes)
  PROVE  Awaits(Append(w, o), ver, g, t, bytes \o Bytes(ObjectNumbers(o, ver)))
<1>. DEFINE v == Append(w, o)
            a == Bytes(ObjectNumbers(o, ver))
            n == Len(g)
            c == w[n + 1]
<1>1. /\ g \in Seq(UNION {Images(z) : z \in Objects}) /\ n <= Len(w)
      /\ \A k \in 1 .. n : Restoring(g[k], w[k], << >>, ver)
      /\ t = Nothing => bytes = Laid(w, ver, n)
      /\ t # Nothing => /\ n < Len(w) /\ Taking(t, c, ver)
                        /\ bytes = Bytes(Left(t, c)) \o Laid(w, ver, n + 1)
  BY DEF Awaits
<1>2. a \in Seq(AllBytes)
  BY ObjectNumbersHas, BytesHas
<1>3. \A j \in 0 .. Len(w) : Laid(v, ver, j) = Laid(w, ver, j) \o a /\ Laid(w, ver, j) \in Seq(AllBytes)
  BY LaidHas
<1>. HIDE DEF a
<1>4. n \in Nat /\ Len(w) \in Nat /\ Len(v) = Len(w) + 1 /\ \A k \in 1 .. Len(w) : v[k] = w[k]
  BY <1>1
<1>. HIDE DEF v
<1>5. n <= Len(v) /\ \A k \in 1 .. n : Restoring(g[k], v[k], << >>, ver)
  BY <1>1, <1>4
<1>6. CASE t = Nothing
  <2>1. bytes \o a = Laid(v, ver, n)
    <3>1. n \in 0 .. Len(w)
      BY <1>1, <1>4
    <3>2. Laid(v, ver, n) = Laid(w, ver, n) \o a
      BY <1>3, <3>1
    <3>3. bytes = Laid(w, ver, n)
      BY <1>1, <1>6
    <3>. QED BY <3>2, <3>3, Zenon
  <2>. QED BY <1>1, <1>5, <1>6, <2>1 DEF Awaits, v, a
<1>7. CASE t # Nothing
  <2>1. v[n + 1] = c /\ c \in Objects /\ n + 1 \in 0 .. Len(w) /\ n < Len(v)
    BY <1>1, <1>4, <1>7
  <2>2. Bytes(Left(t, c)) \in Seq(AllBytes)
    BY <1>1, <1>7, <2>1, LeftHas, BytesHas
  <2>3. bytes \o a = Bytes(Left(t, c)) \o Laid(v, ver, n + 1)
    <3>. DEFINE left == Bytes(Left(t, c))
                lw == Laid(w, ver, n + 1)
                lv == Laid(v, ver, n + 1)
    <3>1. lv = lw \o a /\ lw \in Seq(AllBytes)
      BY <1>3, <2>1
    <3>2. bytes = left \o lw
      BY <1>1, <1>7
    <3>. HIDE DEF left, lw, lv
    <3>3. left \in Seq(AllBytes)
      BY <2>2 DEF left
    <3>4. (left \o lw) \o a = left \o (lw \o a)
      BY <1>2, <3>1, <3>3, Regroup
    <3>5. bytes \o a = left \o lv
      BY <3>1, <3>2, <3>4
    <3>. QED BY <3>5 DEF left, lv
  <2>. QED BY <1>1, <1>5, <1>7, <2>1, <2>3 DEF Awaits, v, a
<1>. QED BY <1>6, <1>7

LEMMA WriterReads == ASSUME SerialInv, Writer PROVE SerialInv'
<1>1. WriterInv /\ WriterInv'
  BY WriterKeeps DEF SerialInv, Next
<1>2. UNCHANGED readerVars
  BY DEF Writer, Put, Write, Flush, Close, Destroy, Spill
<1>3. StageInv'
  <2>1. writer # "destroyed"
    BY <1>1, FileGrows
  <2>. QED BY <1>2, <2>1 DEF SerialInv, StageInv, readerVars
<1>4. CompleteWhenWhole'
  BY <1>2 DEF SerialInv, CompleteWhenWhole, readerVars
<1>5. ASSUME ~ failed PROVE WindowInv' /\ (reader = "open" => ReaderInv')
  <2>1. WindowInv /\ StageInv /\ (reader = "open" => ReaderInv)
    BY <1>5 DEF SerialInv
  <2>2. WindowInv' /\ Consumed' = Consumed
    BY <1>1, <2>1, WriterLeavesWindow
  <2>. SUFFICES ASSUME reader = "open" PROVE ReaderInv'
    BY <2>2
  <2>3. /\ known = version /\ Awaits(written, version, got, taking, After(Encoding, Consumed))
        /\ version' = version /\ known' = known /\ got' = got /\ taking' = taking
        /\ written \in Seq(Objects)
    BY <1>1, <1>2, <2>1 DEF ReaderInv, readerVars, WriterInv, WriterType, Writer, Put, Write, Flush, Close, Destroy, Spill
  <2>4. CASE \E o \in Objects : Put(o)
    <3>1. PICK o \in Objects : Put(o)
      BY <2>4
    <3>2. Encoding' = Encoding \o Bytes(ObjectNumbers(o, version))
      BY <1>1, <3>1, PutWrites
    <3>3. written' = Append(written, o)
      BY <3>1 DEF Put
    <3>4. Bytes(ObjectNumbers(o, version)) \in Seq(AllBytes)
      BY ObjectNumbersHas, BytesHas
    <3>5. After(Encoding', Consumed) = After(Encoding, Consumed) \o Bytes(ObjectNumbers(o, version))
      BY <1>1, <2>1, <3>2, <3>4, ConsumedHas, AfterConcat
    <3>6. Awaits(written', version, got, taking, After(Encoding', Consumed))
      BY <2>3, <3>3, <3>5, PutAwaits
    <3>. QED BY <2>2, <2>3, <3>6 DEF ReaderInv
  <2>5. CASE Write \/ Flush \/ Close \/ Destroy \/ Spill
    <3>1. written' = written
      BY <2>5 DEF Write, Flush, Close, Destroy, Spill
    <3>2. Encoding' = Encoding
      BY <2>3, <3>1, EncodingStays
    <3>. QED BY <2>2, <2>3, <3>1, <3>2 DEF ReaderInv
  <2>. QED BY <2>4, <2>5 DEF Writer
<1>. QED BY <1>1, <1>2, <1>3, <1>4, <1>5 DEF SerialInv, readerVars

LEMMA GotHas ==
  ASSUME SerialInv, ~ failed, NEW k \in 1 .. Len(got)
  PROVE  Restoring(got[k], written[k], << >>, version) /\ written[k] \in Objects
<1>1. got # << >>
  OBVIOUS
<1>2. ReaderInv /\ written \in Seq(Objects)
  BY <1>1 DEF SerialInv, StageInv, WriterInv, WriterType
<1>3. /\ got \in Seq(UNION {Images(o) : o \in Objects}) /\ Len(got) <= Len(written)
      /\ Restoring(got[k], written[k], << >>, version)
  BY <1>2 DEF ReaderInv, Awaits
<1>4. k \in 1 .. Len(written)
  BY <1>2, <1>3
<1>. QED BY <1>2, <1>3, <1>4

LEMMA ComparableIsPut ==
  ASSUME NEW o \in Objects, NEW m \in ToSet(Aggregate[o.class]), Comparable(m, o.members[m])
  PROVE  AsPut(m, o.members[m]) = o.members[m]
<1>. DEFINE v == o.members[m]
<1>1. v \in Seq(Nat) /\ (Field(m).shape = "enum" => Len(v) = 1)
  BY ObjectHas
<1>. HIDE DEF v
<1>2. CASE Field(m).shape = "enum"
  <2>1. v[1] \in Nat /\ v[1] <= 255
    BY <1>1, <1>2 DEF Comparable, v
  <2>2. v[1] % 256 = v[1]
    BY <2>1
  <2>3. v = << v[1] >>
    BY <1>1, <1>2
  <2>. QED BY <1>2, <2>2, <2>3 DEF AsPut, v
<1>. QED BY <1>2 DEF AsPut

LEMMA SerialKeeps == ASSUME SerialInv, [Next]_vars PROVE SerialInv'
<1>1. CASE Writer
  BY <1>1, WriterReads
<1>2. CASE Reader
  BY <1>2, OpenReads, TakeReads, TakeNumberReads, TakePropertyReads, TakenReads DEF Reader
<1>3. CASE UNCHANGED vars
  <2>1. WriterInv'
    BY WriterKeeps DEF SerialInv
  <2>2. Encoding' = Encoding
    BY <1>3, EncodingStays DEF vars, writerVars
  <2>. QED BY <1>3, <2>1, <2>2
         DEF SerialInv, StageInv, WindowInv, Consumed, ReaderInv, CompleteWhenWhole, vars, writerVars, readerVars
<1>. QED BY <1>1, <1>2, <1>3 DEF Next

(* A reader that starts once the writer is destroyed never runs out of     *)
(* bytes, whatever the sizes of the buffers: no read of it fails.          *)
THEOREM CompleteTheorem == Spec => []CompleteWhenWhole
<1>1. SerialInv => CompleteWhenWhole
  BY DEF SerialInv
<1>. QED BY <1>1, InitReads, SerialKeeps, PTL DEF Spec

(* Every member that is read is the one that was put under it, or as in a  *)
(* new object, also while the writer still writes.                         *)
THEOREM OwnTheorem == Spec => []ReadsAreOwn
<1>1. SerialInv => ReadsAreOwn
  <2>. SUFFICES ASSUME SerialInv, ~ failed, NEW k \in 1 .. Len(got), NEW m \in DOMAIN got[k].members,
                       Comparable(m, written[k].members[m])
                PROVE  got[k].members[m] \in {written[k].members[m], Field(m).blank}
    BY DEF ReadsAreOwn
  <2>1. Restoring(got[k], written[k], << >>, version) /\ written[k] \in Objects
    BY GotHas
  <2>2. m \in ToSet(Aggregate[written[k].class])
    BY <2>1 DEF Restoring, Images
  <2>3. got[k].members[m] \in {Field(m).blank, AsPut(m, written[k].members[m])}
    BY <2>1, <2>2 DEF Restoring
  <2>4. AsPut(m, written[k].members[m]) = written[k].members[m]
    BY <2>1, <2>2, ComparableIsPut
  <2>. QED BY <2>3, <2>4
<1>. QED BY <1>1, InitReads, SerialKeeps, PTL DEF Spec

(* None of the properties the version includes is left out, but for the    *)
(* two exceptions: whatever classes and values there are, an object comes  *)
(* back as it was put.                                                     *)
THEOREM RestoredTheorem == Spec => []ObjectsRestored
<1>1. SerialInv => ObjectsRestored
  <2>. SUFFICES ASSUME SerialInv, ~ failed, NEW k \in 1 .. Len(got), NEW m \in DOMAIN got[k].members,
                       Field(m).property, Field(m).since <= version,
                       ~ Hidden(got[k].class, m), ~ Inherited(got[k].class, m),
                       Comparable(m, written[k].members[m])
                PROVE  got[k].members[m] = written[k].members[m]
    BY DEF ObjectsRestored
  <2>1. Restoring(got[k], written[k], << >>, version) /\ written[k] \in Objects
    BY GotHas
  <2>. DEFINE c == written[k].class
  <2>2. m \in ToSet(Aggregate[c]) /\ got[k].class = c
    BY <2>1 DEF Restoring, Images
  <2>3. c \in Classes /\ Len(Bases[c]) <= 1
    BY <2>1, ObjectHas
  <2>. HIDE DEF c
  <2>4. PICK p \in ToSet(Properties(c, version)) : FindType(c, p.name) = m
    BY <2>2, <2>3, MemberIsListed
  <2>5. p \notin ToSet(<< >>)
    BY DEF ToSet
  <2>6. got[k].members[m] = AsPut(m, written[k].members[m])
    BY <2>1, <2>4, <2>5 DEF Restoring, c
  <2>7. AsPut(m, written[k].members[m]) = written[k].members[m]
    BY <2>1, <2>2, ComparableIsPut DEF c
  <2>. QED BY <2>6, <2>7
<1>. QED BY <1>1, InitReads, SerialKeeps, PTL DEF Spec
=============================================================================
