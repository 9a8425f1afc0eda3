---------------------------- MODULE FilterLemmas ----------------------------
(***************************************************************************)
(* What the operators of Filters return, for the proofs of the modules     *)
(* that filter, map, add up or sort queues and histories.                  *)
(***************************************************************************)
EXTENDS Filters, TLAPS, WellFoundedInduction, FiniteSetTheorems

(* A set of naturals that is not empty has a least element. *)
LEMMA LeastElement ==
  ASSUME NEW S \in SUBSET Nat, S # {}
  PROVE  \E x \in S : \A y \in S : x <= y
<1>1. PICK x \in S : \A y \in S : ~ (<<y, x>> \in OpToRel(<, Nat))
  BY NatLessThanWellFounded, WFMin, Zenon
<1>2. \A y \in S : x <= y
  <2>1. TAKE y \in S
  <2>2. y \in Nat /\ x \in Nat
    OBVIOUS
  <2>3. ~ (y < x)
    BY <1>1, <2>2 DEF OpToRel
  <2>4. QED  BY <2>2, <2>3
<1>3. QED  BY <1>2

(* f gives, for every k up to m, what is kept of the first k elements. *)
Kept(f, s, S, m) ==
  f = [k \in 0..m |-> IF k = 0 THEN <<>>
                      ELSE IF s[k] \in S THEN Append(f[k - 1], s[k])
                      ELSE f[k - 1]]

LEMMA KeepIs ==
  ASSUME NEW s, NEW S
  PROVE  Keep(s, S) = (CHOOSE f : Kept(f, s, S, Len(s)))[Len(s)]
BY Zenon DEF Keep, Kept

(* One step of the recursion. *)
LEMMA KeptAt ==
  ASSUME NEW f, NEW s, NEW S, NEW m \in Nat, Kept(f, s, S, m)
  PROVE  /\ f[0] = <<>>
         /\ \A k \in 1..m : f[k] = IF s[k] \in S THEN Append(f[k - 1], s[k]) ELSE f[k - 1]
<1>1. \A k \in 0..m : f[k] = IF k = 0 THEN <<>>
                             ELSE IF s[k] \in S THEN Append(f[k - 1], s[k])
                             ELSE f[k - 1]
  BY DEF Kept
<1>2. 0 \in 0..m /\ \A k \in 1..m : k \in 0..m /\ k # 0
  OBVIOUS
<1>3. QED  BY <1>1, <1>2

LEMMA KeptExists ==
  ASSUME NEW s, NEW S, NEW m \in Nat
  PROVE  \E f : Kept(f, s, S, m)
<1> DEFINE Bad == {q \in Nat : ~ \E f : Kept(f, s, S, q)}
<1>1. SUFFICES ASSUME Bad # {} PROVE FALSE
  OBVIOUS
<1>2. PICK q \in Bad : \A y \in Bad : q <= y
  <2>1. Bad \in SUBSET Nat
    OBVIOUS
  <2>2. QED  BY <1>1, <2>1, LeastElement
<1>3. q \in Nat /\ ~ \E f : Kept(f, s, S, q)
  OBVIOUS
<1>4. CASE q = 0
  <2> DEFINE f == [k \in 0..0 |-> <<>>]
  <2>1. Kept(f, s, S, 0)
    BY DEF Kept
  <2>2. QED  BY <1>3, <1>4, <2>1
<1>5. CASE q # 0
  <2>1. q - 1 \in Nat /\ ~ (q <= q - 1)
    BY <1>3, <1>5
  <2>2. q - 1 \notin Bad
    <3> HIDE DEF Bad
    <3>1. QED  BY <1>2, <2>1
  <2>3. PICK f : Kept(f, s, S, q - 1)
    BY <2>1, <2>2
  <2> DEFINE g == [k \in 0..q |->
                     IF k = q THEN IF s[q] \in S THEN Append(f[q - 1], s[q]) ELSE f[q - 1]
                     ELSE f[k]]
  <2>4. /\ f[0] = <<>>
        /\ \A k \in 1..(q - 1) : f[k] = IF s[k] \in S THEN Append(f[k - 1], s[k]) ELSE f[k - 1]
    BY <2>1, <2>3, KeptAt
  <2>5. \A k \in 0..(q - 1) : g[k] = f[k]
    BY <1>3
  <2>6. g[q] = IF s[q] \in S THEN Append(f[q - 1], s[q]) ELSE f[q - 1]
    BY <1>3
  <2>7. g[0] = <<>>
    BY <1>3, <1>5, <2>1, <2>4, <2>5
  <2>8. ASSUME NEW k \in 1..q
        PROVE  g[k] = IF s[k] \in S THEN Append(g[k - 1], s[k]) ELSE g[k - 1]
    <3>1. k - 1 \in 0..(q - 1) /\ g[k - 1] = f[k - 1]
      BY <1>3, <2>5
    <3>2. CASE k = q
      BY <2>6, <3>1, <3>2
    <3>3. CASE k # q
      <4>1. k \in 1..(q - 1) /\ k \in 0..(q - 1)
        BY <1>3, <3>3
      <4>2. QED  BY <2>4, <2>5, <3>1, <4>1
    <3>4. QED  BY <3>2, <3>3
  <2>9. g = [k \in 0..q |-> g[k]]
    OBVIOUS
  <2> HIDE DEF g
  <2>10. \A k \in 0..q : g[k] = IF k = 0 THEN <<>>
                               ELSE IF s[k] \in S THEN Append(g[k - 1], s[k])
                               ELSE g[k - 1]
    BY <1>3, <2>7, <2>8
  <2>11. Kept(g, s, S, q)
    BY <2>9, <2>10 DEF Kept
  <2>12. QED  BY <1>3, <2>11
<1>6. QED  BY <1>4, <1>5

(* What is kept of a prefix depends on that prefix only. *)
LEMMA KeptUnique ==
  ASSUME NEW S, NEW s, NEW t, NEW q \in Nat, NEW p \in Nat, q <= p,
         NEW f, Kept(f, s, S, q), NEW g, Kept(g, t, S, p),
         \A k \in 1..q : s[k] = t[k]
  PROVE  f[q] = g[q]
<1> DEFINE Bad == {k \in 0..q : f[k] # g[k]}
<1>1. SUFFICES ASSUME Bad # {} PROVE FALSE
  OBVIOUS
<1>2. PICK k \in Bad : \A y \in Bad : k <= y
  <2>1. Bad \in SUBSET Nat
    OBVIOUS
  <2>2. QED  BY <1>1, <2>1, LeastElement
<1>3. k \in 0..q /\ f[k] # g[k]
  OBVIOUS
<1>4. k # 0
  BY <1>3, KeptAt
<1>5. k - 1 \in 0..q /\ ~ (k <= k - 1) /\ k \in 1..q /\ k \in 1..p
  BY <1>3, <1>4
<1>6. f[k - 1] = g[k - 1]
  <2>1. k - 1 \notin Bad
    <3> HIDE DEF Bad
    <3>1. QED  BY <1>2, <1>5
  <2>2. QED  BY <1>5, <2>1
<1>7. /\ f[k] = IF s[k] \in S THEN Append(f[k - 1], s[k]) ELSE f[k - 1]
      /\ g[k] = IF t[k] \in S THEN Append(g[k - 1], t[k]) ELSE g[k - 1]
  BY <1>5, KeptAt
<1>8. QED  BY <1>3, <1>5, <1>6, <1>7

LEMMA KeepPick ==
  ASSUME NEW T, NEW s \in Seq(T), NEW S
  PROVE  \E f : Kept(f, s, S, Len(s)) /\ Keep(s, S) = f[Len(s)]
<1>1. Len(s) \in Nat
  OBVIOUS
<1>2. \E f : Kept(f, s, S, Len(s))
  BY <1>1, KeptExists
<1> DEFINE f == CHOOSE f : Kept(f, s, S, Len(s))
<1>3. Kept(f, s, S, Len(s))
  BY <1>2
<1>4. QED  BY <1>3, KeepIs

-----------------------------------------------------------------------------
(* Nothing is kept of nothing. *)
LEMMA KeepEmpty ==
  ASSUME NEW S
  PROVE  Keep(<<>>, S) = <<>>
<1>1. <<>> \in Seq({}) /\ Len(<<>>) = 0
  OBVIOUS
<1>2. PICK f : Kept(f, <<>>, S, 0) /\ Keep(<<>>, S) = f[0]
  BY <1>1, KeepPick
<1>3. QED  BY <1>2, KeptAt

(* The last element is kept or not, after what is kept before it. *)
LEMMA KeepAppend ==
  ASSUME NEW T, NEW s \in Seq(T), NEW e \in T, NEW S
  PROVE  Keep(Append(s, e), S) = IF e \in S THEN Append(Keep(s, S), e) ELSE Keep(s, S)
<1> DEFINE t == Append(s, e)
<1>1. /\ t \in Seq(T) /\ Len(s) \in Nat /\ Len(t) = Len(s) + 1 /\ t[Len(s) + 1] = e
      /\ \A k \in 1..Len(s) : s[k] = t[k]
  OBVIOUS
<1> HIDE DEF t
<1>2. PICK f : Kept(f, s, S, Len(s)) /\ Keep(s, S) = f[Len(s)]
  BY KeepPick
<1>3. PICK g : Kept(g, t, S, Len(t)) /\ Keep(t, S) = g[Len(t)]
  BY <1>1, KeepPick
<1>4. f[Len(s)] = g[Len(s)]
  <2>1. Len(s) \in Nat /\ Len(t) \in Nat /\ Len(s) <= Len(t)
    BY <1>1
  <2>2. Kept(f, s, S, Len(s)) /\ Kept(g, t, S, Len(t))
    BY <1>2, <1>3
  <2>3. \A k \in 1..Len(s) : s[k] = t[k]
    BY <1>1
  <2>4. QED  BY <2>1, <2>2, <2>3, KeptUnique
<1>5. g[Len(t)] = IF e \in S THEN Append(g[Len(s)], e) ELSE g[Len(s)]
  <2>1. /\ Len(t) \in Nat /\ Len(t) \in 1..Len(t) /\ Len(t) - 1 = Len(s)
        /\ t[Len(t)] = e
    BY <1>1
  <2>2. QED  BY <1>3, <2>1, KeptAt
<1>6. QED  BY <1>2, <1>3, <1>4, <1>5 DEF t

(* What is kept are elements of the sequence and of the set. *)
LEMMA KeepTyped ==
  ASSUME NEW T, NEW s \in Seq(T), NEW S
  PROVE  Keep(s, S) \in Seq(T \cap S)
<1> DEFINE U == T \cap S
<1>1. Len(s) \in Nat /\ \A k \in 1..Len(s) : s[k] \in T
  OBVIOUS
<1>2. PICK f : Kept(f, s, S, Len(s)) /\ Keep(s, S) = f[Len(s)]
  BY KeepPick
<1> DEFINE Bad == {k \in 0..Len(s) : f[k] \notin Seq(U)}
<1>3. SUFFICES ASSUME Bad # {} PROVE FALSE
  BY <1>1, <1>2
<1>4. PICK k \in Bad : \A y \in Bad : k <= y
  <2>1. Bad \in SUBSET Nat
    BY <1>1
  <2>2. QED  BY <1>3, <2>1, LeastElement
<1>5. k \in 0..Len(s) /\ f[k] \notin Seq(U)
  OBVIOUS
<1>6. k # 0
  <2>1. f[0] = <<>>
    BY <1>1, <1>2, KeptAt
  <2>2. <<>> \in Seq(U)
    OBVIOUS
  <2>3. QED  BY <1>5, <2>1, <2>2
<1>7. k - 1 \in 0..Len(s) /\ ~ (k <= k - 1) /\ k \in 1..Len(s)
  BY <1>1, <1>5, <1>6
<1>8. f[k - 1] \in Seq(U)
  <2>1. k - 1 \notin Bad
    <3> HIDE DEF Bad
    <3>1. QED  BY <1>4, <1>7
  <2>2. QED  BY <1>7, <2>1
<1>9. f[k] = IF s[k] \in S THEN Append(f[k - 1], s[k]) ELSE f[k - 1]
  BY <1>1, <1>2, <1>7, KeptAt
<1>10. s[k] \in S => s[k] \in U
  BY <1>1, <1>7
<1> HIDE DEF U
<1>11. QED  BY <1>5, <1>8, <1>9, <1>10

(* g tells of every element of w where it is among the first m of s, and   *)
(* w leaves none of S out.                                                  *)
PlacesOf(g, w, s, S, m) ==
  /\ g \in [1..Len(w) -> 1..m]
  /\ \A i \in 1..Len(w) : w[i] = s[g[i]] /\ s[g[i]] \in S
  /\ \A i, k \in 1..Len(w) : g[i] = g[k] => i = k
  /\ \A k \in 1..m : s[k] \in S => \E i \in 1..Len(w) : g[i] = k

LEMMA PlacesNext ==
  ASSUME NEW T, NEW s, NEW S, NEW m \in Nat \ {0}, s[m] \in T, NEW w \in Seq(T),
         NEW g, PlacesOf(g, w, s, S, m - 1),
         NEW v, v = IF s[m] \in S THEN Append(w, s[m]) ELSE w
  PROVE  \E h : PlacesOf(h, v, s, S, m)
<1>1. /\ m - 1 \in Nat /\ Len(w) \in Nat /\ m \in 1..m
      /\ \A k \in 1..m : k \in 1..(m - 1) \/ k = m
      /\ \A k \in 1..(m - 1) : k \in 1..m /\ k # m
  OBVIOUS
<1>2. CASE s[m] \notin S
  <2>1. v = w
    BY <1>2
  <2>2. PlacesOf(g, w, s, S, m)
    BY <1>1, <1>2 DEF PlacesOf
  <2>3. QED  BY <2>1, <2>2
<1>3. CASE s[m] \in S
  <2> DEFINE n == Len(w) + 1
  <2> DEFINE h == [i \in 1..n |-> IF i = n THEN m ELSE g[i]]
  <2>1. /\ v \in Seq(T) /\ Len(v) = n /\ v[n] = s[m] /\ \A i \in 1..Len(w) : v[i] = w[i]
    BY <1>3
  <2>2. /\ \A i \in 1..n : i \in 1..Len(w) \/ i = n
        /\ \A i \in 1..Len(w) : i \in 1..n /\ i # n
        /\ n \in 1..n
    BY <1>1
  <2>3. /\ h[n] = m /\ \A i \in 1..Len(w) : h[i] = g[i] /\ g[i] \in 1..(m - 1)
    BY <2>2 DEF PlacesOf
  <2>4. h \in [1..n -> 1..m]
    BY <1>1, <2>2, <2>3
  <2> HIDE DEF h, n
  <2>5. \A i \in 1..n : v[i] = s[h[i]] /\ s[h[i]] \in S
    BY <1>3, <2>1, <2>2, <2>3 DEF PlacesOf
  <2>6. \A i, k \in 1..n : h[i] = h[k] => i = k
    BY <1>1, <2>2, <2>3 DEF PlacesOf
  <2>7. \A k \in 1..m : s[k] \in S => \E i \in 1..n : h[i] = k
    BY <1>1, <2>2, <2>3 DEF PlacesOf
  <2>8. PlacesOf(h, v, s, S, m)
    BY <2>1, <2>4, <2>5, <2>6, <2>7 DEF PlacesOf
  <2>9. QED  BY <2>8
<1>4. QED  BY <1>2, <1>3

(* What is kept is the elements of the set, one for each of their places.  *)
LEMMA KeepPlaces ==
  ASSUME NEW T, NEW s \in Seq(T), NEW S
  PROVE  \E g : PlacesOf(g, Keep(s, S), s, S, Len(s))
<1>1. Len(s) \in Nat /\ \A k \in 1..Len(s) : s[k] \in T
  OBVIOUS
<1>2. PICK f : Kept(f, s, S, Len(s)) /\ Keep(s, S) = f[Len(s)]
  BY KeepPick
<1> DEFINE Good(m) == f[m] \in Seq(T) /\ \E g : PlacesOf(g, f[m], s, S, m)
<1> DEFINE Bad == {m \in 0..Len(s) : ~Good(m)}
<1>3. SUFFICES ASSUME Bad # {} PROVE FALSE
  <2>1. Len(s) \notin Bad => Good(Len(s))
    BY <1>1
  <2>2. QED  BY <1>2, <2>1
<1>4. PICK m \in Bad : \A y \in Bad : m <= y
  <2>1. Bad \in SUBSET Nat
    BY <1>1
  <2>2. QED  BY <1>3, <2>1, LeastElement
<1>5. m \in 0..Len(s) /\ ~Good(m)
  OBVIOUS
<1>6. m # 0
  <2>1. f[0] = <<>> /\ <<>> \in Seq(T) /\ Len(<<>>) = 0 /\ 1..0 = {}
    BY <1>1, <1>2, KeptAt
  <2>2. PlacesOf(<<>>, <<>>, s, S, 0)
    BY <2>1 DEF PlacesOf
  <2>3. QED  BY <1>5, <2>1, <2>2
<1>7. m - 1 \in 0..Len(s) /\ ~ (m <= m - 1) /\ m \in 1..Len(s) /\ m \in Nat \ {0}
  BY <1>1, <1>5, <1>6
<1>8. Good(m - 1)
  <2>1. m - 1 \notin Bad
    <3> HIDE DEF Bad
    <3>1. QED  BY <1>4, <1>7
  <2>2. QED  BY <1>7, <2>1
<1>9. PICK w : w = f[m - 1]
  OBVIOUS
<1>10. PICK v : v = f[m]
  OBVIOUS
<1>11. v = IF s[m] \in S THEN Append(w, s[m]) ELSE w
  BY <1>1, <1>2, <1>7, <1>9, <1>10, KeptAt
<1>12. PICK g : PlacesOf(g, w, s, S, m - 1)
  BY <1>8, <1>9
<1>13. w \in Seq(T) /\ s[m] \in T
  BY <1>1, <1>7, <1>8, <1>9
<1>14. v \in Seq(T)
  BY <1>11, <1>13
<1>15. \E h : PlacesOf(h, v, s, S, m)
  BY <1>7, <1>11, <1>12, <1>13, PlacesNext
<1>16. QED  BY <1>5, <1>10, <1>14, <1>15

(* Nothing is kept twice of a sequence that has no element twice. *)
LEMMA KeepDistinct ==
  ASSUME NEW T, NEW s \in Seq(T), NEW S, \A i, k \in 1..Len(s) : s[i] = s[k] => i = k
  PROVE  \A i, k \in 1..Len(Keep(s, S)) : Keep(s, S)[i] = Keep(s, S)[k] => i = k
<1>1. PICK w : w = Keep(s, S)
  OBVIOUS
<1>2. PICK g : PlacesOf(g, w, s, S, Len(s))
  BY <1>1, KeepPlaces
<1>3. \A i, k \in 1..Len(w) : w[i] = w[k] => i = k
  BY <1>2 DEF PlacesOf
<1>4. QED  BY <1>1, <1>3

(* As many are kept as there are places with an element of the set. *)
LEMMA KeepLen ==
  ASSUME NEW T, NEW s \in Seq(T), NEW S
  PROVE  LET M == {k \in 1..Len(s) : s[k] \in S} IN
         IsFiniteSet(M) /\ Len(Keep(s, S)) = Cardinality(M)
<1> DEFINE M == {k \in 1..Len(s) : s[k] \in S}
<1>1. PICK w : w = Keep(s, S)
  OBVIOUS
<1>2. PICK g : PlacesOf(g, w, s, S, Len(s))
  BY <1>1, KeepPlaces
<1>3. Len(w) \in Nat
  <2>1. w \in Seq(T \cap S)
    BY <1>1, KeepTyped
  <2>2. QED  BY <2>1
<1>4. g \in Bijection(1..Len(w), M)
  BY <1>2 DEF PlacesOf, Bijection, Injection, Surjection, IsInjective
<1> HIDE DEF M
<1>5. IsFiniteSet(1..Len(w)) /\ Cardinality(1..Len(w)) = Len(w)
  <2>1. PICK n : n = Len(w)
    OBVIOUS
  <2>2. n \in Nat /\ 1 \in Int /\ n \in Int
    BY <1>3, <2>1
  <2>3. IsFiniteSet(1..n) /\ Cardinality(1..n) = n
    BY <2>2, FS_Interval
  <2>4. QED  BY <2>1, <2>3
<1>6. IsFiniteSet(M) /\ Cardinality(M) = Len(w)
  <2>1. ExistsBijection(1..Len(w), M)
    BY <1>4 DEF ExistsBijection
  <2>2. QED  BY <1>5, <2>1, FS_Bijection
<1>7. QED  BY <1>1, <1>6 DEF M

LEMMA PrefixOfSeq ==
  ASSUME NEW T, NEW s \in Seq(T), NEW m \in 0..Len(s)
  PROVE  /\ m \in Nat /\ SubSeq(s, 1, m) \in Seq(T) /\ Len(SubSeq(s, 1, m)) = m
         /\ \A k \in 1..m : SubSeq(s, 1, m)[k] = s[k]
<1>1. Len(s) \in Nat /\ m \in Nat /\ m <= Len(s)
  OBVIOUS
<1>2. \A k \in 1..m : k \in 1..Len(s)
  BY <1>1
<1>3. QED  BY <1>1, <1>2

(* The first elements kept are those of a prefix, and the next one of the  *)
(* sequence that is in the set follows them.                                *)
LEMMA KeepNext ==
  ASSUME NEW T, NEW s \in Seq(T), NEW S, NEW k \in Nat, k < Len(s), s[k + 1] \in S
  PROVE  LET p == Keep(SubSeq(s, 1, k), S) IN
         /\ Len(p) < Len(Keep(s, S))
         /\ Keep(s, S)[Len(p) + 1] = s[k + 1]
<1> DEFINE p == Keep(SubSeq(s, 1, k), S)
<1> DEFINE e == s[k + 1]
<1>1. PICK f : Kept(f, s, S, Len(s)) /\ Keep(s, S) = f[Len(s)]
  BY KeepPick
<1>2. Len(s) \in Nat /\ e \in T
  OBVIOUS
<1>3. ASSUME NEW m \in 0..Len(s)
      PROVE  f[m] = Keep(SubSeq(s, 1, m), S) /\ f[m] \in Seq(T)
  <2> DEFINE t == SubSeq(s, 1, m)
  <2>1. t \in Seq(T) /\ Len(t) = m /\ m \in Nat /\ m <= Len(s) /\ \A j \in 1..m : t[j] = s[j]
    BY <1>2, PrefixOfSeq
  <2> HIDE DEF t
  <2>2. PICK g : Kept(g, t, S, m) /\ Keep(t, S) = g[m]
    BY <2>1, KeepPick
  <2>3. g[m] = f[m]
    BY <1>1, <1>2, <2>1, <2>2, KeptUnique
  <2>4. Keep(t, S) \in Seq(T \cap S)
    BY <2>1, KeepTyped
  <2>5. Keep(t, S) \in Seq(T)
    BY <2>4
  <2>6. QED  BY <2>2, <2>3, <2>5 DEF t
<1>4. \A m \in 1..Len(s) : f[m] = IF s[m] \in S THEN Append(f[m - 1], s[m]) ELSE f[m - 1]
  BY <1>1, <1>2, KeptAt
<1>5. p = f[k] /\ p \in Seq(T) /\ f[k + 1] = Append(p, e)
  <2>1. k \in 0..Len(s) /\ k + 1 \in 1..Len(s) /\ (k + 1) - 1 = k
    BY <1>2
  <2>2. QED  BY <1>3, <1>4, <2>1
<1> HIDE DEF p, e
<1> DEFINE Bad == {m \in 0..Len(s) : k < m /\ ~(Len(p) < Len(f[m]) /\ f[m][Len(p) + 1] = e)}
<1>6. SUFFICES ASSUME Bad # {} PROVE FALSE
  <2>1. Len(s) \in 0..Len(s) /\ k < Len(s)
    BY <1>2
  <2>2. QED  BY <1>1, <2>1 DEF p, e
<1>7. PICK m \in Bad : \A y \in Bad : m <= y
  <2>1. Bad \in SUBSET Nat
    BY <1>2
  <2>2. QED  BY <1>6, <2>1, LeastElement
<1>8. m \in 1..Len(s) /\ k < m /\ ~(Len(p) < Len(f[m]) /\ f[m][Len(p) + 1] = e)
  OBVIOUS
<1>9. m # k + 1
  <2>1. Len(Append(p, e)) = Len(p) + 1 /\ Append(p, e)[Len(p) + 1] = e /\ Len(p) \in Nat
    BY <1>2, <1>5
  <2>2. QED  BY <1>5, <1>8, <2>1
<1>10. m - 1 \in 0..Len(s) /\ k < m - 1 /\ ~(m <= m - 1)
  BY <1>2, <1>8, <1>9
<1>11. Len(p) < Len(f[m - 1]) /\ f[m - 1][Len(p) + 1] = e
  <2>1. m - 1 \notin Bad
    <3> HIDE DEF Bad
    <3>1. QED  BY <1>7, <1>10
  <2>2. QED  BY <1>10, <2>1
<1>12. f[m - 1] \in Seq(T) /\ Len(f[m - 1]) \in Nat /\ Len(p) \in Nat /\ s[m] \in T
  BY <1>2, <1>3, <1>5, <1>8, <1>10
<1>13. Append(f[m - 1], s[m])[Len(p) + 1] = f[m - 1][Len(p) + 1]
       /\ Len(Append(f[m - 1], s[m])) = Len(f[m - 1]) + 1
  BY <1>11, <1>12
<1>14. f[m] = Append(f[m - 1], s[m]) \/ f[m] = f[m - 1]
  BY <1>4, <1>8
<1>15. Len(p) < Len(f[m]) /\ f[m][Len(p) + 1] = e
  BY <1>11, <1>12, <1>13, <1>14
<1>16. QED  BY <1>8, <1>15

-----------------------------------------------------------------------------
(* Left unexpanded where the contents do not matter. *)
Joined(s, t) == s \o t

(* f gives, for every k up to m, what F makes of the first k elements. *)
Flats(f, s, F, m) ==
  f = [k \in 0..m |-> IF k = 0 THEN <<>> ELSE Joined(f[k - 1], F[s[k]])]

LEMMA FlatIs ==
  ASSUME NEW s, NEW F
  PROVE  Flat(s, F) = (CHOOSE f : Flats(f, s, F, Len(s)))[Len(s)]
BY Zenon DEF Flat, Flats, Joined

LEMMA FlatsAt ==
  ASSUME NEW f, NEW s, NEW F, NEW m \in Nat, Flats(f, s, F, m)
  PROVE  /\ f[0] = <<>>
         /\ \A k \in 1..m : f[k] = Joined(f[k - 1], F[s[k]])
<1>1. \A k \in 0..m : f[k] = IF k = 0 THEN <<>> ELSE Joined(f[k - 1], F[s[k]])
  BY DEF Flats
<1>2. 0 \in 0..m /\ \A k \in 1..m : k \in 0..m /\ k # 0
  OBVIOUS
<1>3. QED  BY <1>1, <1>2

LEMMA FlatsExists ==
  ASSUME NEW s, NEW F, NEW m \in Nat
  PROVE  \E f : Flats(f, s, F, m)
<1> DEFINE Bad == {q \in Nat : ~ \E f : Flats(f, s, F, q)}
<1>1. SUFFICES ASSUME Bad # {} PROVE FALSE
  OBVIOUS
<1>2. PICK q \in Bad : \A y \in Bad : q <= y
  <2>1. Bad \in SUBSET Nat
    OBVIOUS
  <2>2. QED  BY <1>1, <2>1, LeastElement
<1>3. q \in Nat /\ ~ \E f : Flats(f, s, F, q)
  OBVIOUS
<1>4. CASE q = 0
  <2> DEFINE f == [k \in 0..0 |-> <<>>]
  <2>1. Flats(f, s, F, 0)
    BY DEF Flats
  <2>2. QED  BY <1>3, <1>4, <2>1
<1>5. CASE q # 0
  <2>1. q - 1 \in Nat /\ ~ (q <= q - 1)
    BY <1>3, <1>5
  <2>2. q - 1 \notin Bad
    <3> HIDE DEF Bad
    <3>1. QED  BY <1>2, <2>1
  <2>3. PICK f : Flats(f, s, F, q - 1)
    BY <2>1, <2>2
  <2> DEFINE last == Joined(f[q - 1], F[s[q]])
  <2> DEFINE g == [k \in 0..q |-> IF k = q THEN last ELSE f[k]]
  <2>4. f[0] = <<>> /\ \A k \in 1..(q - 1) : f[k] = Joined(f[k - 1], F[s[k]])
    BY <2>1, <2>3, FlatsAt
  <2>5. \A k \in 0..(q - 1) : g[k] = f[k]
    BY <1>3
  <2>6. g[q] = last
    BY <1>3
  <2>7. g[0] = <<>>
    BY <1>3, <1>5, <2>1, <2>4, <2>5
  <2>8. ASSUME NEW k \in 1..q
        PROVE  g[k] = Joined(g[k - 1], F[s[k]])
    <3>1. k - 1 \in 0..(q - 1) /\ g[k - 1] = f[k - 1]
      BY <1>3, <2>5
    <3>2. CASE k = q
      BY <2>6, <3>1, <3>2
    <3>3. CASE k # q
      <4>1. k \in 1..(q - 1) /\ k \in 0..(q - 1)
        BY <1>3, <3>3
      <4>2. QED  BY <2>4, <2>5, <3>1, <4>1
    <3>4. QED  BY <3>2, <3>3
  <2>9. g = [k \in 0..q |-> g[k]]
    OBVIOUS
  <2> HIDE DEF g
  <2>10. \A k \in 0..q : g[k] = IF k = 0 THEN <<>> ELSE Joined(g[k - 1], F[s[k]])
    BY <1>3, <2>7, <2>8
  <2>11. Flats(g, s, F, q)
    BY <2>9, <2>10 DEF Flats
  <2>12. QED  BY <1>3, <2>11
<1>6. QED  BY <1>4, <1>5

(* What F makes of a prefix depends on that prefix only. *)
LEMMA FlatsUnique ==
  ASSUME NEW F, NEW s, NEW t, NEW q \in Nat, NEW p \in Nat, q <= p,
         NEW f, Flats(f, s, F, q), NEW g, Flats(g, t, F, p),
         \A k \in 1..q : s[k] = t[k]
  PROVE  f[q] = g[q]
<1> DEFINE Bad == {k \in 0..q : f[k] # g[k]}
<1>1. SUFFICES ASSUME Bad # {} PROVE FALSE
  OBVIOUS
<1>2. PICK k \in Bad : \A y \in Bad : k <= y
  <2>1. Bad \in SUBSET Nat
    OBVIOUS
  <2>2. QED  BY <1>1, <2>1, LeastElement
<1>3. k \in 0..q /\ f[k] # g[k]
  OBVIOUS
<1>4. k # 0
  BY <1>3, FlatsAt
<1>5. k - 1 \in 0..q /\ ~ (k <= k - 1) /\ k \in 1..q /\ k \in 1..p
  BY <1>3, <1>4
<1>6. f[k - 1] = g[k - 1]
  <2>1. k - 1 \notin Bad
    <3> HIDE DEF Bad
    <3>1. QED  BY <1>2, <1>5
  <2>2. QED  BY <1>5, <2>1
<1>7. f[k] = Joined(f[k - 1], F[s[k]]) /\ g[k] = Joined(g[k - 1], F[t[k]])
  BY <1>5, FlatsAt
<1>8. QED  BY <1>3, <1>5, <1>6, <1>7

LEMMA FlatPick ==
  ASSUME NEW T, NEW s \in Seq(T), NEW F
  PROVE  \E f : Flats(f, s, F, Len(s)) /\ Flat(s, F) = f[Len(s)]
<1>1. Len(s) \in Nat
  OBVIOUS
<1>2. \E f : Flats(f, s, F, Len(s))
  BY <1>1, FlatsExists
<1> DEFINE f == CHOOSE f : Flats(f, s, F, Len(s))
<1>3. Flats(f, s, F, Len(s))
  BY <1>2
<1>4. QED  BY <1>3, FlatIs

(* F makes nothing of nothing. *)
LEMMA FlatEmpty ==
  ASSUME NEW F
  PROVE  Flat(<<>>, F) = <<>>
<1>1. <<>> \in Seq({}) /\ Len(<<>>) = 0
  OBVIOUS
<1>2. PICK f : Flats(f, <<>>, F, 0) /\ Flat(<<>>, F) = f[0]
  BY <1>1, FlatPick
<1>3. QED  BY <1>2, FlatsAt

(* What F makes of the last element comes last. *)
LEMMA FlatAppend ==
  ASSUME NEW T, NEW s \in Seq(T), NEW e \in T, NEW F
  PROVE  Flat(Append(s, e), F) = Flat(s, F) \o F[e]
<1> DEFINE t == Append(s, e)
<1>1. /\ t \in Seq(T) /\ Len(s) \in Nat /\ Len(t) = Len(s) + 1 /\ t[Len(s) + 1] = e
      /\ \A k \in 1..Len(s) : s[k] = t[k]
  OBVIOUS
<1> HIDE DEF t
<1>2. PICK f : Flats(f, s, F, Len(s)) /\ Flat(s, F) = f[Len(s)]
  BY FlatPick
<1>3. PICK g : Flats(g, t, F, Len(t)) /\ Flat(t, F) = g[Len(t)]
  BY <1>1, FlatPick
<1>4. f[Len(s)] = g[Len(s)]
  <2>1. Len(s) \in Nat /\ Len(t) \in Nat /\ Len(s) <= Len(t)
    BY <1>1
  <2>2. Flats(f, s, F, Len(s)) /\ Flats(g, t, F, Len(t))
    BY <1>2, <1>3
  <2>3. \A k \in 1..Len(s) : s[k] = t[k]
    BY <1>1
  <2>4. QED  BY <2>1, <2>2, <2>3, FlatsUnique
<1>5. g[Len(t)] = Joined(g[Len(s)], F[e])
  <2>1. /\ Len(t) \in Nat /\ Len(t) \in 1..Len(t) /\ Len(t) - 1 = Len(s)
        /\ t[Len(t)] = e
    BY <1>1
  <2>2. QED  BY <1>3, <2>1, FlatsAt
<1>6. QED  BY <1>2, <1>3, <1>4, <1>5, Zenon DEF t, Joined

LEMMA FlatsTyped ==
  ASSUME NEW T, NEW U, NEW s \in Seq(T), NEW F \in [T -> Seq(U)],
         NEW f, Flats(f, s, F, Len(s))
  PROVE  \A k \in 0..Len(s) : f[k] \in Seq(U)
<1>1. Len(s) \in Nat /\ \A k \in 1..Len(s) : s[k] \in T /\ F[s[k]] \in Seq(U)
  OBVIOUS
<1> DEFINE Bad == {k \in 0..Len(s) : f[k] \notin Seq(U)}
<1>2. SUFFICES ASSUME Bad # {} PROVE FALSE
  OBVIOUS
<1>3. PICK k \in Bad : \A y \in Bad : k <= y
  <2>1. Bad \in SUBSET Nat
    BY <1>1
  <2>2. QED  BY <1>2, <2>1, LeastElement
<1>4. k \in 0..Len(s) /\ f[k] \notin Seq(U)
  OBVIOUS
<1>5. k # 0
  <2>1. f[0] = <<>>
    BY <1>1, FlatsAt
  <2>2. <<>> \in Seq(U)
    OBVIOUS
  <2>3. QED  BY <1>4, <2>1, <2>2
<1>6. k - 1 \in 0..Len(s) /\ ~ (k <= k - 1) /\ k \in 1..Len(s)
  BY <1>1, <1>4, <1>5
<1>7. f[k - 1] \in Seq(U)
  <2>1. k - 1 \notin Bad
    <3> HIDE DEF Bad
    <3>1. QED  BY <1>3, <1>6
  <2>2. QED  BY <1>6, <2>1
<1>8. f[k] = Joined(f[k - 1], F[s[k]])
  BY <1>1, <1>6, FlatsAt
<1>9. QED  BY <1>1, <1>4, <1>6, <1>7, <1>8 DEF Joined

LEMMA FlatTyped ==
  ASSUME NEW T, NEW U, NEW s \in Seq(T), NEW F \in [T -> Seq(U)]
  PROVE  Flat(s, F) \in Seq(U)
<1>1. PICK f : Flats(f, s, F, Len(s)) /\ Flat(s, F) = f[Len(s)]
  BY FlatPick
<1>2. Len(s) \in 0..Len(s)
  OBVIOUS
<1>3. QED  BY <1>1, <1>2, FlatsTyped

(* t starts with s. *)
Begins(s, t) == Len(s) <= Len(t) /\ \A k \in 1..Len(s) : s[k] = t[k]

LEMMA BeginsConcat ==
  ASSUME NEW T, NEW s \in Seq(T), NEW t \in Seq(T)
  PROVE  s \o t \in Seq(T) /\ Begins(s, s \o t)
BY DEF Begins

(* F of a longer sequence starts with F of a shorter one. *)
LEMMA FlatBegins ==
  ASSUME NEW T, NEW U, NEW s \in Seq(T), NEW t \in Seq(T), Begins(s, t), NEW F \in [T -> Seq(U)]
  PROVE  Begins(Flat(s, F), Flat(t, F))
<1>1. PICK f : Flats(f, s, F, Len(s)) /\ Flat(s, F) = f[Len(s)]
  BY FlatPick
<1>2. PICK g : Flats(g, t, F, Len(t)) /\ Flat(t, F) = g[Len(t)]
  BY FlatPick
<1>3. /\ Len(s) \in Nat /\ Len(t) \in Nat /\ Len(s) <= Len(t)
      /\ \A k \in 1..Len(t) : t[k] \in T /\ F[t[k]] \in Seq(U)
  BY DEF Begins
<1>4. f[Len(s)] = g[Len(s)]
  BY <1>1, <1>2, <1>3, FlatsUnique DEF Begins
<1>5. \A k \in 0..Len(t) : g[k] \in Seq(U)
  BY <1>2, FlatsTyped
<1> DEFINE q == Len(s)
<1> DEFINE Bad == {k \in Nat : k >= q /\ k <= Len(t) /\ ~Begins(g[q], g[k])}
<1>6. SUFFICES ASSUME Bad # {} PROVE FALSE
  <2>1. Len(t) \notin Bad
    BY <1>6
  <2>2. QED  BY <1>1, <1>2, <1>3, <1>4, <2>1
<1>7. PICK k \in Bad : \A y \in Bad : k <= y
  <2>1. Bad \in SUBSET Nat
    OBVIOUS
  <2>2. QED  BY <1>6, <2>1, LeastElement
<1>8. k \in Nat /\ k >= q /\ k <= Len(t) /\ ~Begins(g[q], g[k])
  OBVIOUS
<1>9. k # q
  <2>1. q \in 0..Len(t)
    BY <1>3
  <2>2. Begins(g[q], g[q])
    BY <1>5, <2>1 DEF Begins
  <2>3. QED  BY <1>8, <2>2
<1>10. /\ k - 1 \in Nat /\ k - 1 >= q /\ k - 1 <= Len(t) /\ ~(k <= k - 1)
       /\ k \in 1..Len(t) /\ k - 1 \in 0..Len(t) /\ q \in 0..Len(t)
  BY <1>3, <1>8, <1>9
<1>11. Begins(g[q], g[k - 1])
  <2>1. k - 1 \notin Bad
    <3> HIDE DEF Bad
    <3>1. QED  BY <1>7, <1>10
  <2>2. QED  BY <1>10, <2>1
<1>12. g[k] = Joined(g[k - 1], F[t[k]])
  BY <1>2, <1>3, <1>10, FlatsAt
<1>13. Begins(g[k - 1], g[k])
  BY <1>3, <1>5, <1>10, <1>12, BeginsConcat DEF Joined
<1> HIDE DEF q
<1>14. Begins(g[q], g[k])
  <2>1. /\ Len(g[q]) \in Nat /\ Len(g[k - 1]) \in Nat /\ Len(g[k]) \in Nat
    BY <1>5, <1>8, <1>10
  <2>2. QED  BY <1>11, <1>13, <2>1 DEF Begins
<1>15. QED  BY <1>8, <1>14

-----------------------------------------------------------------------------
(* f gives, for every k up to m, the sum of the first k numbers. *)
PartialSums(f, s, m) == f = [k \in 0..m |-> IF k = 0 THEN 0 ELSE f[k - 1] + s[k]]

LEMMA TotalIs ==
  ASSUME NEW s
  PROVE  Total(s) = (CHOOSE f : PartialSums(f, s, Len(s)))[Len(s)]
BY Zenon DEF Total, PartialSums

LEMMA PartialSumsAt ==
  ASSUME NEW f, NEW s, NEW m \in Nat, PartialSums(f, s, m)
  PROVE  /\ f[0] = 0
         /\ \A k \in 1..m : f[k] = f[k - 1] + s[k]
<1>1. \A k \in 0..m : f[k] = IF k = 0 THEN 0 ELSE f[k - 1] + s[k]
  BY DEF PartialSums
<1>2. 0 \in 0..m /\ \A k \in 1..m : k \in 0..m /\ k # 0
  OBVIOUS
<1>3. QED  BY <1>1, <1>2

LEMMA PartialSumsExist ==
  ASSUME NEW s, NEW m \in Nat
  PROVE  \E f : PartialSums(f, s, m)
<1> DEFINE Bad == {q \in Nat : ~ \E f : PartialSums(f, s, q)}
<1>1. SUFFICES ASSUME Bad # {} PROVE FALSE
  OBVIOUS
<1>2. PICK q \in Bad : \A y \in Bad : q <= y
  <2>1. Bad \in SUBSET Nat
    OBVIOUS
  <2>2. QED  BY <1>1, <2>1, LeastElement
<1>3. q \in Nat /\ ~ \E f : PartialSums(f, s, q)
  OBVIOUS
<1>4. CASE q = 0
  <2> DEFINE f == [k \in 0..0 |-> 0]
  <2>1. f = [k \in 0..0 |-> IF k = 0 THEN 0 ELSE f[k - 1] + s[k]]
    OBVIOUS
  <2>2. PartialSums(f, s, 0)
    BY <2>1 DEF PartialSums
  <2>3. QED  BY <1>3, <1>4, <2>2
<1>5. CASE q # 0
  <2>1. q - 1 \in Nat /\ ~ (q <= q - 1)
    BY <1>3, <1>5
  <2>2. q - 1 \notin Bad
    <3> HIDE DEF Bad
    <3>1. QED  BY <1>2, <2>1
  <2>3. \E f : PartialSums(f, s, q - 1)
    BY <2>1, <2>2
  <2>4. PICK f : PartialSums(f, s, q - 1)
    BY <2>3
  <2>5. f[0] = 0 /\ \A k \in 1..(q - 1) : f[k] = f[k - 1] + s[k]
    BY <2>1, <2>4, PartialSumsAt
  <2> DEFINE g == [k \in 0..q |-> IF k = q THEN f[q - 1] + s[q] ELSE f[k]]
  <2>6. g[0] = 0
    BY <1>3, <1>5, <2>5
  <2>7. \A k \in 1..q : g[k] = g[k - 1] + s[k]
    <3>1. ASSUME NEW k \in 1..q
          PROVE  g[k] = g[k - 1] + s[k]
      <4>1. k \in 0..q /\ k - 1 \in 0..q /\ k - 1 # q
        BY <1>3, <3>1
      <4>2. g[k - 1] = f[k - 1]
        BY <4>1
      <4>3. CASE k = q
        BY <4>1, <4>2, <4>3
      <4>4. CASE k # q
        <5>1. k \in 1..(q - 1)
          BY <1>3, <3>1, <4>4
        <5>2. g[k] = f[k] /\ f[k] = f[k - 1] + s[k]
          BY <2>5, <4>1, <4>4, <5>1
        <5>3. QED  BY <4>2, <5>2
      <4>5. QED  BY <4>3, <4>4
    <3>2. QED  BY <3>1
  <2>8. g = [k \in 0..q |-> g[k]]
    OBVIOUS
  <2> HIDE DEF g
  <2>9. \A k \in 0..q : k = 0 \/ k \in 1..q
    BY <1>3
  <2>10. \A k \in 0..q : g[k] = IF k = 0 THEN 0 ELSE g[k - 1] + s[k]
    BY <1>3, <2>6, <2>7, <2>9
  <2>11. g = [k \in 0..q |-> IF k = 0 THEN 0 ELSE g[k - 1] + s[k]]
    BY <2>8, <2>10
  <2>12. PartialSums(g, s, q)
    BY <2>11 DEF PartialSums
  <2>13. QED  BY <1>3, <2>12
<1>6. QED  BY <1>4, <1>5

LEMMA TotalPick ==
  ASSUME NEW s \in Seq(Nat)
  PROVE  \E f : /\ Total(s) = f[Len(s)]
                /\ f[0] = 0
                /\ \A k \in 1..Len(s) : f[k] = f[k - 1] + s[k]
                /\ \A k \in 0..Len(s) : f[k] \in Nat
<1>1. Len(s) \in Nat /\ \A k \in 1..Len(s) : s[k] \in Nat
  OBVIOUS
<1>2. \E f : PartialSums(f, s, Len(s))
  BY <1>1, PartialSumsExist
<1> DEFINE f == CHOOSE f : PartialSums(f, s, Len(s))
<1>3. PartialSums(f, s, Len(s))
  BY <1>2
<1>4. Total(s) = f[Len(s)]
  BY TotalIs
<1> HIDE DEF f
<1>5. f[0] = 0 /\ \A k \in 1..Len(s) : f[k] = f[k - 1] + s[k]
  BY <1>1, <1>3, PartialSumsAt
<1>6. \A k \in 0..Len(s) : f[k] \in Nat
  <2> DEFINE Bad == {k \in 0..Len(s) : f[k] \notin Nat}
  <2>1. SUFFICES ASSUME Bad # {} PROVE FALSE
    OBVIOUS
  <2>2. PICK k \in Bad : \A y \in Bad : k <= y
    <3>1. Bad \in SUBSET Nat
      BY <1>1
    <3>2. QED  BY <2>1, <3>1, LeastElement
  <2>3. k \in 0..Len(s) /\ f[k] \notin Nat
    OBVIOUS
  <2>4. k # 0
    BY <1>5, <2>3
  <2>5. k - 1 \in 0..Len(s) /\ ~ (k <= k - 1) /\ k \in 1..Len(s)
    BY <1>1, <2>3, <2>4
  <2>6. f[k - 1] \in Nat
    <3>1. k - 1 \notin Bad
      <4> HIDE DEF Bad
      <4>1. QED  BY <2>2, <2>5
    <3>2. QED  BY <2>5, <3>1
  <2>7. QED  BY <1>1, <1>5, <2>3, <2>5, <2>6
<1>7. QED  BY <1>4, <1>5, <1>6

LEMMA TotalType ==
  ASSUME NEW s \in Seq(Nat)
  PROVE  Total(s) \in Nat
<1>1. PICK f : Total(s) = f[Len(s)] /\ \A k \in 0..Len(s) : f[k] \in Nat
  BY TotalPick
<1>2. Len(s) \in 0..Len(s)
  OBVIOUS
<1>3. QED  BY <1>1, <1>2

LEMMA TotalEmpty ==
  ASSUME NEW s \in Seq(Nat), Len(s) = 0
  PROVE  Total(s) = 0
BY TotalPick

(* From place d on, f goes on as g does from the start, x above it. *)
Shifted(f, s, g, t, m, d, x) ==
  /\ f[d] = g[0] + x
  /\ \A k \in 0..m : g[k] \in Nat /\ f[k + d] \in Nat
  /\ \A k \in 1..m : s[k + d] = t[k] /\ t[k] \in Nat
  /\ \A k \in 1..m : f[k + d] = f[k + d - 1] + s[k + d] /\ g[k] = g[k - 1] + t[k]

(* PartialSums that start apart by x and go on alike stay apart by x. *)
LEMMA PartialSumsShift ==
  ASSUME NEW m \in Nat, NEW d \in Nat, NEW x \in Nat,
         NEW f, NEW s, NEW g, NEW t, Shifted(f, s, g, t, m, d, x)
  PROVE  f[m + d] = g[m] + x
<1> USE DEF Shifted
<1> DEFINE Bad == {k \in 0..m : f[k + d] # g[k] + x}
<1>1. SUFFICES ASSUME Bad # {} PROVE FALSE
  OBVIOUS
<1>2. PICK k \in Bad : \A y \in Bad : k <= y
  <2>1. Bad \in SUBSET Nat
    OBVIOUS
  <2>2. QED  BY <1>1, <2>1, LeastElement
<1>3. k \in 0..m /\ f[k + d] # g[k] + x
  OBVIOUS
<1>4. k # 0
  BY <1>3
<1>5. k - 1 \in 0..m /\ ~ (k <= k - 1) /\ k \in 1..m /\ k + d - 1 = (k - 1) + d
  BY <1>3, <1>4
<1>6. f[(k - 1) + d] = g[k - 1] + x
  <2>1. k - 1 \notin Bad
    <3> HIDE DEF Bad
    <3>1. QED  BY <1>2, <1>5
  <2>2. QED  BY <1>5, <2>1
<1>7. g[k - 1] \in Nat /\ t[k] \in Nat
  BY <1>5
<1>8. f[k + d] = f[(k - 1) + d] + t[k] /\ g[k] = g[k - 1] + t[k]
  BY <1>5
<1>9. QED  BY <1>3, <1>6, <1>7, <1>8

LEMMA TotalAppend ==
  ASSUME NEW s \in Seq(Nat), NEW x \in Nat
  PROVE  Total(Append(s, x)) = Total(s) + x
<1> DEFINE t == Append(s, x)
<1>1. /\ t \in Seq(Nat) /\ Len(s) \in Nat /\ Len(t) = Len(s) + 1 /\ t[Len(s) + 1] = x
      /\ \A k \in 1..Len(s) : t[k] = s[k] /\ s[k] \in Nat
  OBVIOUS
<1> HIDE DEF t
<1>2. PICK g : /\ Total(s) = g[Len(s)] /\ g[0] = 0
               /\ \A k \in 1..Len(s) : g[k] = g[k - 1] + s[k]
               /\ \A k \in 0..Len(s) : g[k] \in Nat
  BY TotalPick
<1>3. PICK f : /\ Total(t) = f[Len(t)] /\ f[0] = 0
               /\ \A k \in 1..Len(t) : f[k] = f[k - 1] + t[k]
               /\ \A k \in 0..Len(t) : f[k] \in Nat
  BY <1>1, TotalPick
<1>4. f[Len(s) + 0] = g[Len(s)] + 0
  <2>1. f[0] = g[0] + 0
    BY <1>2, <1>3
  <2>2. \A k \in 0..Len(s) : g[k] \in Nat /\ f[k + 0] \in Nat
    BY <1>1, <1>2, <1>3
  <2>3. \A k \in 1..Len(s) : t[k + 0] = s[k] /\ s[k] \in Nat
    BY <1>1
  <2>4. \A k \in 1..Len(s) : f[k + 0] = f[k + 0 - 1] + t[k + 0] /\ g[k] = g[k - 1] + s[k]
    BY <1>1, <1>2, <1>3
  <2>5. Shifted(f, t, g, s, Len(s), 0, 0)
    BY <2>1, <2>2, <2>3, <2>4 DEF Shifted
  <2>6. QED  BY <1>1, <2>5, PartialSumsShift
<1>5. f[Len(s)] = g[Len(s)] /\ g[Len(s)] \in Nat
  BY <1>1, <1>2, <1>4
<1>6. Len(s) + 1 \in 1..Len(t) /\ Len(s) + 1 - 1 = Len(s)
  BY <1>1
<1>7. f[Len(s) + 1] = f[Len(s)] + x
  BY <1>1, <1>3, <1>6
<1>8. QED  BY <1>1, <1>2, <1>3, <1>5, <1>7 DEF t

LEMMA TotalTail ==
  ASSUME NEW s \in Seq(Nat), s # <<>>
  PROVE  Total(s) = Head(s) + Total(Tail(s))
<1> DEFINE t == Tail(s)
<1>1. /\ t \in Seq(Nat) /\ Len(t) \in Nat /\ Len(s) = Len(t) + 1 /\ Head(s) = s[1]
      /\ s[1] \in Nat
      /\ \A k \in 1..Len(t) : s[k + 1] = t[k] /\ t[k] \in Nat
  OBVIOUS
<1> HIDE DEF t
<1>2. PICK g : /\ Total(t) = g[Len(t)] /\ g[0] = 0
               /\ \A k \in 1..Len(t) : g[k] = g[k - 1] + t[k]
               /\ \A k \in 0..Len(t) : g[k] \in Nat
  BY <1>1, TotalPick
<1>3. PICK f : /\ Total(s) = f[Len(s)] /\ f[0] = 0
               /\ \A k \in 1..Len(s) : f[k] = f[k - 1] + s[k]
               /\ \A k \in 0..Len(s) : f[k] \in Nat
  BY TotalPick
<1>4. f[1] = g[0] + s[1]
  <2>1. 1 \in 1..Len(s)
    BY <1>1
  <2>2. QED  BY <1>1, <1>2, <1>3, <2>1
<1>5. \A k \in 1..Len(t) : k + 1 \in 1..Len(s) /\ k + 1 - 1 = k
  BY <1>1
<1>6. \A k \in 0..Len(t) : k + 1 \in 0..Len(s)
  BY <1>1
<1>7. \A k \in 0..Len(t) : g[k] \in Nat /\ f[k + 1] \in Nat
  BY <1>2, <1>3, <1>6
<1>8. \A k \in 1..Len(t) : f[k + 1] = f[k + 1 - 1] + s[k + 1] /\ g[k] = g[k - 1] + t[k]
  BY <1>2, <1>3, <1>5
<1>9. f[Len(t) + 1] = g[Len(t)] + s[1]
  <2>1. Shifted(f, s, g, t, Len(t), 1, s[1])
    BY <1>1, <1>4, <1>7, <1>8 DEF Shifted
  <2>2. QED  BY <1>1, <2>1, PartialSumsShift
<1>10. Len(t) \in 0..Len(t)
  BY <1>1
<1>11. QED  BY <1>1, <1>2, <1>3, <1>9, <1>10 DEF t

-----------------------------------------------------------------------------
(* Ranks: B gives, for every element of a finite set, those before it.     *)
Ranks(S, B) ==
  /\ B \in [S -> SUBSET S]
  /\ \A s \in S : s \notin B[s]
  /\ \A r, s \in S : r \in B[s] => B[r] \subseteq B[s]
  /\ \A r, s \in S : r # s => r \in B[s] \/ s \in B[r]

(* Every place up to the number of elements is taken by one of them.       *)
LEMMA RanksTaken ==
  ASSUME NEW S, IsFiniteSet(S), NEW B, Ranks(S, B)
  PROVE  \A n \in 1..Cardinality(S) : \E s \in S : Cardinality(B[s]) = n - 1
<1> DEFINE N == Cardinality(S)
<1>1. N \in Nat
  BY FS_CardinalityType
<1>2. \A s \in S : IsFiniteSet(B[s]) /\ Cardinality(B[s]) \in Nat
  <2>1. ASSUME NEW s \in S
        PROVE  IsFiniteSet(B[s]) /\ Cardinality(B[s]) \in Nat
    <3>1. B[s] \in SUBSET S
      BY DEF Ranks
    <3>2. IsFiniteSet(B[s])
      BY <3>1, FS_Subset
    <3>3. QED  BY <3>2, FS_CardinalityType
  <2>2. QED  BY <2>1
<1>3. ASSUME NEW X, IsFiniteSet(X), NEW Y \in SUBSET X, Y # X
      PROVE  Cardinality(Y) < Cardinality(X)
  <2>1. /\ IsFiniteSet(Y) /\ Cardinality(Y) <= Cardinality(X)
        /\ Cardinality(X) = Cardinality(Y) => X = Y
    BY <1>3, FS_Subset
  <2>2. Cardinality(X) \in Nat /\ Cardinality(Y) \in Nat
    BY <1>3, <2>1, FS_CardinalityType
  <2>3. QED  BY <1>3, <2>1, <2>2
<1>4. \A s \in S : Cardinality(B[s]) \in 0..(N - 1)
  <2>1. ASSUME NEW s \in S
        PROVE  Cardinality(B[s]) \in 0..(N - 1)
    <3>1. B[s] \in SUBSET S /\ B[s] # S
      BY DEF Ranks
    <3>2. Cardinality(B[s]) < N
      BY <1>3, <3>1
    <3>3. QED  BY <1>1, <1>2, <3>2
  <2>2. QED  BY <2>1
<1>5. \A r, s \in S : r \in B[s] => Cardinality(B[r]) < Cardinality(B[s])
  <2>1. ASSUME NEW r \in S, NEW s \in S, r \in B[s]
        PROVE  Cardinality(B[r]) < Cardinality(B[s])
    <3>1. B[r] \in SUBSET B[s] /\ B[r] # B[s]
      BY <2>1 DEF Ranks
    <3>2. QED  BY <1>2, <1>3, <3>1
  <2>2. QED  BY <2>1
<1> DEFINE c == [s \in S |-> Cardinality(B[s])]
<1>6. c \in Injection(S, 0..(N - 1))
  <2>1. c \in [S -> 0..(N - 1)]
    BY <1>4
  <2>2. ASSUME NEW r \in S, NEW s \in S, c[r] = c[s]
        PROVE  r = s
    <3>1. Cardinality(B[r]) = Cardinality(B[s])
      BY <2>2
    <3>2. r \notin B[s] /\ s \notin B[r]
      BY <1>2, <1>5, <3>1
    <3>3. QED  BY <3>2 DEF Ranks
  <2> HIDE DEF c
  <2>3. QED  BY <2>1, <2>2 DEF Injection, IsInjective
<1>7. IsFiniteSet(0..(N - 1)) /\ Cardinality(0..(N - 1)) = N
  <2>1. 0 \in Int /\ N - 1 \in Int
    BY <1>1
  <2>2. IsFiniteSet(0..(N - 1)) /\ Cardinality(0..(N - 1)) = IF 0 > N - 1 THEN 0 ELSE N - 1 - 0 + 1
    BY <2>1, FS_Interval
  <2>3. QED  BY <1>1, <2>2
<1>8. c \in Surjection(S, 0..(N - 1))
  <2> HIDE DEF c
  <2>1. Cardinality(S) = Cardinality(0..(N - 1)) <=> c \in Surjection(S, 0..(N - 1))
    BY <1>6, <1>7, FS_Injection
  <2>2. QED  BY <1>7, <2>1
<1>9. \A x \in 0..(N - 1) : \E s \in S : c[s] = x
  BY <1>8 DEF Surjection
<1>10. \A n \in 1..N : n - 1 \in 0..(N - 1)
  BY <1>1
<1>11. QED  BY <1>9, <1>10

(* Each element of S is in q once, behind as many others as B says. *)
InSequence(S, B, q) ==
  /\ Cardinality(S) \in Nat
  /\ DOMAIN q = 1..Cardinality(S) /\ q = [k \in 1..Cardinality(S) |-> q[k]]
  /\ \A k \in DOMAIN q : q[k] \in S /\ Cardinality(B[q[k]]) = k - 1
  /\ \A j, k \in DOMAIN q : q[j] = q[k] => j = k
  /\ \A s \in S : \E k \in DOMAIN q : q[k] = s

LEMMA SequencedHolds ==
  ASSUME NEW S, IsFiniteSet(S), NEW B, Ranks(S, B), NEW q, q = Sequenced(S, B)
  PROVE  InSequence(S, B, q)
<1>1. PICK n : n = Cardinality(S)
  OBVIOUS
<1>2. n \in Nat
  BY <1>1, FS_CardinalityType
<1>3. \A k \in 1..n : \E s \in S : Cardinality(B[s]) = k - 1
  BY <1>1, RanksTaken
<1>4. q = [k \in 1..n |-> CHOOSE s \in S : Cardinality(B[s]) = k - 1]
  BY <1>1, Zenon DEF Sequenced
<1>5. \A k \in 1..n : q[k] \in S /\ Cardinality(B[q[k]]) = k - 1
  BY <1>3, <1>4
<1>6. \A j, k \in 1..n : q[j] = q[k] => j = k
  <2>1. ASSUME NEW j \in 1..n, NEW k \in 1..n, q[j] = q[k]
        PROVE  j = k
    <3>1. j - 1 = k - 1
      BY <1>5, <2>1
    <3>2. QED  BY <1>2, <3>1
  <2>2. QED  BY <2>1
<1>7. DOMAIN q = 1..n /\ q = [k \in 1..n |-> q[k]]
  BY <1>4
<1>8. \A s \in S : \E k \in 1..n : q[k] = s
  <2>1. q \in Injection(1..n, S)
    BY <1>5, <1>6, <1>7 DEF Injection, IsInjective
  <2>2. IsFiniteSet(1..n) /\ Cardinality(1..n) = n
    <3>1. 1 \in Int /\ n \in Int
      BY <1>2
    <3>2. IsFiniteSet(1..n) /\ Cardinality(1..n) = IF 1 > n THEN 0 ELSE n - 1 + 1
      BY <3>1, FS_Interval
    <3>3. QED  BY <1>2, <3>2
  <2>3. Cardinality(1..n) = Cardinality(S) <=> q \in Surjection(1..n, S)
    BY <2>1, <2>2, FS_Injection
  <2>4. QED  BY <1>1, <2>2, <2>3 DEF Surjection
<1>9. QED  BY <1>1, <1>2, <1>5, <1>6, <1>7, <1>8 DEF InSequence
=============================================================================
