-------------------------- MODULE Retrieval_proofs -------------------------
(***************************************************************************)
(* Why a context is as long as it may be, whatever is found, and why no    *)
(* stage of Retrieval turns around an order that another one has settled.  *)
(*                                                                         *)
(* Everything rests on two general facts.  A finite set with a strict      *)
(* total order has exactly one sorted sequence: whoever has n - 1 elements *)
(* below stands at place n.  And recursion along 1..n has a result, so     *)
(* that an invariant of one turn of packing is one of the packed context.  *)
(* Both are by the least counterexample, a natural number.                 *)
(***************************************************************************)
EXTENDS Services, Sequences, TLAPS, FiniteSetTheorems, WellFoundedInduction

-----------------------------------------------------------------------------
LEMMA LeastNumber ==
  ASSUME NEW T, T \subseteq Nat, T # {}
  PROVE  \E x \in T : \A y \in T : x <= y
  <1>1. \E x \in T : \A y \in T : <<y, x>> \notin OpToRel(<, Nat)
    BY WFMin, NatLessThanWellFounded
  <1>2. \A x, y \in Nat : y < x => <<y, x>> \in OpToRel(<, Nat)
    BY Zenon DEF OpToRel
  <1>3. PICK x \in T : \A y \in T : <<y, x>> \notin OpToRel(<, Nat)
    BY <1>1
  <1>4. \A y \in T : ~(y < x)
    BY <1>2, <1>3, Zenon
  <1> QED
    BY <1>4

LEMMA UpTo ==
  ASSUME NEW n \in Nat, NEW T, 0 \in T, \A k \in 1..n : k - 1 \in T => k \in T
  PROVE  \A k \in 0..n : k \in T
  <1> DEFINE left == (0..n) \ T
  <1>1. SUFFICES left = {}
    OBVIOUS
  <1>2. SUFFICES ASSUME left # {} PROVE FALSE
    OBVIOUS
  <1>3. PICK x \in left : \A y \in left : x <= y
    <2>1. left \subseteq Nat
      OBVIOUS
    <2> HIDE DEF left
    <2> QED
      BY <1>2, <2>1, LeastNumber
  <1>4. x \in 1..n /\ x - 1 \notin left
    BY <1>3
  <1> QED
    BY <1>3, <1>4

(* Recursion along 1..n has a result, step by step.                        *)
Moves(step, n, X) == \A k \in 1..n : \A x \in X : step[k][x] \in X

Runs(f, step, n, base, X) ==
  f \in [0..n -> X] /\ f[0] = base /\ \A k \in 1..n : f[k] = step[k][f[k - 1]]

LEMMA RecursionWorks ==
  ASSUME NEW n \in Nat, NEW X, NEW base \in X, NEW step, Moves(step, n, X)
  PROVE  \E f : Runs(f, step, n, base, X)
  <1> DEFINE Upto(m) == {f \in [0..m -> X] :
                           f[0] = base /\ \A k \in 1..m : f[k] = step[k][f[k - 1]]}
             T == {m \in 0..n : Upto(m) # {}}
  <1>1. 0 \in T
    <2>1. [k \in 0..0 |-> base] \in Upto(0)
      OBVIOUS
    <2> QED
      BY <2>1
  <1>2. ASSUME NEW m \in 1..n, m - 1 \in T PROVE m \in T
    <2>1. PICK g \in Upto(m - 1) : TRUE
      BY <1>2
    <2> DEFINE f == [k \in 0..m |-> IF k = m THEN step[m][g[m - 1]] ELSE g[k]]
    <2>2. g[m - 1] \in X /\ step[m][g[m - 1]] \in X
      BY <2>1 DEF Moves
    <2>3. f \in [0..m -> X] /\ f[0] = base
      BY <2>1, <2>2
    <2>4. \A k \in 1..m : f[k] = step[k][f[k - 1]]
      BY <2>1
    <2>5. f \in Upto(m)
      BY <2>3, <2>4
    <2> QED
      BY <2>5
  <1>3. n \in T
    <2> HIDE DEF T
    <2>1. \A k \in 0..n : k \in T
      BY <1>1, <1>2, UpTo
    <2> QED
      BY <2>1
  <1> QED
    BY <1>3 DEF Runs

-----------------------------------------------------------------------------
(* A strict total order on U, as a set of pairs; and a sequence sorted by it.*)
Orders(before, U) ==
  /\ \A i \in U : <<i, i>> \notin before
  /\ \A i, j, k \in U : <<i, j>> \in before /\ <<j, k>> \in before => <<i, k>> \in before
  /\ \A i, j \in U : i # j => <<i, j>> \in before \/ <<j, i>> \in before

Below(before, U, i) == {j \in U : <<j, i>> \in before}

Sorts(s, before, U) ==
  /\ s \in [1..Cardinality(U) -> U]
  /\ \A m, n \in 1..Cardinality(U) : m < n => <<s[m], s[n]>> \in before

LEMMA BelowGrows ==
  ASSUME NEW U, IsFiniteSet(U), NEW before, Orders(before, U)
  PROVE  /\ Cardinality(U) \in Nat
         /\ \A i \in U : /\ Cardinality(Below(before, U, i)) \in Nat
                         /\ Cardinality(Below(before, U, i)) < Cardinality(U)
         /\ \A i, j \in U : <<i, j>> \in before =>
              Cardinality(Below(before, U, i)) < Cardinality(Below(before, U, j))
  <1>1. Cardinality(U) \in Nat
    BY FS_CardinalityType
  <1>2. ASSUME NEW i \in U
        PROVE  /\ IsFiniteSet(Below(before, U, i))
               /\ Cardinality(Below(before, U, i)) \in Nat
               /\ Cardinality(Below(before, U, i)) < Cardinality(U)
    <2> DEFINE b == Below(before, U, i)
    <2>1. b \subseteq U /\ i \notin b
      BY DEF Below, Orders
    <2> HIDE DEF b
    <2>2. IsFiniteSet(b) /\ Cardinality(b) <= Cardinality(U) /\ (Cardinality(U) = Cardinality(b) => U = b)
      BY <2>1, FS_Subset
    <2>3. Cardinality(b) \in Nat /\ Cardinality(b) # Cardinality(U)
      BY <2>1, <2>2, FS_CardinalityType
    <2>4. Cardinality(b) < Cardinality(U)
      BY <1>1, <2>2, <2>3
    <2> QED
      BY <2>2, <2>3, <2>4 DEF b
  <1>3. ASSUME NEW i \in U, NEW j \in U, <<i, j>> \in before
        PROVE  Cardinality(Below(before, U, i)) < Cardinality(Below(before, U, j))
    <2> DEFINE b == Below(before, U, i)
               d == Below(before, U, j)
    <2>1. b \subseteq d /\ i \in d /\ i \notin b
      BY <1>3 DEF Below, Orders
    <2>2. IsFiniteSet(d) /\ Cardinality(b) \in Nat /\ Cardinality(d) \in Nat
      BY <1>2
    <2> HIDE DEF b, d
    <2>3. Cardinality(b) <= Cardinality(d) /\ (Cardinality(d) = Cardinality(b) => d = b)
      BY <2>1, <2>2, FS_Subset
    <2>4. Cardinality(b) < Cardinality(d)
      BY <2>1, <2>2, <2>3
    <2> QED
      BY <2>4 DEF b, d
  <1> QED
    BY <1>1, <1>2, <1>3

LEMMA SortedExists ==
  ASSUME NEW U, IsFiniteSet(U), NEW before, Orders(before, U)
  PROVE  \E s : Sorts(s, before, U)
  <1> DEFINE N == Cardinality(U)
             pos == [i \in U |-> Cardinality(Below(before, U, i)) + 1]
             s == [n \in 1..N |-> CHOOSE i \in U : pos[i] = n]
  <1>1. /\ N \in Nat
        /\ \A i \in U : pos[i] \in 1..N
        /\ \A i, j \in U : <<i, j>> \in before => pos[i] < pos[j]
    BY BelowGrows
  <1>2. pos \in Injection(U, 1..N)
    <2>1. pos \in [U -> 1..N]
      BY <1>1
    <2>2. \A i, j \in U : i # j => pos[i] # pos[j]
      <3> SUFFICES ASSUME NEW i \in U, NEW j \in U, i # j PROVE pos[i] # pos[j]
        OBVIOUS
      <3> HIDE DEF pos, N
      <3>1. <<i, j>> \in before \/ <<j, i>> \in before
        BY Zenon DEF Orders
      <3>2. pos[i] < pos[j] \/ pos[j] < pos[i]
        BY <1>1, <3>1, Zenon
      <3> QED
        BY <1>1, <3>2
    <2> HIDE DEF pos
    <2> QED
      BY <2>1, <2>2, Zenon DEF Injection, IsInjective
  <1>3. IsFiniteSet(1..N) /\ Cardinality(1..N) = N
    BY <1>1, FS_Interval
  <1>4. pos \in Surjection(U, 1..N)
    <2> HIDE DEF pos
    <2> QED
      BY <1>2, <1>3, FS_Injection DEF N
  <1>5. \A n \in 1..N : s[n] \in U /\ pos[s[n]] = n
    <2> HIDE DEF pos
    <2>1. \A n \in 1..N : \E i \in U : pos[i] = n
      BY <1>4, Zenon DEF Surjection
    <2> QED
      BY <2>1
  <1>6. \A m, n \in 1..N : m < n => <<s[m], s[n]>> \in before
    <2> SUFFICES ASSUME NEW m \in 1..N, NEW n \in 1..N, m < n PROVE <<s[m], s[n]>> \in before
      OBVIOUS
    <2> HIDE DEF pos, s, N
    <2>1. s[m] # s[n]
      BY <1>5
    <2>2. <<s[m], s[n]>> \in before \/ <<s[n], s[m]>> \in before
      BY <1>5, <2>1, Zenon DEF Orders
    <2>3. <<s[n], s[m]>> \in before => pos[s[n]] < pos[s[m]]
      BY <1>1, <1>5, Zenon
    <2> QED
      BY <1>5, <2>2, <2>3
  <1>7. s \in [1..N -> U]
    BY <1>5
  <1> HIDE DEF s
  <1>8. Sorts(s, before, U)
    BY <1>6, <1>7 DEF Sorts
  <1> QED
    BY <1>8

(* Who stands at place n has n - 1 elements before it.                     *)
LEMMA SortedPlaces ==
  ASSUME NEW U, IsFiniteSet(U), NEW before, Orders(before, U), NEW s, Sorts(s, before, U)
  PROVE  /\ \A n \in 1..Cardinality(U) : Cardinality(Below(before, U, s[n])) = n - 1
         /\ \A i \in U : \E n \in 1..Cardinality(U) : s[n] = i
         /\ \A m, n \in 1..Cardinality(U) : <<s[m], s[n]>> \in before => m < n
  <1> DEFINE N == Cardinality(U)
  <1>1. N \in Nat
    BY FS_CardinalityType
  <1>2. \A m, n \in 1..N : m # n => s[m] # s[n]
    <2> SUFFICES ASSUME NEW m \in 1..N, NEW n \in 1..N, m # n PROVE s[m] # s[n]
      OBVIOUS
    <2>1. m < n \/ n < m
      BY <1>1
    <2>2. <<s[m], s[n]>> \in before \/ <<s[n], s[m]>> \in before
      BY <2>1, Zenon DEF Sorts
    <2> QED
      BY <2>2, Zenon DEF Sorts, Orders
  <1>3. s \in Injection(1..N, U)
    BY <1>2, Zenon DEF Injection, IsInjective, Sorts
  <1>4. IsFiniteSet(1..N) /\ Cardinality(1..N) = N
    BY <1>1, FS_Interval
  <1>5. s \in Surjection(1..N, U)
    BY <1>3, <1>4, FS_Injection
  <1>6. \A i \in U : \E n \in 1..N : s[n] = i
    BY <1>5, Zenon DEF Surjection
  <1>7. \A m, n \in 1..N : <<s[m], s[n]>> \in before => m < n
    <2> SUFFICES ASSUME NEW m \in 1..N, NEW n \in 1..N, <<s[m], s[n]>> \in before, ~(m < n)
                 PROVE  FALSE
      OBVIOUS
    <2>1. m = n \/ n < m
      OBVIOUS
    <2>2. s[m] \in U /\ s[n] \in U
      BY DEF Sorts
    <2>3. CASE m = n
      BY <2>2, <2>3, Zenon DEF Orders
    <2>4. CASE n < m
      <3>1. <<s[n], s[m]>> \in before
        BY <2>4, Zenon DEF Sorts
      <3> QED
        BY <2>2, <3>1, Zenon DEF Orders
    <2> QED
      BY <2>1, <2>3, <2>4
  <1>8. ASSUME NEW n \in 1..N PROVE Cardinality(Below(before, U, s[n])) = n - 1
    <2> DEFINE b == Below(before, U, s[n])
               t == [m \in 1..(n - 1) |-> s[m]]
    <2>1. \A m \in 1..(n - 1) : m \in 1..N /\ m < n
      BY <1>1
    <2>2. \A m \in 1..(n - 1) : t[m] \in b
      BY <2>1 DEF Below, Sorts
    <2>3. \A m, k \in 1..(n - 1) : t[m] = t[k] => m = k
      BY <1>2, <2>1
    <2>4. \A i \in b : \E m \in 1..(n - 1) : t[m] = i
      <3> TAKE i \in b
      <3>1. i \in U /\ <<i, s[n]>> \in before
        BY DEF Below
      <3>2. PICK m \in 1..N : s[m] = i
        BY <1>6, <3>1
      <3>3. m < n
        BY <1>7, <3>1, <3>2
      <3> QED
        BY <3>2, <3>3
    <2>5. t \in [1..(n - 1) -> b]
      BY <2>2
    <2> HIDE DEF b, t
    <2>6. t \in Injection(1..(n - 1), b)
      BY <2>3, <2>5, Zenon DEF Injection, IsInjective
    <2>7. t \in Surjection(1..(n - 1), b)
      BY <2>4, <2>5, Zenon DEF Surjection
    <2>8. ExistsBijection(1..(n - 1), b)
      BY <2>6, <2>7, Zenon DEF ExistsBijection, Bijection
    <2>9. Cardinality(b) = n - 1
      BY <2>8, FS_CountingElements
    <2> QED
      BY <2>9 DEF b
  <1> QED
    BY <1>6, <1>7, <1>8

(* What is put behind the rest does not change who comes first.            *)
LEMMA SortedPrefix ==
  ASSUME NEW W, IsFiniteSet(W), NEW U, U \subseteq W, NEW before, Orders(before, W),
         \A i \in U, j \in W \ U : <<i, j>> \in before,
         NEW s, Sorts(s, before, U), NEW t, Sorts(t, before, W)
  PROVE  /\ Cardinality(U) \in Nat /\ Cardinality(W) \in Nat
         /\ Cardinality(U) <= Cardinality(W)
         /\ \A n \in 1..Cardinality(U) : t[n] = s[n]
  <1>1. IsFiniteSet(U) /\ Cardinality(U) <= Cardinality(W)
    BY FS_Subset
  <1>2. Cardinality(U) \in Nat /\ Cardinality(W) \in Nat
    BY <1>1, FS_CardinalityType
  <1>3. Orders(before, U)
    BY Zenon DEF Orders
  <1>4. ASSUME NEW n \in 1..Cardinality(U) PROVE t[n] = s[n]
    <2>1. s[n] \in U /\ s[n] \in W
      BY DEF Sorts
    <2>2. Below(before, W, s[n]) = Below(before, U, s[n])
      <3>1. ASSUME NEW j \in W, <<j, s[n]>> \in before PROVE j \in U
        <4>1. SUFFICES ASSUME j \notin U PROVE FALSE
          OBVIOUS
        <4>2. <<s[n], j>> \in before
          BY <2>1, <4>1
        <4> QED
          BY <2>1, <3>1, <4>2, Zenon DEF Orders
      <3> QED
        BY <3>1 DEF Below
    <2>3. Cardinality(Below(before, W, s[n])) = n - 1
      BY <1>1, <1>3, <2>2, SortedPlaces
    <2>4. PICK m \in 1..Cardinality(W) : t[m] = s[n]
      BY <2>1, SortedPlaces
    <2>5. Cardinality(Below(before, W, t[m])) = m - 1
      BY SortedPlaces
    <2>6. m = n
      BY <1>2, <2>3, <2>4, <2>5
    <2> QED
      BY <2>4, <2>6
  <1> QED
    BY <1>1, <1>2, <1>4

-----------------------------------------------------------------------------
(* Retrieval.  Keys of one length are ordered by the first place at which   *)
(* they differ.                                                            *)
LEMMA LessIsStrict ==
  ASSUME NEW m \in Nat, NEW a, NEW b, NEW c,
         \A k \in 1..m : a[k] \in Int /\ b[k] \in Int /\ c[k] \in Int,
         Len(a) = m, Len(b) = m, Len(c) = m
  PROVE  /\ ~ R!Less(a, a)
         /\ R!Less(a, b) /\ R!Less(b, c) => R!Less(a, c)
         /\ (\E k \in 1..m : a[k] # b[k]) => R!Less(a, b) \/ R!Less(b, a)
  <1>1. ~ R!Less(a, a)
    BY DEF R!Less
  <1>2. ASSUME R!Less(a, b), R!Less(b, c) PROVE R!Less(a, c)
    <2>1. PICK i \in 1..m : a[i] < b[i] /\ \A n \in 1..(i - 1) : a[n] = b[n]
      BY <1>2 DEF R!Less
    <2>2. PICK j \in 1..m : b[j] < c[j] /\ \A n \in 1..(j - 1) : b[n] = c[n]
      BY <1>2 DEF R!Less
    <2> DEFINE k == IF i < j THEN i ELSE j
    <2>3. k \in 1..m /\ a[k] < c[k]
      BY <2>1, <2>2
    <2>4. \A n \in 1..(k - 1) : a[n] = c[n]
      BY <2>1, <2>2
    <2> HIDE DEF k
    <2> QED
      BY <2>3, <2>4 DEF R!Less
  <1>3. ASSUME \E k \in 1..m : a[k] # b[k] PROVE R!Less(a, b) \/ R!Less(b, a)
    <2> DEFINE T == {k \in 1..m : a[k] # b[k]}
    <2>1. T \subseteq Nat /\ T # {}
      <3>1. T \subseteq Nat
        OBVIOUS
      <3>2. T # {}
        BY <1>3
      <3> QED
        BY <3>1, <3>2
    <2>2. PICK k \in T : \A n \in T : k <= n
      <3> HIDE DEF T
      <3> QED
        BY <2>1, LeastNumber
    <2>3. k \in 1..m /\ (a[k] < b[k] \/ b[k] < a[k])
      OBVIOUS
    <2>4. \A n \in 1..(k - 1) : n \in 1..m /\ ~(k <= n)
      BY <2>3
    <2>5. \A n \in 1..(k - 1) : a[n] = b[n]
      BY <2>2, <2>4
    <2> QED
      BY <2>3, <2>5 DEF R!Less
  <1> QED
    BY <1>1, <1>2, <1>3

(* Keys with an entry for every element of U, which tells them apart.      *)
Tells(key, m, U) ==
  /\ m \in Nat
  /\ \A i \in U : Len(key[i]) = m /\ \A k \in 1..m : key[i][k] \in Int
  /\ \A i, j \in U : i # j => \E k \in 1..m : key[i][k] # key[j][k]

ByKey(key, U) == {p \in U \X U : R!Less(key[p[1]], key[p[2]])}

LEMMA KeysOrder ==
  ASSUME NEW U, NEW m, NEW key, Tells(key, m, U)
  PROVE  /\ Orders(ByKey(key, U), U)
         /\ \A i, j \in U : <<i, j>> \in ByKey(key, U) <=> R!Less(key[i], key[j])
  <1>1. \A i, j \in U : <<i, j>> \in ByKey(key, U) <=> R!Less(key[i], key[j])
    BY DEF ByKey
  <1>2. ASSUME NEW i \in U PROVE <<i, i>> \notin ByKey(key, U)
    BY <1>1, LessIsStrict DEF Tells
  <1>3. ASSUME NEW i \in U, NEW j \in U, NEW k \in U,
               <<i, j>> \in ByKey(key, U), <<j, k>> \in ByKey(key, U)
        PROVE  <<i, k>> \in ByKey(key, U)
    <2>1. R!Less(key[i], key[j]) /\ R!Less(key[j], key[k])
      BY <1>1, <1>3
    <2>2. R!Less(key[i], key[k])
      BY <2>1, LessIsStrict DEF Tells
    <2> QED
      BY <1>1, <2>2
  <1>4. ASSUME NEW i \in U, NEW j \in U, i # j
        PROVE  <<i, j>> \in ByKey(key, U) \/ <<j, i>> \in ByKey(key, U)
    <2>1. R!Less(key[i], key[j]) \/ R!Less(key[j], key[i])
      BY <1>4, LessIsStrict DEF Tells
    <2> QED
      BY <1>1, <2>1
  <1> QED
    BY <1>1, <1>2, <1>3, <1>4 DEF Orders

LEMMA SameFiniteSets ==
  /\ \A U : R!IsFiniteSet(U) <=> IsFiniteSet(U)
  /\ \A U : R!Cardinality(U) = Cardinality(U)
  BY DEF R!Cardinality, Cardinality, R!IsFiniteSet, IsFiniteSet

LEMMA OrderedSorts ==
  ASSUME NEW U, IsFiniteSet(U), NEW m, NEW key, Tells(key, m, U)
  PROVE  Sorts(R!Ordered(U, key), ByKey(key, U), U)
  <1>1. PICK s : Sorts(s, ByKey(key, U), U)
    BY KeysOrder, SortedExists
  <1>2. Cardinality(U) = R!Cardinality(U)
    BY SameFiniteSets
  <1> DEFINE N == R!Cardinality(U)
             Sorted(t) == \A i, j \in 1..N : i < j => R!Less(key[t[i]], key[t[j]])
  <1>3. s \in [1..N -> U] /\ Sorted(s)
    BY <1>1, <1>2, KeysOrder DEF Sorts
  <1>4. R!Ordered(U, key) = CHOOSE t \in [1..N -> U] : Sorted(t)
    BY DEF R!Ordered
  <1> DEFINE r == R!Ordered(U, key)
  <1>5. r \in [1..N -> U] /\ Sorted(r)
    <2> HIDE DEF Sorted, N
    <2> QED
      BY <1>3, <1>4, Zenon
  <1> QED
    BY <1>2, <1>5, KeysOrder DEF Sorts

-----------------------------------------------------------------------------
(* Larger and smaller, as the community modules define them.               *)

LEMMA FiniteMax ==
  ASSUME NEW U, IsFiniteSet(U), U \subseteq Int, U # {}
  PROVE  R!Max(U) \in U /\ \A i \in U : i <= R!Max(U)
  <1> DEFINE N == Cardinality(U)
             before == {p \in U \X U : p[1] < p[2]}
  <1>1. Orders(before, U)
    <2>1. \A i, j \in U : <<i, j>> \in before <=> i < j
      OBVIOUS
    <2> HIDE DEF before
    <2> QED
      BY <2>1 DEF Orders
  <1>2. PICK s : Sorts(s, before, U)
    <2> HIDE DEF before
    <2> QED
      BY <1>1, SortedExists
  <1>3. N \in Nat /\ N # 0
    BY FS_CardinalityType, FS_EmptySet
  <1>4. s[N] \in U
    BY <1>2, <1>3 DEF Sorts
  <1>5. ASSUME NEW i \in U PROVE i <= s[N]
    <2>1. PICK n \in 1..N : s[n] = i
      <3> HIDE DEF before
      <3> QED
        BY <1>1, <1>2, SortedPlaces
    <2>2. n < N => <<s[n], s[N]>> \in before
      BY <1>2, <1>3 DEF Sorts
    <2>3. n < N => i < s[N]
      BY <2>1, <2>2
    <2>4. i \in Int /\ s[N] \in Int
      BY <1>4
    <2>5. n = N \/ n < N
      BY <1>3
    <2> HIDE DEF before, N
    <2> QED
      BY <2>1, <2>3, <2>4, <2>5
  <1>6. \E x \in U : \A y \in U : x >= y
    BY <1>4, <1>5
  <1>7. R!Max(U) \in U /\ \A y \in U : R!Max(U) >= y
    BY <1>6, Zenon DEF R!Max
  <1> QED
    BY <1>7

LEMMA LargerOfTwo ==
  ASSUME NEW i \in Int, NEW j \in Int
  PROVE  R!Max({i, j}) = IF i >= j THEN i ELSE j
  <1>1. IsFiniteSet({i, j})
    <2>1. {i, j} = {i} \cup {j} /\ IsFiniteSet({i})
      BY FS_Singleton
    <2> QED
      BY <2>1, FS_AddElement, Zenon
  <1>2. R!Max({i, j}) \in {i, j} /\ \A k \in {i, j} : k <= R!Max({i, j})
    BY <1>1, FiniteMax
  <1> QED
    BY <1>2

LEMMA SmallerOfTwo ==
  ASSUME NEW i \in Int, NEW j \in Int
  PROVE  R!Min({i, j}) = IF i <= j THEN i ELSE j
  <1>1. \E x \in {i, j} : \A y \in {i, j} : x <= y
    OBVIOUS
  <1>2. R!Min({i, j}) \in {i, j} /\ \A y \in {i, j} : R!Min({i, j}) <= y
    BY <1>1, Zenon DEF R!Min
  <1> QED
    BY <1>2

-----------------------------------------------------------------------------
(* How long the joined blocks are.                                         *)

LEMMA JoinedUnfolds ==
  ASSUME NEW B, \A x \in B : x.length \in Int, NEW blocks \in Seq(B)
  PROVE  \E f \in [0..Len(blocks) -> Int] :
           /\ f[0] = 0
           /\ \A n \in 1..Len(blocks) : f[n] = f[n - 1] + blocks[n].length
           /\ R!Joined(blocks) =
                f[Len(blocks)] + (IF blocks = <<>> THEN 0 ELSE 2 * (Len(blocks) - 1))
  <1> DEFINE N == Len(blocks)
             step == [n \in 1..N |-> [x \in Int |-> x + blocks[n].length]]
             Sum(f) == f = [n \in 0..N |-> IF n = 0 THEN 0 ELSE f[n - 1] + blocks[n].length]
             sum == CHOOSE f : Sum(f)
  <1>1. N \in Nat /\ \A n \in 1..N : blocks[n].length \in Int
    OBVIOUS
  <1>2. Moves(step, N, Int)
    BY <1>1 DEF Moves
  <1>3. PICK f : Runs(f, step, N, 0, Int)
    <2>1. N \in Nat /\ 0 \in Int
      BY <1>1
    <2> HIDE DEF step, N
    <2> QED
      BY <1>2, <2>1, RecursionWorks
  <1>4. Sum(f)
    <2>1. f \in [0..N -> Int] /\ f[0] = 0 /\ \A n \in 1..N : f[n] = step[n][f[n - 1]]
      BY <1>3 DEF Runs
    <2>2. ASSUME NEW n \in 1..N PROVE f[n] = f[n - 1] + blocks[n].length
      <3>1. f[n - 1] \in Int
        <4>1. n - 1 \in 0..N
          BY <1>1
        <4> QED
          BY <2>1, <4>1
      <3>2. step[n][f[n - 1]] = f[n - 1] + blocks[n].length
        BY <3>1
      <3> QED
        BY <2>1, <3>2
    <2> HIDE DEF step, N
    <2>3. \A n \in 0..N : f[n] = IF n = 0 THEN 0 ELSE f[n - 1] + blocks[n].length
      BY <1>1, <2>1, <2>2
    <2> QED
      BY <2>1, <2>3
  <1>5. Sum(sum)
    <2> HIDE DEF Sum
    <2> QED
      BY <1>4, Zenon
  <1>6. R!Joined(blocks) = sum[N] + (IF blocks = <<>> THEN 0 ELSE 2 * (N - 1))
    BY DEF R!Joined
  <1> HIDE DEF sum
  <1>7. sum[0] = 0 /\ \A n \in 1..N : sum[n] = sum[n - 1] + blocks[n].length
    <2> HIDE DEF N
    <2>1. \A n \in 0..N : sum[n] = IF n = 0 THEN 0 ELSE sum[n - 1] + blocks[n].length
      BY <1>5
    <2>2. 0 \in 0..N /\ \A n \in 1..N : n \in 0..N /\ n # 0
      BY <1>1
    <2> QED
      BY <2>1, <2>2
  <1>8. sum \in [0..N -> Int]
    <2> DEFINE T == {n \in Nat : sum[n] \in Int}
    <2>1. 0 \in T /\ \A n \in 1..N : n - 1 \in T => n \in T
      BY <1>1, <1>7
    <2>2. \A n \in 0..N : n \in T
      <3> HIDE DEF T, N
      <3> QED
        BY <1>1, <2>1, UpTo
    <2> HIDE DEF N
    <2> QED
      BY <1>5, <2>2
  <1> QED
    BY <1>6, <1>7, <1>8

(* One more block adds its length and, behind another, the empty line.     *)
LEMMA JoinedGrows ==
  ASSUME NEW B, \A x \in B : x.length \in Int, NEW blocks \in Seq(B), NEW b \in B
  PROVE  /\ R!Joined(blocks) \in Int
         /\ R!Joined(<<>>) = 0
         /\ R!Joined(Append(blocks, b)) =
              R!Joined(blocks) + (IF blocks = <<>> THEN 0 ELSE 2) + b.length
  <1> DEFINE N == Len(blocks)
             more == Append(blocks, b)
  <1>1. N \in Nat /\ more \in Seq(B) /\ Len(more) = N + 1
        /\ more # <<>> /\ (blocks = <<>> <=> N = 0)
        /\ \A n \in 1..N : more[n] = blocks[n]
        /\ more[N + 1] = b /\ b.length \in Int
    OBVIOUS
  <1>2. PICK f \in [0..N -> Int] :
          /\ f[0] = 0
          /\ \A n \in 1..N : f[n] = f[n - 1] + blocks[n].length
          /\ R!Joined(blocks) = f[N] + (IF blocks = <<>> THEN 0 ELSE 2 * (N - 1))
    BY JoinedUnfolds
  <1>3. PICK g \in [0..(N + 1) -> Int] :
          /\ g[0] = 0
          /\ \A n \in 1..(N + 1) : g[n] = g[n - 1] + more[n].length
          /\ R!Joined(more) = g[N + 1] + 2 * N
    <2> HIDE DEF more, N
    <2>1. PICK g \in [0..Len(more) -> Int] :
            /\ g[0] = 0
            /\ \A n \in 1..Len(more) : g[n] = g[n - 1] + more[n].length
            /\ R!Joined(more) = g[Len(more)] + (IF more = <<>> THEN 0 ELSE 2 * (Len(more) - 1))
      BY <1>1, JoinedUnfolds
    <2>2. g \in [0..(N + 1) -> Int]
      BY <1>1, <2>1
    <2>3. R!Joined(more) = g[N + 1] + 2 * N
      BY <1>1, <2>1
    <2> QED
      BY <1>1, <2>1, <2>2, <2>3
  <1> HIDE DEF N, more
  <1>4. \A n \in 0..N : f[n] = g[n]
    <2> DEFINE T == {n \in 0..N : f[n] = g[n]}
    <2>1. 0 \in T
      BY <1>1, <1>2, <1>3
    <2>3. ASSUME NEW n \in 1..N, n - 1 \in T PROVE n \in T
      <3>1. f[n] = f[n - 1] + blocks[n].length
        BY <1>2
      <3>2. g[n] = g[n - 1] + more[n].length
        <4>1. n \in 1..(N + 1)
          BY <1>1
        <4> QED
          BY <1>3, <4>1
      <3>3. more[n] = blocks[n] /\ f[n - 1] = g[n - 1] /\ n \in 0..N
        BY <1>1, <2>3
      <3> QED
        BY <3>1, <3>2, <3>3
    <2>2. \A n \in 0..N : n \in T
      <3> HIDE DEF T
      <3> QED
        BY <1>1, <2>1, <2>3, UpTo
    <2> QED
      BY <2>2
  <1>5. g[N + 1] = f[N] + b.length
    <2>1. N + 1 \in 1..(N + 1) /\ N \in 0..N /\ (N + 1) - 1 = N
      BY <1>1
    <2>2. g[N + 1] = g[(N + 1) - 1] + more[N + 1].length
      BY <1>3, <2>1
    <2>3. more[N + 1].length = b.length
      BY <1>1
    <2>4. g[N + 1] = g[N] + b.length
      BY <2>1, <2>2, <2>3
    <2> QED
      BY <1>4, <2>1, <2>4
  <1>6. R!Joined(blocks) \in Int
    BY <1>1, <1>2
  <1>7. R!Joined(more) = R!Joined(blocks) + (IF blocks = <<>> THEN 0 ELSE 2) + b.length
    BY <1>1, <1>2, <1>3, <1>5, SMTT(30)
  <1>8. R!Joined(<<>>) = 0
    <2>1. PICK h \in [0..Len(<<>>) -> Int] :
            /\ h[0] = 0
            /\ R!Joined(<<>>) = h[Len(<<>>)] + 0
      <3>1. <<>> \in Seq(B)
        OBVIOUS
      <3> QED
        BY <3>1, JoinedUnfolds
    <2> QED
      BY <2>1
  <1> QED
    BY <1>6, <1>7, <1>8 DEF more

-----------------------------------------------------------------------------
(* Packing keeps to the budget, to the number asked for, and to one block  *)
(* for a parent.                                                           *)

Block(I) == [id : I, length : Int, content : {"whole", "child", "cut"}]

Packs(I, J) == [blocks : Seq(Block(I)), chars : Int, keys : SUBSET J]

(* What holds of the blocks packed so far, and of their keys.              *)
Fits(acc, s) ==
  /\ acc.chars = R!Joined(acc.blocks)
  /\ acc.chars <= R!Max({s.budget, Frame}) \/ acc = R!Nothing
  /\ Len(acc.blocks) <= s.top_k

Distinct(acc) ==
  /\ IsFiniteSet(acc.keys)
  /\ Cardinality(acc.keys) = Len(acc.blocks)

Fitting(I, J, s) == {acc \in Packs(I, J) : Fits(acc, s)}

LEMMA JoinedIsNumber ==
  ASSUME NEW I, NEW blocks \in Seq(Block(I))
  PROVE  /\ R!Joined(blocks) \in Int
         /\ R!Joined(<<>>) = 0
         /\ \A b \in Block(I) :
              R!Joined(Append(blocks, b)) =
                R!Joined(blocks) + (IF blocks = <<>> THEN 0 ELSE 2) + b.length
  <1>1. \A x \in Block(I) : x.length \in Int
    BY DEF Block
  <1>2. \A b \in Block(I) :
          /\ R!Joined(blocks) \in Int
          /\ R!Joined(<<>>) = 0
          /\ R!Joined(Append(blocks, b)) =
               R!Joined(blocks) + (IF blocks = <<>> THEN 0 ELSE 2) + b.length
    BY <1>1, JoinedGrows
  <1>3. R!Joined(<<>>) = 0 /\ R!Joined(blocks) \in Int
    <2>1. PICK f \in [0..Len(blocks) -> Int] :
            R!Joined(blocks) = f[Len(blocks)] + (IF blocks = <<>> THEN 0 ELSE 2 * (Len(blocks) - 1))
      BY <1>1, JoinedUnfolds
    <2>2. Len(blocks) \in Nat /\ f[Len(blocks)] \in Int
      BY <2>1
    <2>3. R!Joined(blocks) \in Int
      BY <2>1, <2>2
    <2>4. <<>> \in Seq(Block(I)) /\ Len(<<>>) = 0
      OBVIOUS
    <2>5. PICK g \in [0..Len(<<>>) -> Int] :
            /\ g[0] = 0
            /\ R!Joined(<<>>) = g[Len(<<>>)] + (IF <<>> = <<>> THEN 0 ELSE 2 * (Len(<<>>) - 1))
      BY <1>1, <2>4, JoinedUnfolds
    <2>6. R!Joined(<<>>) = 0
      BY <2>4, <2>5
    <2> QED
      BY <2>3, <2>6
  <1> QED
    BY <1>2, <1>3

LEMMA TakeFits ==
  ASSUME NEW I, NEW J, NEW s, s.budget \in Nat, s.top_k \in Nat, Frame \in Nat,
         NEW acc \in Fitting(I, J, s), Len(acc.blocks) < s.top_k,
         NEW i \in I, NEW key \in J, NEW length \in Int, NEW content \in {"whole", "child", "cut"},
         acc.chars + R!Separator(acc) + length <= R!Max({s.budget, Frame})
  PROVE  /\ R!Take(acc, i, key, length, content) \in Fitting(I, J, s)
         /\ R!Take(acc, i, key, length, content).keys = acc.keys \cup {key}
         /\ Distinct(acc) /\ key \notin acc.keys => Distinct(R!Take(acc, i, key, length, content))
  <1> DEFINE b == [id |-> i, length |-> length, content |-> content]
             blocks == Append(acc.blocks, b)
             chars == acc.chars + R!Separator(acc) + length
             keys == acc.keys \cup {key}
             more == R!Take(acc, i, key, length, content)
  <1>1. more = [blocks |-> blocks, chars |-> chars, keys |-> keys]
    BY DEF R!Take
  <1>2. acc.blocks \in Seq(Block(I)) /\ acc.chars \in Int /\ acc.keys \in SUBSET J /\ Fits(acc, s)
    BY DEF Fitting, Packs
  <1>3. b \in Block(I) /\ b.length = length
    BY DEF Block
  <1>4. blocks \in Seq(Block(I)) /\ Len(blocks) = Len(acc.blocks) + 1 /\ Len(acc.blocks) \in Nat
    <2> HIDE DEF b
    <2> QED
      BY <1>2, <1>3
  <1>5. R!Separator(acc) = IF acc.blocks = <<>> THEN 0 ELSE 2
    BY DEF R!Separator
  <1>6. R!Joined(blocks) = chars /\ chars \in Int
    <2>1. R!Joined(blocks) = R!Joined(acc.blocks) + (IF acc.blocks = <<>> THEN 0 ELSE 2) + b.length
      BY <1>2, <1>3, JoinedIsNumber
    <2>2. acc.chars = R!Joined(acc.blocks)
      BY <1>2 DEF Fits
    <2> HIDE DEF b, blocks
    <2> QED
      BY <1>2, <1>3, <1>5, <2>1, <2>2
  <1>7. keys \in SUBSET J
    BY <1>2
  <1> HIDE DEF b, blocks, chars, keys, more
  <1>8. more \in Packs(I, J)
    BY <1>1, <1>4, <1>6, <1>7 DEF Packs
  <1>9. Fits(more, s)
    <2>1. more.chars = chars /\ more.blocks = blocks
      BY <1>1
    <2>2. Len(blocks) <= s.top_k
      BY <1>4
    <2>3. chars <= R!Max({s.budget, Frame})
      BY DEF chars
    <2> QED
      BY <1>6, <2>1, <2>2, <2>3 DEF Fits
  <1>10. more.keys = keys /\ more.blocks = blocks
    BY <1>1
  <1>11. Distinct(acc) /\ key \notin acc.keys => Distinct(more)
    <2> SUFFICES ASSUME Distinct(acc), key \notin acc.keys PROVE Distinct(more)
      OBVIOUS
    <2>1. IsFiniteSet(keys) /\ Cardinality(keys) = Cardinality(acc.keys) + 1
      BY FS_AddElement DEF keys, Distinct
    <2> QED
      BY <1>4, <1>10, <2>1 DEF Distinct
  <1> QED
    BY <1>8, <1>9, <1>10, <1>11 DEF more, keys, Fitting

(* The passages found, with numbers for names.                             *)
Scored(c) ==
  /\ DOMAIN c \subseteq Nat
  /\ IsFiniteSet(DOMAIN c)
  /\ \A i \in DOMAIN c : /\ c[i].vec \in Int /\ c[i].kw \in Nat /\ c[i].parent \in Nat
                         /\ c[i].child \in Nat /\ c[i].whole \in Nat

Bounded(s) == s.budget \in Nat /\ s.top_k \in Nat

LEMMA PackNextFits ==
  ASSUME Frame \in Nat, NEW c, Scored(c), NEW s, Bounded(s), NEW i \in DOMAIN c,
         NEW acc \in Fitting(DOMAIN c, Nat \X Nat, s)
  PROVE  /\ R!PackNext(c, s, acc, i) \in Fitting(DOMAIN c, Nat \X Nat, s)
         /\ Distinct(acc) => Distinct(R!PackNext(c, s, acc, i))
  <1> DEFINE key  == IF c[i].parent # R!NoParent THEN <<c[i].parent, 0>> ELSE <<0, i>>
             left == s.budget - acc.chars - R!Separator(acc)
             next == R!PackNext(c, s, acc, i)
             Goal == next \in Fitting(DOMAIN c, Nat \X Nat, s) /\ (Distinct(acc) => Distinct(next))
  <1>1. next = IF Len(acc.blocks) >= s.top_k \/ key \in acc.keys THEN acc
               ELSE IF Frame + c[i].whole <= left
               THEN R!Take(acc, i, key, Frame + c[i].whole, "whole")
               ELSE IF c[i].parent # R!NoParent /\ Frame + c[i].child <= left
               THEN R!Take(acc, i, key, Frame + c[i].child, "child")
               ELSE IF acc.blocks = <<>> THEN R!Take(acc, i, key, R!Max({left, Frame}), "cut")
               ELSE acc
    BY DEF R!PackNext
  <1>2. i \in Nat /\ c[i].parent \in Nat /\ c[i].child \in Nat /\ c[i].whole \in Nat
    BY DEF Scored
  <1>3. key \in Nat \X Nat
    BY <1>2
  <1>4. /\ acc.blocks \in Seq(Block(DOMAIN c)) /\ acc.chars \in Int /\ Fits(acc, s)
        /\ Len(acc.blocks) \in Nat
    BY DEF Fitting, Packs
  <1>5. R!Separator(acc) = IF acc.blocks = <<>> THEN 0 ELSE 2
    BY DEF R!Separator
  <1>6. s.budget \in Nat /\ s.top_k \in Nat /\ left \in Int /\ left <= s.budget - acc.chars
    BY <1>4, <1>5 DEF Bounded
  <1>7. R!Max({s.budget, Frame}) = IF s.budget >= Frame THEN s.budget ELSE Frame
    BY <1>6, LargerOfTwo
  <1> DEFINE limit == R!Max({s.budget, Frame})
  <1>8. limit \in Int /\ s.budget <= limit /\ Frame <= limit
    BY <1>6, <1>7
  <1>9. acc.chars + R!Separator(acc) = s.budget - left
    BY <1>4, <1>5, <1>6
  <1> HIDE DEF key, limit, left, next
  <1>10. ASSUME ~(Len(acc.blocks) >= s.top_k), key \notin acc.keys,
                NEW length \in Int, length <= left, NEW content \in {"whole", "child", "cut"},
                next = R!Take(acc, i, key, length, content)
         PROVE  Goal
    <2>1. acc.chars + R!Separator(acc) + length <= limit
      BY <1>4, <1>5, <1>6, <1>8, <1>9, <1>10
    <2>2. Len(acc.blocks) < s.top_k
      BY <1>4, <1>6, <1>10
    <2> QED
      BY <1>3, <1>6, <1>10, <2>1, <2>2, TakeFits DEF limit
  <1>11. ASSUME Len(acc.blocks) >= s.top_k \/ key \in acc.keys PROVE Goal
    <2>1. next = acc
      BY <1>1, <1>11
    <2> QED
      BY <2>1
  <1>12. ASSUME ~(Len(acc.blocks) >= s.top_k), key \notin acc.keys PROVE Goal
    <2>1. CASE Frame + c[i].whole <= left
      <3>1. next = R!Take(acc, i, key, Frame + c[i].whole, "whole")
        BY <1>1, <1>12, <2>1
      <3>2. Frame + c[i].whole \in Int
        BY <1>2
      <3>3. "whole" \in {"whole", "child", "cut"}
        OBVIOUS
      <3> HIDE DEF Goal
      <3> QED
        BY <1>10, <1>12, <2>1, <3>1, <3>2, <3>3, Zenon
    <2>2. CASE ~(Frame + c[i].whole <= left) /\ c[i].parent # R!NoParent /\ Frame + c[i].child <= left
      <3>1. next = R!Take(acc, i, key, Frame + c[i].child, "child")
        BY <1>1, <1>12, <2>2
      <3>2. Frame + c[i].child \in Int
        BY <1>2
      <3>3. "child" \in {"whole", "child", "cut"}
        OBVIOUS
      <3> HIDE DEF Goal
      <3> QED
        BY <1>10, <1>12, <2>2, <3>1, <3>2, <3>3, Zenon
    <2>3. CASE /\ ~(Frame + c[i].whole <= left)
               /\ ~(c[i].parent # R!NoParent /\ Frame + c[i].child <= left)
               /\ acc.blocks = <<>>
      <3>1. next = R!Take(acc, i, key, R!Max({left, Frame}), "cut")
        BY <1>1, <1>12, <2>3
      <3>2. acc.chars = 0 /\ R!Separator(acc) = 0
        <4>1. acc.chars = R!Joined(<<>>)
          BY <1>4, <2>3 DEF Fits
        <4> QED
          BY <1>4, <1>5, <2>3, <4>1, JoinedIsNumber
      <3>3. left = s.budget
        BY <1>6, <1>9, <3>2
      <3>4. R!Max({left, Frame}) = limit
        BY <3>3 DEF limit
      <3>5. acc.chars + R!Separator(acc) + limit <= limit
        BY <1>8, <3>2
      <3>6. Len(acc.blocks) < s.top_k
        BY <1>4, <1>6, <1>12
      <3>7. "cut" \in {"whole", "child", "cut"}
        OBVIOUS
      <3>8. /\ R!Take(acc, i, key, limit, "cut") \in Fitting(DOMAIN c, Nat \X Nat, s)
            /\ Distinct(acc) /\ key \notin acc.keys => Distinct(R!Take(acc, i, key, limit, "cut"))
        BY <1>3, <1>6, <1>8, <3>5, <3>6, <3>7, TakeFits DEF limit
      <3> QED
        BY <1>12, <3>1, <3>4, <3>8
    <2>4. CASE /\ ~(Frame + c[i].whole <= left)
               /\ ~(c[i].parent # R!NoParent /\ Frame + c[i].child <= left)
               /\ acc.blocks # <<>>
      <3>1. next = acc
        BY <1>1, <1>12, <2>4
      <3> QED
        BY <3>1
    <2> QED
      BY <2>1, <2>2, <2>3, <2>4
  <1> QED
    BY <1>11, <1>12 DEF next

LEMMA NothingFits ==
  ASSUME NEW I, NEW J, NEW s, Bounded(s)
  PROVE  R!Nothing \in Fitting(I, J, s) /\ Distinct(R!Nothing) /\ R!Nothing.keys = {}
  <1>1. R!Nothing = [blocks |-> <<>>, chars |-> 0, keys |-> {}]
    BY DEF R!Nothing
  <1>2. <<>> \in Seq(Block(I)) /\ Len(<<>>) = 0 /\ R!Joined(<<>>) = 0
    <2>1. <<>> \in Seq(Block(I)) /\ Len(<<>>) = 0
      OBVIOUS
    <2> QED
      BY <2>1, JoinedIsNumber
  <1>3. R!Nothing \in Packs(I, J)
    BY <1>1, <1>2 DEF Packs
  <1>4. Fits(R!Nothing, s)
    BY <1>1, <1>2 DEF Fits, Bounded
  <1>5. Distinct(R!Nothing)
    BY <1>1, <1>2, FS_EmptySet DEF Distinct
  <1> QED
    BY <1>1, <1>3, <1>4, <1>5 DEF Fitting

(* f[n] is what has been packed after n turns.                             *)
Turns(f, c, s, order) ==
  /\ f[0] = R!Nothing
  /\ \A n \in 1..Len(order) : f[n] = R!PackNext(c, s, f[n - 1], order[n])
  /\ \A n \in 0..Len(order) : f[n] \in Fitting(DOMAIN c, Nat \X Nat, s) /\ Distinct(f[n])
  /\ R!Pack(c, s, order) = f[Len(order)]

LEMMA PackUnfolds ==
  ASSUME Frame \in Nat, NEW c, Scored(c), NEW s, Bounded(s), NEW order \in Seq(DOMAIN c)
  PROVE  \E f : Turns(f, c, s, order)
  <1> DEFINE N == Len(order)
             X == {acc \in Fitting(DOMAIN c, Nat \X Nat, s) : Distinct(acc)}
             step == [n \in 1..N |-> [acc \in X |-> R!PackNext(c, s, acc, order[n])]]
             Packed(f) == f = [n \in 0..N |-> IF n = 0 THEN R!Nothing
                                              ELSE R!PackNext(c, s, f[n - 1], order[n])]
             packed == CHOOSE f : Packed(f)
  <1>1. N \in Nat /\ \A n \in 1..N : order[n] \in DOMAIN c
    OBVIOUS
  <1>2. \A n \in 1..N : \A acc \in X : R!PackNext(c, s, acc, order[n]) \in X
    BY <1>1, PackNextFits
  <1>3. R!Nothing \in X
    BY NothingFits
  <1>4. R!Pack(c, s, order) = packed[N]
    BY DEF R!Pack
  <1> HIDE DEF N, X
  <1>5. \A n \in 1..N : \A acc \in X : step[n][acc] = R!PackNext(c, s, acc, order[n])
    OBVIOUS
  <1> HIDE DEF step
  <1>6. Moves(step, N, X)
    BY <1>2, <1>5 DEF Moves
  <1>7. PICK f : Runs(f, step, N, R!Nothing, X)
    BY <1>1, <1>3, <1>6, RecursionWorks
  <1>8. f \in [0..N -> X] /\ f[0] = R!Nothing /\ \A n \in 1..N : f[n] = step[n][f[n - 1]]
    BY <1>7 DEF Runs
  <1>9. \A n \in 1..N : f[n] = R!PackNext(c, s, f[n - 1], order[n])
    <2> SUFFICES ASSUME NEW n \in 1..N PROVE f[n] = R!PackNext(c, s, f[n - 1], order[n])
      OBVIOUS
    <2>1. f[n - 1] \in X
      BY <1>1, <1>8
    <2> QED
      BY <1>5, <1>8, <2>1
  <1>10. Packed(f)
    <2>1. \A n \in 0..N : f[n] = IF n = 0 THEN R!Nothing ELSE R!PackNext(c, s, f[n - 1], order[n])
      BY <1>1, <1>8, <1>9
    <2> QED
      BY <1>8, <2>1
  <1>11. Packed(packed)
    <2> HIDE DEF Packed
    <2> QED
      BY <1>10, Zenon
  <1> HIDE DEF packed
  <1>12. /\ packed[0] = R!Nothing
         /\ \A n \in 1..N : packed[n] = R!PackNext(c, s, packed[n - 1], order[n])
    <2>1. \A n \in 0..N : packed[n] = IF n = 0 THEN R!Nothing
                                      ELSE R!PackNext(c, s, packed[n - 1], order[n])
      BY <1>11
    <2>2. 0 \in 0..N /\ \A n \in 1..N : n \in 0..N /\ n # 0
      BY <1>1
    <2> QED
      BY <2>1, <2>2
  <1>13. \A n \in 0..N : packed[n] \in X
    <2> DEFINE T == {n \in Nat : packed[n] \in X}
    <2>1. 0 \in T /\ \A n \in 1..N : n - 1 \in T => n \in T
      BY <1>2, <1>3, <1>12
    <2>2. \A n \in 0..N : n \in T
      <3> HIDE DEF T
      <3> QED
        BY <1>1, <2>1, UpTo
    <2> QED
      BY <1>1, <2>2
  <1>14. \A n \in 0..N : packed[n] \in Fitting(DOMAIN c, Nat \X Nat, s) /\ Distinct(packed[n])
    BY <1>13 DEF X
  <1>15. Turns(packed, c, s, order)
    BY <1>4, <1>12, <1>14, Zenon DEF N, Turns
  <1> QED
    BY <1>15, Zenon

LEMMA PackFits ==
  ASSUME Frame \in Nat, NEW c, Scored(c), NEW s, Bounded(s), NEW order \in Seq(DOMAIN c)
  PROVE  /\ R!Pack(c, s, order) \in Fitting(DOMAIN c, Nat \X Nat, s)
         /\ Distinct(R!Pack(c, s, order))
  <1>1. PICK f : Turns(f, c, s, order)
    BY PackUnfolds, Zenon
  <1>2. Len(order) \in 0..Len(order)
    OBVIOUS
  <1> QED
    BY <1>1, <1>2 DEF Turns

-----------------------------------------------------------------------------
(* The same for an application, which keeps the order it is given too.     *)

LEMMA ReferenceNextFits ==
  ASSUME Frame \in Nat, Margin \in Nat, NEW J, NEW lengths, \A x \in J : lengths[x] \in Nat,
         NEW s, Bounded(s), NEW x \in J, NEW acc \in Fitting(J, J, s)
  PROVE  /\ R!ReferenceNext(lengths, s, acc, x) \in Fitting(J, J, s)
         /\ R!ReferenceNext(lengths, s, acc, x).keys \subseteq acc.keys \cup {x}
         /\ Distinct(acc) /\ x \notin acc.keys => Distinct(R!ReferenceNext(lengths, s, acc, x))
  <1> DEFINE left == s.budget - acc.chars - R!Separator(acc)
             cut == R!Max({Frame, R!Min({left, Frame + left - Margin})})
             limit == R!Max({s.budget, Frame})
             next == R!ReferenceNext(lengths, s, acc, x)
             Goal == /\ next \in Fitting(J, J, s)
                     /\ next.keys \subseteq acc.keys \cup {x}
                     /\ Distinct(acc) /\ x \notin acc.keys => Distinct(next)
  <1>1. next = IF Len(acc.blocks) >= s.top_k \/ left <= 0 THEN acc
               ELSE IF Frame + lengths[x] <= left
               THEN R!Take(acc, x, x, Frame + lengths[x], "whole")
               ELSE IF acc.blocks = <<>> THEN R!Take(acc, x, x, cut, "cut")
               ELSE acc
    BY DEF R!ReferenceNext
  <1>2. /\ acc.blocks \in Seq(Block(J)) /\ acc.chars \in Int /\ Fits(acc, s)
        /\ Len(acc.blocks) \in Nat
    BY DEF Fitting, Packs
  <1>3. R!Separator(acc) = IF acc.blocks = <<>> THEN 0 ELSE 2
    BY DEF R!Separator
  <1>4. s.budget \in Nat /\ s.top_k \in Nat /\ left \in Int /\ left <= s.budget - acc.chars
    BY <1>2, <1>3 DEF Bounded
  <1>5. limit = IF s.budget >= Frame THEN s.budget ELSE Frame
    BY <1>4, LargerOfTwo
  <1>6. limit \in Int /\ s.budget <= limit /\ Frame <= limit
    BY <1>4, <1>5
  <1>7. acc.chars + R!Separator(acc) = s.budget - left
    BY <1>2, <1>3, <1>4
  <1>8. cut \in Int /\ Frame <= cut /\ (cut <= Frame \/ cut <= left)
    <2> DEFINE fit == R!Min({left, Frame + left - Margin})
    <2>1. fit = IF left <= Frame + left - Margin THEN left ELSE Frame + left - Margin
      BY <1>4, SmallerOfTwo
    <2>2. fit \in Int /\ fit <= left
      BY <1>4, <2>1
    <2> HIDE DEF fit
    <2>3. R!Max({Frame, fit}) = IF Frame >= fit THEN Frame ELSE fit
      BY <2>2, LargerOfTwo
    <2>4. cut = R!Max({Frame, fit})
      BY DEF fit
    <2> HIDE DEF cut
    <2> QED
      BY <2>2, <2>3, <2>4
  <1> HIDE DEF left, cut, limit, next
  <1>9. ASSUME ~(Len(acc.blocks) >= s.top_k),
               NEW length \in Int, acc.chars + R!Separator(acc) + length <= limit,
               NEW content \in {"whole", "child", "cut"},
               next = R!Take(acc, x, x, length, content)
        PROVE  Goal
    <2>1. Len(acc.blocks) < s.top_k
      BY <1>2, <1>4, <1>9
    <2>2. /\ R!Take(acc, x, x, length, content) \in Fitting(J, J, s)
          /\ R!Take(acc, x, x, length, content).keys = acc.keys \cup {x}
          /\ Distinct(acc) /\ x \notin acc.keys => Distinct(R!Take(acc, x, x, length, content))
      BY <1>4, <1>9, <2>1, TakeFits DEF limit
    <2> QED
      BY <1>9, <2>2
  <1>10. ASSUME next = acc PROVE Goal
    BY <1>10
  <1>11. ASSUME ~(Len(acc.blocks) >= s.top_k), ~(left <= 0) PROVE Goal
    <2>1. CASE Frame + lengths[x] <= left
      <3>1. next = R!Take(acc, x, x, Frame + lengths[x], "whole")
        BY <1>1, <1>11, <2>1
      <3>2. Frame + lengths[x] \in Int /\ "whole" \in {"whole", "child", "cut"}
        OBVIOUS
      <3>3. acc.chars + R!Separator(acc) + (Frame + lengths[x]) <= limit
        <4> DEFINE length == Frame + lengths[x]
        <4>1. length \in Int /\ length <= left /\ R!Separator(acc) \in Int
          BY <1>3, <2>1, <3>2
        <4> HIDE DEF length
        <4>2. acc.chars + R!Separator(acc) + length <= limit
          BY <1>2, <1>4, <1>6, <1>7, <4>1
        <4> QED
          BY <4>2 DEF length
      <3> HIDE DEF Goal
      <3> QED
        BY <1>9, <1>11, <3>1, <3>2, <3>3, Zenon
    <2>2. CASE ~(Frame + lengths[x] <= left) /\ acc.blocks = <<>>
      <3>1. next = R!Take(acc, x, x, cut, "cut")
        BY <1>1, <1>11, <2>2
      <3>2. acc.chars = 0 /\ R!Separator(acc) = 0
        <4>1. acc.chars = R!Joined(<<>>)
          BY <1>2, <2>2 DEF Fits
        <4> QED
          BY <1>2, <1>3, <2>2, <4>1, JoinedIsNumber
      <3>3. acc.chars + R!Separator(acc) + cut <= limit
        BY <1>4, <1>6, <1>7, <1>8, <3>2
      <3>4. "cut" \in {"whole", "child", "cut"}
        OBVIOUS
      <3> HIDE DEF Goal
      <3> QED
        BY <1>8, <1>9, <1>11, <3>1, <3>3, <3>4, Zenon
    <2>3. CASE ~(Frame + lengths[x] <= left) /\ acc.blocks # <<>>
      <3>1. next = acc
        BY <1>1, <1>11, <2>3
      <3> HIDE DEF Goal
      <3> QED
        BY <1>10, <3>1
    <2> QED
      BY <2>1, <2>2, <2>3
  <1>12. ASSUME Len(acc.blocks) >= s.top_k \/ left <= 0 PROVE Goal
    <2>1. next = acc
      BY <1>1, <1>12
    <2> HIDE DEF Goal
    <2> QED
      BY <1>10, <2>1
  <1> QED
    BY <1>11, <1>12 DEF next

LEMMA ReferenceNextAdds ==
  ASSUME NEW lengths, NEW s, NEW x, NEW acc
  PROVE  \/ R!ReferenceNext(lengths, s, acc, x) = acc
         \/ \E b : b.id = x /\ R!ReferenceNext(lengths, s, acc, x).blocks = Append(acc.blocks, b)
  <1> DEFINE next == R!ReferenceNext(lengths, s, acc, x)
  <1>1. \/ next = acc
        \/ \E length, content : next = R!Take(acc, x, x, length, content)
    BY Zenon DEF R!ReferenceNext
  <1>2. ASSUME NEW length, NEW content, next = R!Take(acc, x, x, length, content)
        PROVE  \E b : b.id = x /\ next.blocks = Append(acc.blocks, b)
    <2> DEFINE b == [id |-> x, length |-> length, content |-> content]
    <2>1. b.id = x /\ next.blocks = Append(acc.blocks, b)
      BY <1>2 DEF R!Take
    <2> HIDE DEF b, next
    <2> QED
      BY <2>1
  <1> HIDE DEF next
  <1>3. next = acc \/ \E b : b.id = x /\ next.blocks = Append(acc.blocks, b)
    BY <1>1, <1>2, Zenon
  <1> QED
    BY <1>3 DEF next

ReferenceTurns(f, J, lengths, s, order) ==
  /\ f[0] = R!Nothing
  /\ \A n \in 1..Len(order) : f[n] = R!ReferenceNext(lengths, s, f[n - 1], order[n])
  /\ \A n \in 0..Len(order) : f[n] \in Fitting(J, J, s)
  /\ R!PackReferences(lengths, order, s) = f[Len(order)]

LEMMA PackReferencesUnfolds ==
  ASSUME Frame \in Nat, Margin \in Nat, NEW J, NEW lengths, \A x \in J : lengths[x] \in Nat,
         NEW s, Bounded(s), NEW order \in Seq(J)
  PROVE  \E f : ReferenceTurns(f, J, lengths, s, order)
  <1> DEFINE N == Len(order)
             X == Fitting(J, J, s)
             step == [n \in 1..N |-> [acc \in X |-> R!ReferenceNext(lengths, s, acc, order[n])]]
             Packed(f) == f = [n \in 0..N |-> IF n = 0 THEN R!Nothing
                                              ELSE R!ReferenceNext(lengths, s, f[n - 1], order[n])]
             packed == CHOOSE f : Packed(f)
  <1>1. N \in Nat /\ \A n \in 1..N : order[n] \in J
    OBVIOUS
  <1>2. ASSUME NEW n \in 1..N, NEW acc \in X
        PROVE  R!ReferenceNext(lengths, s, acc, order[n]) \in X
    <2>1. order[n] \in J
      BY <1>1
    <2> QED
      BY <2>1, ReferenceNextFits
  <1>3. R!Nothing \in X
    BY NothingFits
  <1>4. R!PackReferences(lengths, order, s) = packed[N]
    BY DEF R!PackReferences
  <1> HIDE DEF N, X
  <1>6. \A n \in 1..N : \A acc \in X : step[n][acc] = R!ReferenceNext(lengths, s, acc, order[n])
    OBVIOUS
  <1> HIDE DEF step
  <1>7. Moves(step, N, X)
    BY <1>2, <1>6 DEF Moves
  <1>8. PICK f : Runs(f, step, N, R!Nothing, X)
    BY <1>1, <1>3, <1>7, RecursionWorks
  <1>9. f \in [0..N -> X] /\ f[0] = R!Nothing /\ \A n \in 1..N : f[n] = step[n][f[n - 1]]
    BY <1>8 DEF Runs
  <1>10. \A n \in 1..N : f[n] = R!ReferenceNext(lengths, s, f[n - 1], order[n])
    <2> SUFFICES ASSUME NEW n \in 1..N PROVE f[n] = R!ReferenceNext(lengths, s, f[n - 1], order[n])
      OBVIOUS
    <2>1. f[n - 1] \in X
      BY <1>1, <1>9
    <2> QED
      BY <1>6, <1>9, <2>1
  <1>11. Packed(f)
    <2>1. \A n \in 0..N : f[n] = IF n = 0 THEN R!Nothing ELSE R!ReferenceNext(lengths, s, f[n - 1], order[n])
      BY <1>1, <1>9, <1>10
    <2> QED
      BY <1>9, <2>1
  <1>12. Packed(packed)
    <2> HIDE DEF Packed
    <2> QED
      BY <1>11, Zenon
  <1> HIDE DEF packed
  <1>13. /\ packed[0] = R!Nothing
         /\ \A n \in 1..N : packed[n] = R!ReferenceNext(lengths, s, packed[n - 1], order[n])
    <2>1. \A n \in 0..N : packed[n] = IF n = 0 THEN R!Nothing
                                      ELSE R!ReferenceNext(lengths, s, packed[n - 1], order[n])
      BY <1>12
    <2>2. 0 \in 0..N /\ \A n \in 1..N : n \in 0..N /\ n # 0
      BY <1>1
    <2> QED
      BY <2>1, <2>2
  <1>14. \A n \in 0..N : packed[n] \in X
    <2> DEFINE T == {n \in Nat : packed[n] \in X}
    <2>1. 0 \in T /\ \A n \in 1..N : n - 1 \in T => n \in T
      BY <1>2, <1>3, <1>13
    <2>2. \A n \in 0..N : n \in T
      <3> HIDE DEF T
      <3> QED
        BY <1>1, <2>1, UpTo
    <2> QED
      BY <1>1, <2>2
  <1>15. \A n \in 0..N : packed[n] \in Fitting(J, J, s)
    BY <1>14 DEF X
  <1>16. ReferenceTurns(packed, J, lengths, s, order)
    BY <1>4, <1>13, <1>15, Zenon DEF N, ReferenceTurns
  <1> QED
    BY <1>16, Zenon

(* References are packed in their order, and none of them twice.           *)
LEMMA PackReferencesFits ==
  ASSUME Frame \in Nat, Margin \in Nat, NEW J, NEW lengths, \A x \in J : lengths[x] \in Nat,
         NEW s, Bounded(s), NEW order \in Seq(J), NEW before,
         \A m, n \in 1..Len(order) : m < n => order[m] # order[n] /\ <<order[m], order[n]>> \in before
  PROVE  LET packed == R!PackReferences(lengths, order, s)
         IN /\ packed \in Fitting(J, J, s)
            /\ Distinct(packed)
            /\ \A m, n \in 1..Len(packed.blocks) :
                 m < n => <<packed.blocks[m].id, packed.blocks[n].id>> \in before
  <1> DEFINE N == Len(order)
             Used(n) == {order[m] : m \in 1..n}
  <1>1. N \in Nat
    OBVIOUS
  <1>f. PICK f : ReferenceTurns(f, J, lengths, s, order)
    BY PackReferencesUnfolds, Zenon
  <1>2. /\ f[0] = R!Nothing
        /\ \A n \in 1..N : f[n] = R!ReferenceNext(lengths, s, f[n - 1], order[n])
        /\ \A n \in 0..N : f[n] \in Fitting(J, J, s)
        /\ R!PackReferences(lengths, order, s) = f[N]
    BY <1>f, Zenon DEF ReferenceTurns
  <1>3. \A m, n \in 1..N : m < n => order[m] # order[n] /\ <<order[m], order[n]>> \in before
    OBVIOUS
  <1>4. \A n \in 1..N : order[n] \in J
    OBVIOUS
  <1>5. \A n \in 0..N : f[n].blocks \in Seq(Block(J))
    BY <1>2 DEF Fitting, Packs
  <1> HIDE DEF N
  <1>6. ASSUME NEW n \in 1..N, NEW x \in Used(n - 1) PROVE x # order[n] /\ <<x, order[n]>> \in before
    <2>1. PICK m \in 1..(n - 1) : x = order[m]
      OBVIOUS
    <2>2. m \in 1..N /\ m < n
      BY <1>1
    <2> QED
      BY <1>3, <2>1, <2>2
  <1>7. ASSUME NEW n \in 1..N PROVE order[n] \in Used(n) /\ Used(n - 1) \subseteq Used(n)
    BY <1>1
  <1>8. Used(0) = {}
    OBVIOUS
  <1> HIDE DEF Used
  <1> DEFINE Row(n) == /\ Distinct(f[n]) /\ f[n].keys \subseteq Used(n)
                       /\ \A k \in 1..Len(f[n].blocks) : f[n].blocks[k].id \in Used(n)
                       /\ \A k, l \in 1..Len(f[n].blocks) :
                            k < l => <<f[n].blocks[k].id, f[n].blocks[l].id>> \in before
             T == {n \in 0..N : Row(n)}
  <1>9. 0 \in T
    <2>1. f[0].blocks = <<>> /\ Distinct(f[0]) /\ f[0].keys = {}
      BY <1>2, NothingFits DEF R!Nothing
    <2>2. Len(f[0].blocks) = 0
      BY <2>1
    <2> QED
      BY <1>1, <2>1, <2>2
  <1>10. ASSUME NEW n \in 1..N, n - 1 \in T PROVE n \in T
    <2>1. n \in 0..N /\ n - 1 \in 0..N /\ order[n] \in J
      BY <1>1, <1>4
    <2>2. f[n - 1] \in Fitting(J, J, s) /\ f[n] = R!ReferenceNext(lengths, s, f[n - 1], order[n])
      BY <1>2, <2>1
    <2>3. Row(n - 1)
      BY <1>10
    <2>4. order[n] \notin f[n - 1].keys
      BY <1>6, <2>3
    <2>5. Distinct(f[n]) /\ f[n].keys \subseteq f[n - 1].keys \cup {order[n]}
      <3> DEFINE acc == f[n - 1]
                 x == order[n]
      <3>1. acc \in Fitting(J, J, s) /\ x \in J
        BY <2>1, <2>2
      <3> HIDE DEF acc, x
      <3>2. /\ R!ReferenceNext(lengths, s, acc, x).keys \subseteq acc.keys \cup {x}
            /\ Distinct(acc) /\ x \notin acc.keys => Distinct(R!ReferenceNext(lengths, s, acc, x))
        BY <3>1, ReferenceNextFits
      <3>3. Distinct(acc) /\ x \notin acc.keys
        BY <2>3, <2>4 DEF acc, x
      <3>4. f[n] = R!ReferenceNext(lengths, s, acc, x)
        BY <2>2 DEF acc, x
      <3>5. Distinct(f[n]) /\ f[n].keys \subseteq acc.keys \cup {x}
        BY <3>2, <3>3, <3>4
      <3> QED
        BY <3>5 DEF acc, x
    <2>6. f[n].keys \subseteq Used(n)
      BY <1>7, <2>3, <2>5
    <2>7. f[n] = f[n - 1] \/ \E b : b.id = order[n] /\ f[n].blocks = Append(f[n - 1].blocks, b)
      BY <2>2, ReferenceNextAdds
    <2>8. /\ \A k \in 1..Len(f[n].blocks) : f[n].blocks[k].id \in Used(n)
          /\ \A k, l \in 1..Len(f[n].blocks) :
               k < l => <<f[n].blocks[k].id, f[n].blocks[l].id>> \in before
      <3>1. CASE f[n] = f[n - 1]
        BY <1>7, <2>3, <3>1
      <3>2. ASSUME NEW b, b.id = order[n], f[n].blocks = Append(f[n - 1].blocks, b)
            PROVE  /\ \A k \in 1..Len(f[n].blocks) : f[n].blocks[k].id \in Used(n)
                   /\ \A k, l \in 1..Len(f[n].blocks) :
                        k < l => <<f[n].blocks[k].id, f[n].blocks[l].id>> \in before
        <4> DEFINE old == f[n - 1].blocks
                   new == f[n].blocks
                   m == Len(old)
        <4>1. old \in Seq(Block(J)) /\ m \in Nat
          BY <1>5, <2>1
        <4>2. /\ Len(new) = m + 1 /\ new[m + 1] = b
              /\ \A k \in 1..m : new[k] = old[k]
          BY <3>2, <4>1
        <4>3. /\ \A k \in 1..m : old[k].id \in Used(n - 1)
              /\ \A k, l \in 1..m : k < l => <<old[k].id, old[l].id>> \in before
          BY <2>3
        <4> HIDE DEF old, new, m
        <4>4. \A k \in 1..(m + 1) : k \in 1..m \/ k = m + 1
          BY <4>1
        <4>5. \A k \in 1..(m + 1) : new[k].id \in Used(n)
          BY <1>7, <3>2, <4>2, <4>3, <4>4
        <4>6. ASSUME NEW k \in 1..(m + 1), NEW l \in 1..(m + 1), k < l
              PROVE  <<new[k].id, new[l].id>> \in before
          <5>1. k \in 1..m
            BY <4>1, <4>6
          <5>2. CASE l \in 1..m
            BY <4>2, <4>3, <4>6, <5>1, <5>2
          <5>3. CASE l = m + 1
            <6>1. new[l].id = order[n] /\ new[k].id = old[k].id /\ old[k].id \in Used(n - 1)
              BY <3>2, <4>2, <4>3, <5>1, <5>3
            <6> QED
              BY <1>6, <6>1
          <5> QED
            BY <4>4, <5>2, <5>3
        <4> QED
          BY <4>2, <4>5, <4>6 DEF new
      <3> QED
        BY <2>7, <3>1, <3>2
    <2> QED
      BY <2>1, <2>5, <2>6, <2>8
  <1>11. N \in T
    <2> HIDE DEF T
    <2>1. \A k \in 0..N : k \in T
      BY <1>1, <1>9, <1>10, UpTo
    <2> QED
      BY <1>1, <2>1
  <1> QED
    BY <1>1, <1>2, <1>11

-----------------------------------------------------------------------------
(* References of several knowledge bases are in one order by their weight. *)

(* Weights of 1 or 2 over ranks that start at 60.                          *)
LEMMA FractionsOrder ==
  ASSUME NEW a \in Nat, NEW b \in Nat, NEW c \in Nat, NEW u \in 1..2, NEW v \in 1..2, NEW w \in 1..2
  PROVE  /\ u * (60 + b) \in Nat
         /\ u * (60 + b) > v * (60 + a) /\ v * (60 + c) >= w * (60 + b) => u * (60 + c) > w * (60 + a)
         /\ u * (60 + b) >= v * (60 + a) /\ v * (60 + c) > w * (60 + b) => u * (60 + c) > w * (60 + a)
         /\ u * (60 + b) = v * (60 + a) /\ v * (60 + c) = w * (60 + b) => u * (60 + c) = w * (60 + a)
  <1>1. CASE u = 1
    <2>1. CASE v = 1 /\ w = 1
      BY <1>1, <2>1
    <2>2. CASE v = 1 /\ w = 2
      BY <1>1, <2>2
    <2>3. CASE v = 2 /\ w = 1
      BY <1>1, <2>3
    <2>4. CASE v = 2 /\ w = 2
      BY <1>1, <2>4
    <2> QED
      BY <2>1, <2>2, <2>3, <2>4
  <1>2. CASE u = 2
    <2>1. CASE v = 1 /\ w = 1
      BY <1>2, <2>1
    <2>2. CASE v = 1 /\ w = 2
      BY <1>2, <2>2
    <2>3. CASE v = 2 /\ w = 1
      BY <1>2, <2>3
    <2>4. CASE v = 2 /\ w = 2
      BY <1>2, <2>4
    <2> QED
      BY <2>1, <2>2, <2>3, <2>4
  <1> QED
    BY <1>1, <1>2

ByOutweighing(weights, U) == {p \in U \X U : R!Outweighs(weights, p[1], p[2])}

LEMMA WeightsOrder ==
  ASSUME NEW U, U \subseteq (1..2) \X Nat, NEW weights \in [1..2 -> 1..2]
  PROVE  /\ Orders(ByOutweighing(weights, U), U)
         /\ \A x, y \in U : <<x, y>> \in ByOutweighing(weights, U) <=> R!Outweighs(weights, x, y)
  <1> DEFINE before == ByOutweighing(weights, U)
             W(x) == weights[x[1]]
  <1>1. \A x, y \in U : <<x, y>> \in before <=> R!Outweighs(weights, x, y)
    BY DEF ByOutweighing
  <1>2. ASSUME NEW x \in U
        PROVE  /\ W(x) \in 1..2 /\ x[2] \in Nat /\ Len(x) = 2 /\ \A k \in 1..2 : x[k] \in Int
    <2>1. x[1] \in 1..2 /\ x[2] \in Nat /\ x = <<x[1], x[2]>>
      OBVIOUS
    <2>2. Len(x) = 2
      BY <2>1
    <2>3. \A k \in 1..2 : k = 1 \/ k = 2
      OBVIOUS
    <2>4. \A k \in 1..2 : x[k] \in Int
      BY <2>1, <2>3
    <2> QED
      BY <2>1, <2>2, <2>4
  <1>3. \A x, y \in U : R!Outweighs(weights, x, y) <=>
          \/ W(x) * (60 + y[2]) > W(y) * (60 + x[2])
          \/ W(x) * (60 + y[2]) = W(y) * (60 + x[2]) /\ R!Less(x, y)
    BY DEF R!Outweighs
  <1>4. ASSUME NEW x \in U, NEW y \in U, NEW z \in U
        PROVE  /\ ~ R!Less(x, x)
               /\ R!Less(x, y) /\ R!Less(y, z) => R!Less(x, z)
               /\ x # y => R!Less(x, y) \/ R!Less(y, x)
    <2>1. /\ ~ R!Less(x, x)
          /\ R!Less(x, y) /\ R!Less(y, z) => R!Less(x, z)
          /\ (\E k \in 1..2 : x[k] # y[k]) => R!Less(x, y) \/ R!Less(y, x)
      <3> DEFINE m == 2
      <3>1. m \in Nat /\ Len(x) = m /\ Len(y) = m /\ Len(z) = m
        BY <1>2
      <3>2. \A k \in 1..m : x[k] \in Int /\ y[k] \in Int /\ z[k] \in Int
        BY <1>2
      <3> HIDE DEF m
      <3>3. /\ ~ R!Less(x, x)
            /\ R!Less(x, y) /\ R!Less(y, z) => R!Less(x, z)
            /\ (\E k \in 1..m : x[k] # y[k]) => R!Less(x, y) \/ R!Less(y, x)
        BY <3>1, <3>2, LessIsStrict, ZenonT(60)
      <3> QED
        BY <3>3 DEF m
    <2>2. x # y => \E k \in 1..2 : x[k] # y[k]
      <3>1. x = <<x[1], x[2]>> /\ y = <<y[1], y[2]>> /\ 1 \in 1..2 /\ 2 \in 1..2
        OBVIOUS
      <3> QED
        BY <3>1
    <2> QED
      BY <2>1, <2>2
  <1> HIDE DEF before
  <1>5. ASSUME NEW x \in U PROVE <<x, x>> \notin before
    <2>1. W(x) * (60 + x[2]) \in Nat
      BY <1>2, FractionsOrder
    <2> QED
      BY <1>1, <1>3, <1>4, <2>1
  <1>6. ASSUME NEW x \in U, NEW y \in U, NEW z \in U, <<x, y>> \in before, <<y, z>> \in before
        PROVE  <<x, z>> \in before
    <2> DEFINE u == W(x)
               v == W(y)
               w == W(z)
               a == x[2]
               b == y[2]
               c == z[2]
    <2>1. a \in Nat /\ b \in Nat /\ c \in Nat /\ u \in 1..2 /\ v \in 1..2 /\ w \in 1..2
      BY <1>2
    <2>2. u * (60 + b) > v * (60 + a) \/ (u * (60 + b) = v * (60 + a) /\ R!Less(x, y))
      BY <1>1, <1>3, <1>6
    <2>3. v * (60 + c) > w * (60 + b) \/ (v * (60 + c) = w * (60 + b) /\ R!Less(y, z))
      BY <1>1, <1>3, <1>6
    <2>4. u * (60 + c) > w * (60 + a) \/ (u * (60 + c) = w * (60 + a) /\ R!Less(x, z))
      <3> HIDE DEF u, v, w, a, b, c
      <3>1. /\ u * (60 + b) \in Nat /\ v * (60 + a) \in Nat /\ v * (60 + c) \in Nat /\ w * (60 + b) \in Nat
        BY <2>1, FractionsOrder
      <3>2. /\ u * (60 + b) > v * (60 + a) /\ v * (60 + c) >= w * (60 + b) => u * (60 + c) > w * (60 + a)
            /\ u * (60 + b) >= v * (60 + a) /\ v * (60 + c) > w * (60 + b) => u * (60 + c) > w * (60 + a)
            /\ u * (60 + b) = v * (60 + a) /\ v * (60 + c) = w * (60 + b) => u * (60 + c) = w * (60 + a)
        BY <2>1, FractionsOrder
      <3>3. CASE u * (60 + b) > v * (60 + a)
        BY <2>3, <3>1, <3>2, <3>3
      <3>4. CASE u * (60 + b) = v * (60 + a) /\ R!Less(x, y)
        <4>1. CASE v * (60 + c) > w * (60 + b)
          BY <3>1, <3>2, <3>4, <4>1
        <4>2. CASE v * (60 + c) = w * (60 + b) /\ R!Less(y, z)
          BY <1>4, <3>2, <3>4, <4>2
        <4> QED
          BY <2>3, <4>1, <4>2
      <3> QED
        BY <2>2, <3>3, <3>4
    <2> QED
      BY <1>1, <1>3, <2>4
  <1>7. ASSUME NEW x \in U, NEW y \in U, x # y PROVE <<x, y>> \in before \/ <<y, x>> \in before
    <2> DEFINE p == W(x) * (60 + y[2])
               q == W(y) * (60 + x[2])
    <2>1. p \in Nat /\ q \in Nat
      BY <1>2, FractionsOrder
    <2>2. R!Less(x, y) \/ R!Less(y, x)
      BY <1>4, <1>7
    <2>3. p > q \/ p = q \/ q > p
      <3> HIDE DEF p, q
      <3> QED
        BY <2>1
    <2>4. /\ R!Outweighs(weights, x, y) <=> p > q \/ (p = q /\ R!Less(x, y))
          /\ R!Outweighs(weights, y, x) <=> q > p \/ (q = p /\ R!Less(y, x))
      BY <1>3
    <2> HIDE DEF p, q
    <2> QED
      BY <1>1, <2>2, <2>3, <2>4
  <1> QED
    BY <1>1, <1>5, <1>6, <1>7 DEF Orders, before

LEMMA ByWeightSorts ==
  ASSUME NEW U, IsFiniteSet(U), U \subseteq (1..2) \X Nat, NEW weights \in [1..2 -> 1..2]
  PROVE  Sorts(R!ByWeight(U, weights), ByOutweighing(weights, U), U)
  <1>1. PICK s : Sorts(s, ByOutweighing(weights, U), U)
    BY WeightsOrder, SortedExists
  <1>2. Cardinality(U) = R!Cardinality(U)
    BY SameFiniteSets
  <1> DEFINE N == R!Cardinality(U)
             Sorted(t) == \A i, j \in 1..N : i < j => R!Outweighs(weights, t[i], t[j])
  <1>3. s \in [1..N -> U] /\ Sorted(s)
    BY <1>1, <1>2, WeightsOrder DEF Sorts
  <1>4. R!ByWeight(U, weights) = CHOOSE t \in [1..N -> U] : Sorted(t)
    BY DEF R!ByWeight
  <1> DEFINE r == R!ByWeight(U, weights)
  <1>5. r \in [1..N -> U] /\ Sorted(r)
    <2> HIDE DEF Sorted, N
    <2> QED
      BY <1>3, <1>4, Zenon
  <1> QED
    BY <1>2, <1>5, WeightsOrder DEF Sorts

(* A sorted sequence is a sequence, and names nothing twice.               *)
LEMMA SortsOnce ==
  ASSUME NEW U, IsFiniteSet(U), NEW before, Orders(before, U), NEW s, Sorts(s, before, U)
  PROVE  /\ s \in Seq(U) /\ Len(s) = Cardinality(U)
         /\ \A m, n \in 1..Len(s) : m < n => s[m] # s[n]
         /\ \A i \in U : \E n \in 1..Len(s) : s[n] = i
  <1>1. Cardinality(U) \in Nat
    BY FS_CardinalityType
  <1>2. s \in Seq(U) /\ Len(s) = Cardinality(U)
    BY <1>1 DEF Sorts
  <1>3. ASSUME NEW m \in 1..Cardinality(U), NEW n \in 1..Cardinality(U), m < n PROVE s[m] # s[n]
    <2>1. <<s[m], s[n]>> \in before /\ s[m] \in U /\ s[n] \in U
      BY <1>3 DEF Sorts
    <2> QED
      BY <2>1, Zenon DEF Orders
  <1> QED
    BY <1>2, <1>3, SortedPlaces

-----------------------------------------------------------------------------
(* The lists of candidates, their scores and what the modes sort them by.  *)

Settled(s) ==
  /\ Bounded(s)
  /\ s.vector_k \in Nat /\ s.keyword_k \in Nat /\ s.rrf_k \in Nat
  /\ s.threshold \in Nat /\ s.weight \in 0..10 /\ s.rerank_k \in Nat

LEMMA FirstIsSequence ==
  ASSUME NEW U, NEW s \in Seq(U), NEW n \in Nat
  PROVE  /\ R!First(n, s) \in Seq(U)
         /\ Len(R!First(n, s)) = IF n < Len(s) THEN n ELSE Len(s)
         /\ \A k \in 1..Len(R!First(n, s)) : R!First(n, s)[k] = s[k]
         /\ R!ToSet(R!First(n, s)) \subseteq U
  <1> DEFINE m == IF n < Len(s) THEN n ELSE Len(s)
  <1>1. m \in Nat /\ m <= Len(s) /\ Len(s) \in Nat
    OBVIOUS
  <1>2. R!First(n, s) = SubSeq(s, 1, m)
    BY DEF R!First
  <1> HIDE DEF m
  <1>3. SubSeq(s, 1, m) \in Seq(U) /\ Len(SubSeq(s, 1, m)) = m
    BY <1>1
  <1>4. \A k \in 1..m : SubSeq(s, 1, m)[k] = s[k]
    BY <1>1
  <1>5. R!ToSet(R!First(n, s)) \subseteq U
    <2> DEFINE f == R!First(n, s)
    <2>1. f \in Seq(U)
      BY <1>2, <1>3
    <2>2. R!ToSet(f) = {f[k] : k \in DOMAIN f}
      BY DEF R!ToSet
    <2> HIDE DEF f
    <2>3. \A k \in DOMAIN f : f[k] \in U
      BY <2>1
    <2>4. R!ToSet(f) \subseteq U
      BY <2>2, <2>3
    <2> QED
      BY <2>4 DEF f
  <1> QED
    BY <1>2, <1>3, <1>4, <1>5 DEF m

LEMMA RankIsNumber ==
  ASSUME NEW U, NEW s \in Seq(U), NEW i
  PROVE  R!Rank(s, i) \in Nat \ {0}
  <1>1. R!Rank(s, i) = IF i \in R!ToSet(s) THEN CHOOSE k \in DOMAIN s : s[k] = i ELSE R!Unranked
    BY DEF R!Rank
  <1>2. R!Unranked = 1000
    BY DEF R!Unranked
  <1>3. ASSUME i \in R!ToSet(s) PROVE (CHOOSE k \in DOMAIN s : s[k] = i) \in DOMAIN s
    <2>1. R!ToSet(s) = {s[k] : k \in DOMAIN s}
      BY DEF R!ToSet
    <2>2. \E k \in DOMAIN s : s[k] = i
      BY <1>3, <2>1
    <2> QED
      BY <2>2, Zenon
  <1>4. \A k \in DOMAIN s : k \in Nat \ {0}
    OBVIOUS
  <1>5. CASE i \in R!ToSet(s)
    <2> DEFINE r == CHOOSE k \in DOMAIN s : s[k] = i
    <2>1. r \in Nat \ {0}
      BY <1>3, <1>4, <1>5
    <2>2. R!Rank(s, i) = r
      BY <1>1, <1>5
    <2> HIDE DEF r
    <2> QED
      BY <2>1, <2>2
  <1>6. CASE i \notin R!ToSet(s)
    BY <1>1, <1>2, <1>6
  <1> QED
    BY <1>5, <1>6

LEMMA Quotient ==
  ASSUME NEW i \in Int, NEW j \in Nat \ {0}
  PROVE  i \div j \in Int /\ (i >= 0 => i \div j >= 0)
  OBVIOUS

LEMMA Product ==
  ASSUME NEW i \in Int, NEW j \in Int
  PROVE  i * j \in Int
  OBVIOUS

LEMMA KeywordIsNumber ==
  ASSUME NEW c, Scored(c), Full \in Nat, NEW i \in DOMAIN c
  PROVE  R!Keyword(c)[i] \in Int
  <1> DEFINE raw == {c[j].kw : j \in DOMAIN c}
             best == R!Max(raw)
  <1>1. R!Keyword(c)[i] = IF best = 0 THEN 0 ELSE (c[i].kw * Full) \div best
    BY DEF R!Keyword
  <1>2. IsFiniteSet(raw)
    <2> DEFINE f == [j \in DOMAIN c |-> c[j].kw]
    <2>1. f \in [DOMAIN c -> raw]
      OBVIOUS
    <2>2. f \in Surjection(DOMAIN c, raw)
      BY <2>1 DEF Surjection
    <2> HIDE DEF f, raw
    <2> QED
      BY <2>2, FS_Surjection DEF Scored
  <1>3. raw \subseteq Nat /\ raw # {}
    BY DEF Scored
  <1>4. best \in Nat
    <2> HIDE DEF raw
    <2>1. raw \subseteq Int
      BY <1>3
    <2> QED
      BY <1>2, <1>3, <2>1, FiniteMax
  <1>5. c[i].kw * Full \in Int
    <2>1. c[i].kw \in Int /\ Full \in Int
      BY DEF Scored
    <2> QED
      BY <2>1, Product
  <1> HIDE DEF best
  <1>6. best # 0 => (c[i].kw * Full) \div best \in Int
    BY <1>4, <1>5, Quotient
  <1> QED
    BY <1>1, <1>6

(* Keys of the modes: they all end with the number of the passage.         *)
LEMMA NearnessTells ==
  ASSUME NEW c, Scored(c)
  PROVE  /\ Tells([i \in DOMAIN c |-> <<-c[i].vec, i>>], 2, DOMAIN c)
         /\ R!Nearness(c) \in Seq(DOMAIN c)
  <1> DEFINE key == [i \in DOMAIN c |-> <<-c[i].vec, i>>]
  <1>1. \A i \in DOMAIN c : i \in Int /\ c[i].vec \in Int /\ -c[i].vec \in Int
    BY DEF Scored
  <1>2. \A i \in DOMAIN c : Len(key[i]) = 2 /\ key[i][1] \in Int /\ key[i][2] = i
    BY <1>1
  <1> HIDE DEF key
  <1>3. Tells(key, 2, DOMAIN c)
    <2>1. \A k \in 1..2 : k = 1 \/ k = 2
      OBVIOUS
    <2>2. \A i \in DOMAIN c : \A k \in 1..2 : key[i][k] \in Int
      BY <1>1, <1>2, <2>1
    <2>3. \A i, j \in DOMAIN c : i # j => key[i][2] # key[j][2]
      BY <1>2
    <2>4. 2 \in 1..2 /\ 2 \in Nat
      OBVIOUS
    <2> QED
      BY <1>2, <2>2, <2>3, <2>4 DEF Tells
  <1>4. R!Nearness(c) = R!Ordered(DOMAIN c, key)
    BY DEF R!Nearness, key
  <1>5. Sorts(R!Ordered(DOMAIN c, key), ByKey(key, DOMAIN c), DOMAIN c)
    BY <1>3, OrderedSorts DEF Scored
  <1>6. R!Ordered(DOMAIN c, key) \in Seq(DOMAIN c)
    BY <1>3, <1>5, KeysOrder, SortsOnce DEF Scored
  <1> QED
    BY <1>3, <1>4, <1>6 DEF key

LEMMA LastTells ==
  ASSUME NEW U, NEW m \in Nat \ {0}, NEW key,
         \A i \in U : Len(key[i]) = m /\ (\A k \in 1..m : key[i][k] \in Int) /\ key[i][m] = i
  PROVE  Tells(key, m, U)
  <1>1. \A i, j \in U : i # j => key[i][m] # key[j][m]
    OBVIOUS
  <1>2. m \in 1..m
    OBVIOUS
  <1> QED
    BY <1>1, <1>2 DEF Tells

LEMMA KeywordKeyTells ==
  ASSUME NEW c, Scored(c), Full \in Nat, NEW x \in [DOMAIN c -> Int]
  PROVE  Tells([i \in DOMAIN c |-> <<-x[i], -c[i].vec, i>>], 3, DOMAIN c)
  <1> DEFINE key == [i \in DOMAIN c |-> <<-x[i], -c[i].vec, i>>]
  <1>1. \A i \in DOMAIN c : -x[i] \in Int /\ -c[i].vec \in Int /\ i \in Int
    BY DEF Scored
  <1>2. \A i \in DOMAIN c : /\ Len(key[i]) = 3
                            /\ key[i][1] = -x[i] /\ key[i][2] = -c[i].vec /\ key[i][3] = i
    OBVIOUS
  <1>3. \A k \in 1..3 : k = 1 \/ k = 2 \/ k = 3
    OBVIOUS
  <1> HIDE DEF key
  <1>4. \A i \in DOMAIN c : \A k \in 1..3 : key[i][k] \in Int
    BY <1>1, <1>2, <1>3
  <1> DEFINE m == 3
  <1>5. m \in Nat \ {0} /\ \A i \in DOMAIN c : Len(key[i]) = m /\ (\A k \in 1..m : key[i][k] \in Int) /\ key[i][m] = i
    BY <1>2, <1>4
  <1> HIDE DEF m
  <1>6. Tells(key, m, DOMAIN c)
    BY <1>5, LastTells
  <1> QED
    BY <1>6 DEF m, key

LEMMA TellsPart ==
  ASSUME NEW U, NEW V, V \subseteq U, NEW m, NEW key, Tells(key, m, U)
  PROVE  Tells(key, m, V)
  BY DEF Tells

LEMMA OrderedIsSequence ==
  ASSUME NEW U, IsFiniteSet(U), NEW m, NEW key, Tells(key, m, U)
  PROVE  R!Ordered(U, key) \in Seq(U)
  <1>1. Sorts(R!Ordered(U, key), ByKey(key, U), U)
    BY OrderedSorts
  <1> QED
    BY <1>1, KeysOrder, SortsOnce

LEMMA KeywordOrderIsSequence ==
  ASSUME NEW c, Scored(c), Full \in Nat
  PROVE  R!Ordered({i \in DOMAIN c : c[i].kw > 0},
                   [i \in DOMAIN c |-> <<-R!Keyword(c)[i], -c[i].vec, i>>]) \in Seq(DOMAIN c)
  <1> DEFINE U == {i \in DOMAIN c : c[i].kw > 0}
             x == [i \in DOMAIN c |-> R!Keyword(c)[i]]
             key == [i \in DOMAIN c |-> <<-x[i], -c[i].vec, i>>]
  <1>1. x \in [DOMAIN c -> Int]
    BY KeywordIsNumber
  <1>2. Tells(key, 3, DOMAIN c)
    <2> HIDE DEF x
    <2> QED
      BY <1>1, KeywordKeyTells
  <1>3. key = [i \in DOMAIN c |-> <<-R!Keyword(c)[i], -c[i].vec, i>>]
    OBVIOUS
  <1>4. U \subseteq DOMAIN c /\ IsFiniteSet(U)
    BY FS_Subset DEF Scored
  <1> HIDE DEF key
  <1>5. R!Ordered(U, key) \in Seq(U)
    BY <1>2, <1>4, TellsPart, OrderedIsSequence
  <1>6. R!Ordered(U, key) \in Seq(DOMAIN c)
    BY <1>4, <1>5
  <1> QED
    BY <1>3, <1>6

LEMMA ListsAreSequences ==
  ASSUME NEW c, Scored(c), Full \in Nat, NEW s, Settled(s)
  PROVE  /\ R!VectorRanks(c, s) \in Seq(DOMAIN c)
         /\ R!ToSet(R!VectorRanks(c, s)) \subseteq DOMAIN c
         /\ R!KeywordRanks(c, s) \in Seq(DOMAIN c)
         /\ R!ToSet(R!KeywordRanks(c, s)) \subseteq DOMAIN c
  <1>1. s.vector_k \in Nat /\ s.keyword_k \in Nat
    BY DEF Settled
  <1>2. R!VectorRanks(c, s) \in Seq(DOMAIN c) /\ R!ToSet(R!VectorRanks(c, s)) \subseteq DOMAIN c
    <2>1. R!Nearness(c) \in Seq(DOMAIN c)
      BY NearnessTells
    <2> QED
      BY <1>1, <2>1, FirstIsSequence DEF R!VectorRanks
  <1>3. R!KeywordRanks(c, s) \in Seq(DOMAIN c) /\ R!ToSet(R!KeywordRanks(c, s)) \subseteq DOMAIN c
    <2> DEFINE U == {i \in DOMAIN c : c[i].kw > 0}
               key == [i \in DOMAIN c |-> <<-R!Keyword(c)[i], -c[i].vec, i>>]
    <2>1. R!KeywordRanks(c, s) = R!First(s.keyword_k, R!Ordered(U, key))
      BY DEF R!KeywordRanks
    <2>2. R!Ordered(U, key) \in Seq(DOMAIN c)
      BY KeywordOrderIsSequence
    <2> HIDE DEF U, key
    <2> QED
      BY <1>1, <2>1, <2>2, FirstIsSequence
  <1> QED
    BY <1>2, <1>3

LEMMA FusedIsNumber ==
  ASSUME NEW c, Scored(c), Full \in Nat, Scale \in Nat, NEW s, Settled(s)
  PROVE  /\ DOMAIN R!Fused(c, s) = R!ToSet(R!VectorRanks(c, s)) \cup R!ToSet(R!KeywordRanks(c, s))
         /\ DOMAIN R!Fused(c, s) \subseteq DOMAIN c
         /\ \A i \in DOMAIN R!Fused(c, s) : R!Fused(c, s)[i] \in Nat
  <1> DEFINE v == R!VectorRanks(c, s)
             k == R!KeywordRanks(c, s)
             U == R!ToSet(v) \cup R!ToSet(k)
  <1>1. v \in Seq(DOMAIN c) /\ k \in Seq(DOMAIN c) /\ U \subseteq DOMAIN c
    BY ListsAreSequences
  <1>2. R!Fused(c, s) = [i \in U |-> R!Share(s, R!Rank(v, i)) + R!Share(s, R!Rank(k, i))]
    BY DEF R!Fused
  <1>3. \A r \in Nat \ {0} : R!Share(s, r) \in Nat
    <2> TAKE r \in Nat \ {0}
    <2>1. s.rrf_k + r \in Nat \ {0}
      BY DEF Settled
    <2>2. Scale \div (s.rrf_k + r) \in Nat
      BY <2>1, Quotient
    <2> QED
      BY <2>2 DEF R!Share
  <1> HIDE DEF v, k
  <1>4. \A i \in U : R!Rank(v, i) \in Nat \ {0} /\ R!Rank(k, i) \in Nat \ {0}
    BY <1>1, RankIsNumber
  <1> HIDE DEF U
  <1>5. \A i \in U : R!Fused(c, s)[i] \in Nat
    <2> TAKE i \in U
    <2>1. R!Share(s, R!Rank(v, i)) \in Nat /\ R!Share(s, R!Rank(k, i)) \in Nat
      BY <1>3, <1>4
    <2> QED
      BY <1>2, <2>1
  <1>6. DOMAIN R!Fused(c, s) = U
    BY <1>2
  <1> QED
    BY <1>1, <1>5, <1>6 DEF U, v, k

LEMMA WeightedIsNumber ==
  ASSUME NEW c, Scored(c), Full \in Nat, NEW s, Settled(s)
  PROVE  \A i \in DOMAIN c : R!Weighted(c, s)[i] \in Int
  <1> TAKE i \in DOMAIN c
  <1>1. R!Weighted(c, s)[i] = s.weight * c[i].vec + (10 - s.weight) * R!Keyword(c)[i]
    BY DEF R!Weighted
  <1>2. s.weight \in Int /\ 10 - s.weight \in Int /\ c[i].vec \in Int
    BY DEF Settled, Scored
  <1>3. R!Keyword(c)[i] \in Int
    BY KeywordIsNumber
  <1>4. s.weight * c[i].vec \in Int /\ (10 - s.weight) * R!Keyword(c)[i] \in Int
    BY <1>2, <1>3, Product
  <1> QED
    BY <1>1, <1>4

(* What the modes sort by tells all candidates apart.                      *)
LEMMA SortKeyTells ==
  ASSUME NEW c, Scored(c), Full \in Nat, Scale \in Nat, NEW s, Settled(s)
  PROVE  /\ \E m : Tells(R!SortKey(c, s), m, DOMAIN R!SortKey(c, s))
         /\ DOMAIN R!SortKey(c, s) \subseteq DOMAIN c
         /\ R!Passing(c, s) \subseteq DOMAIN R!SortKey(c, s)
  <1>1. CASE s.mode = "VECTOR"
    <2> DEFINE key == [i \in DOMAIN c |-> <<-c[i].vec, i>>]
    <2>1. R!SortKey(c, s) = key
      BY <1>1 DEF R!SortKey
    <2>2. R!Passing(c, s) = {i \in DOMAIN c : c[i].vec >= s.threshold}
      BY <1>1 DEF R!Passing
    <2>3. Tells(key, 2, DOMAIN c)
      BY NearnessTells
    <2>4. DOMAIN key = DOMAIN c
      OBVIOUS
    <2> HIDE DEF key
    <2> QED
      BY <2>1, <2>2, <2>3, <2>4
  <1>2. CASE s.mode # "VECTOR" /\ ~R!UsesRrf(s)
    <2> DEFINE w == R!Weighted(c, s)
               x == [i \in DOMAIN c |-> w[i]]
               key == [i \in DOMAIN c |-> <<-x[i], -c[i].vec, i>>]
    <2>1. R!SortKey(c, s) = key
      BY <1>2 DEF R!SortKey
    <2>2. R!Passing(c, s) = {i \in DOMAIN c : w[i] >= 10 * s.threshold}
      BY <1>2 DEF R!Passing
    <2>3. x \in [DOMAIN c -> Int]
      <3>1. \A i \in DOMAIN c : w[i] \in Int
        BY WeightedIsNumber
      <3> QED
        BY <3>1
    <2>4. Tells(key, 3, DOMAIN c)
      <3> HIDE DEF x
      <3> QED
        BY <2>3, KeywordKeyTells
    <2>5. DOMAIN key = DOMAIN c
      OBVIOUS
    <2> HIDE DEF key
    <2> QED
      BY <2>1, <2>2, <2>4, <2>5
  <1>3. CASE s.mode # "VECTOR" /\ R!UsesRrf(s)
    <2> DEFINE f == R!Fused(c, s)
               v == R!VectorRanks(c, s)
               k == R!KeywordRanks(c, s)
               U == DOMAIN f
               key == [i \in U |-> <<-f[i], R!Rank(v, i), R!Rank(k, i), i>>]
               m == 4
    <2>1. R!SortKey(c, s) = key
      BY <1>3 DEF R!SortKey
    <2>2. R!Passing(c, s) \subseteq U
      BY <1>3 DEF R!Passing
    <2>3. U \subseteq DOMAIN c /\ \A i \in U : f[i] \in Nat
      BY FusedIsNumber
    <2>4. v \in Seq(DOMAIN c) /\ k \in Seq(DOMAIN c)
      BY ListsAreSequences
    <2> HIDE DEF f, v, k
    <2>5. \A i \in U : -f[i] \in Int /\ R!Rank(v, i) \in Int /\ R!Rank(k, i) \in Int /\ i \in Int
      <3> TAKE i \in U
      <3>1. R!Rank(v, i) \in Nat \ {0} /\ R!Rank(k, i) \in Nat \ {0}
        BY <2>4, RankIsNumber
      <3>2. i \in Int /\ f[i] \in Int
        BY <2>3 DEF Scored
      <3> QED
        BY <3>1, <3>2
    <2>6. DOMAIN key = U
      OBVIOUS
    <2> HIDE DEF U
    <2>7. \A i \in U : /\ Len(key[i]) = 4
                       /\ key[i][1] = -f[i] /\ key[i][2] = R!Rank(v, i)
                       /\ key[i][3] = R!Rank(k, i) /\ key[i][4] = i
      OBVIOUS
    <2>8. \A n \in 1..4 : n = 1 \/ n = 2 \/ n = 3 \/ n = 4
      OBVIOUS
    <2> HIDE DEF key
    <2>9. \A i \in U : \A n \in 1..4 : key[i][n] \in Int
      BY <2>5, <2>7, <2>8
    <2>10. m \in Nat \ {0} /\ \A i \in U : Len(key[i]) = m /\ (\A n \in 1..m : key[i][n] \in Int) /\ key[i][m] = i
      BY <2>7, <2>9
    <2> HIDE DEF m
    <2>11. Tells(key, m, U)
      BY <2>10, LastTells
    <2> QED
      BY <2>1, <2>2, <2>3, <2>6, <2>11
  <1> QED
    BY <1>1, <1>2, <1>3

LEMMA EligibleSorts ==
  ASSUME NEW c, Scored(c), Full \in Nat, Scale \in Nat, NEW s, Settled(s)
  PROVE  /\ R!Passing(c, s) \subseteq DOMAIN c /\ IsFiniteSet(R!Passing(c, s))
         /\ \E m : Tells(R!SortKey(c, s), m, R!Passing(c, s))
         /\ Sorts(R!Eligible(c, s), ByKey(R!SortKey(c, s), R!Passing(c, s)), R!Passing(c, s))
         /\ R!Eligible(c, s) \in Seq(DOMAIN c)
  <1> DEFINE U == R!Passing(c, s)
             key == R!SortKey(c, s)
  <1>1. PICK m : Tells(key, m, DOMAIN key)
    BY SortKeyTells
  <1>2. U \subseteq DOMAIN key /\ U \subseteq DOMAIN c
    BY SortKeyTells
  <1>3. IsFiniteSet(U)
    BY <1>2, FS_Subset DEF Scored
  <1>4. R!Eligible(c, s) = R!Ordered(U, key)
    BY DEF R!Eligible
  <1> HIDE DEF U, key
  <1>5. Tells(key, m, U)
    BY <1>1, <1>2, TellsPart
  <1>6. Sorts(R!Ordered(U, key), ByKey(key, U), U)
    BY <1>3, <1>5, OrderedSorts
  <1>7. R!Ordered(U, key) \in Seq(U)
    BY <1>3, <1>5, OrderedIsSequence
  <1>8. R!Ordered(U, key) \in Seq(DOMAIN c)
    BY <1>2, <1>7
  <1> QED
    BY <1>2, <1>3, <1>4, <1>5, <1>6, <1>8 DEF U, key

-----------------------------------------------------------------------------
(* Who has the same passages in front packs the same blocks in front.      *)

Begins(a, b) == Len(a) <= Len(b) /\ \A k \in 1..Len(a) : a[k] = b[k]

LEMMA BeginsIsPrefix ==
  ASSUME NEW U, NEW V, NEW a \in Seq(U), NEW b \in Seq(V), Begins(a, b)
  PROVE  R!IsPrefix(a, b)
  <1>1. Len(a) \in Nat /\ Len(b) \in Nat /\ Len(a) <= Len(b)
    BY DEF Begins
  <1> DEFINE p == SubSeq(a, 1, Len(a))
             q == SubSeq(b, 1, Len(a))
  <1>2. p \in Seq(U) /\ Len(p) = Len(a) /\ \A k \in 1..Len(a) : p[k] = a[k]
    BY <1>1
  <1>3. q \in Seq(V) /\ Len(q) = Len(a) /\ \A k \in 1..Len(a) : q[k] = b[k]
    BY <1>1
  <1> HIDE DEF p, q
  <1>4. \A k \in 1..Len(a) : p[k] = q[k]
    BY <1>2, <1>3 DEF Begins
  <1>5. p = q
    <2>1. p = [k \in 1..Len(a) |-> p[k]] /\ q = [k \in 1..Len(a) |-> q[k]]
      BY <1>2, <1>3
    <2> QED
      BY <1>4, <2>1
  <1> QED
    BY <1>1, <1>5 DEF p, q, R!IsPrefix

LEMMA BeginsFollow ==
  ASSUME NEW a, NEW b, NEW c, Len(a) \in Nat, Len(b) \in Nat, Len(c) \in Nat,
         Begins(a, b), Begins(b, c)
  PROVE  Begins(a, c)
  <1>1. Len(a) <= Len(b) /\ Len(b) <= Len(c)
    BY DEF Begins
  <1>2. ASSUME NEW k \in 1..Len(a) PROVE a[k] = c[k]
    <2>1. k \in 1..Len(b)
      BY <1>1
    <2> QED
      BY <2>1 DEF Begins
  <1> QED
    BY <1>1, <1>2 DEF Begins

(* One turn adds a block at the end, or none.                              *)
LEMMA PackNextGrows ==
  ASSUME NEW c, NEW s, NEW i, NEW acc, NEW I, acc.blocks \in Seq(I)
  PROVE  Begins(acc.blocks, R!PackNext(c, s, acc, i).blocks)
  <1> DEFINE next == R!PackNext(c, s, acc, i)
  <1>1. \/ next = acc
        \/ \E key, length, content : next = R!Take(acc, i, key, length, content)
    BY Zenon DEF R!PackNext
  <1>2. ASSUME NEW key, NEW length, NEW content, next = R!Take(acc, i, key, length, content)
        PROVE  Begins(acc.blocks, next.blocks)
    <2> DEFINE b == [id |-> i, length |-> length, content |-> content]
    <2>1. next.blocks = Append(acc.blocks, b)
      BY <1>2 DEF R!Take
    <2> HIDE DEF b, next
    <2>2. Begins(acc.blocks, Append(acc.blocks, b))
      BY DEF Begins
    <2> QED
      BY <2>1, <2>2
  <1>3. Begins(acc.blocks, acc.blocks)
    BY DEF Begins
  <1> HIDE DEF next
  <1>4. Begins(acc.blocks, next.blocks)
    BY <1>1, <1>2, <1>3, Zenon
  <1> QED
    BY <1>4 DEF next

(* With the same passages in front and no less asked for, the same blocks  *)
(* come first.                                                             *)
LEMMA PackPrefix ==
  ASSUME Frame \in Nat, NEW c, Scored(c), NEW d, Scored(d), NEW s, Bounded(s), NEW t, Bounded(t),
         s.budget = t.budget, s.top_k <= t.top_k,
         NEW p \in Seq(DOMAIN c), NEW q \in Seq(DOMAIN d), Len(p) <= Len(q),
         \A k \in 1..Len(p) : p[k] = q[k] /\ c[p[k]] = d[p[k]]
  PROVE  R!IsPrefix(R!Pack(c, s, p).blocks, R!Pack(d, t, q).blocks)
  <1>f. PICK f : Turns(f, c, s, p)
    BY PackUnfolds, Zenon
  <1>g. PICK g : Turns(g, d, t, q)
    BY PackUnfolds, Zenon
  <1>1. /\ f[0] = R!Nothing
        /\ \A n \in 1..Len(p) : f[n] = R!PackNext(c, s, f[n - 1], p[n])
        /\ \A n \in 0..Len(p) : f[n] \in Fitting(DOMAIN c, Nat \X Nat, s) /\ Distinct(f[n])
        /\ R!Pack(c, s, p) = f[Len(p)]
    BY <1>f, Zenon DEF Turns
  <1>2. /\ g[0] = R!Nothing
        /\ \A n \in 1..Len(q) : g[n] = R!PackNext(d, t, g[n - 1], q[n])
        /\ \A n \in 0..Len(q) : g[n] \in Fitting(DOMAIN d, Nat \X Nat, t) /\ Distinct(g[n])
        /\ R!Pack(d, t, q) = g[Len(q)]
    BY <1>g, Zenon DEF Turns
  <1>3. Len(p) \in Nat /\ Len(q) \in Nat /\ Len(p) <= Len(q)
    OBVIOUS
  <1>4. \A n \in 0..Len(p) : f[n].blocks \in Seq(Block(DOMAIN c))
    BY <1>1 DEF Fitting, Packs
  <1>5. \A n \in 0..Len(q) : g[n].blocks \in Seq(Block(DOMAIN d))
    BY <1>2 DEF Fitting, Packs
  <1>6. ASSUME NEW acc, NEW n \in 1..Len(p), Len(acc.blocks) < s.top_k, Len(acc.blocks) \in Nat
        PROVE  R!PackNext(c, s, acc, p[n]) = R!PackNext(d, t, acc, q[n])
    <2>1. p[n] = q[n] /\ c[p[n]] = d[q[n]]
      OBVIOUS
    <2>2. ~(Len(acc.blocks) >= s.top_k) /\ ~(Len(acc.blocks) >= t.top_k)
      BY <1>6 DEF Bounded
    <2> QED
      BY <2>1, <2>2, Zenon DEF R!PackNext
  <1>7. \A n \in 1..Len(q) : n - 1 \in 0..Len(q) /\ Begins(g[n - 1].blocks, g[n].blocks)
    <2> TAKE n \in 1..Len(q)
    <2>1. n - 1 \in 0..Len(q)
      BY <1>3
    <2> QED
      <3>1. g[n - 1].blocks \in Seq(Block(DOMAIN d))
        BY <1>5, <2>1
      <3>2. g[n] = R!PackNext(d, t, g[n - 1], q[n])
        BY <1>2
      <3>3. Begins(g[n - 1].blocks, R!PackNext(d, t, g[n - 1], q[n]).blocks)
        BY <3>1, PackNextGrows
      <3> QED
        BY <2>1, <3>2, <3>3
  <1> DEFINE Same(n) == f[n] = g[n]
             Stays(n) == Len(f[n].blocks) >= s.top_k /\ Begins(f[n].blocks, g[n].blocks)
             T == {n \in 0..Len(p) : Same(n) \/ Stays(n)}
  <1>8. \A n \in 0..Len(p) : n \in T
    <2>1. 0 \in T
      BY <1>1, <1>2, <1>3
    <2>2. ASSUME NEW n \in 1..Len(p), n - 1 \in T PROVE n \in T
      <3>1. n \in 0..Len(p) /\ n - 1 \in 0..Len(p) /\ n \in 1..Len(q)
        BY <1>3
      <3>2. f[n] = R!PackNext(c, s, f[n - 1], p[n]) /\ g[n] = R!PackNext(d, t, g[n - 1], q[n])
        BY <1>1, <1>2, <3>1
      <3>3. Len(f[n - 1].blocks) \in Nat /\ f[n - 1].blocks \in Seq(Block(DOMAIN c))
        BY <1>4, <3>1
      <3>4. CASE Same(n - 1) /\ Len(f[n - 1].blocks) < s.top_k
        BY <1>6, <3>1, <3>2, <3>3, <3>4
      <3>5. CASE Len(f[n - 1].blocks) >= s.top_k
        <4>1. f[n] = f[n - 1]
          <5>1. R!PackNext(c, s, f[n - 1], p[n]) = f[n - 1]
            BY <3>5 DEF R!PackNext
          <5> QED
            BY <3>2, <5>1
        <4>2. Begins(f[n - 1].blocks, g[n - 1].blocks)
          <5>1. Begins(f[n - 1].blocks, f[n - 1].blocks)
            BY <3>3 DEF Begins
          <5> QED
            BY <2>2, <5>1
        <4>3. Begins(g[n - 1].blocks, g[n].blocks)
          BY <1>7, <3>1
        <4>4. Begins(f[n - 1].blocks, g[n].blocks)
          <5>3. n - 1 \in 0..Len(q) /\ n \in 0..Len(q)
            BY <1>3, <3>1
          <5>1. g[n - 1].blocks \in Seq(Block(DOMAIN d)) /\ g[n].blocks \in Seq(Block(DOMAIN d))
            BY <1>5, <5>3
          <5>2. Len(g[n - 1].blocks) \in Nat /\ Len(g[n].blocks) \in Nat
            BY <5>1
          <5> QED
            BY <3>3, <4>2, <4>3, <5>2, BeginsFollow
        <4>5. Stays(n)
          BY <3>5, <4>1, <4>4
        <4> QED
          BY <3>1, <4>5
      <3>6. Len(f[n - 1].blocks) < s.top_k \/ Len(f[n - 1].blocks) >= s.top_k
        BY <3>3 DEF Bounded
      <3>7. Same(n - 1) \/ Stays(n - 1)
        BY <2>2
      <3> QED
        BY <3>4, <3>5, <3>6, <3>7
    <2> HIDE DEF T
    <2> QED
      BY <1>3, <2>1, <2>2, UpTo
  <1>9. Begins(f[Len(p)].blocks, g[Len(p)].blocks)
    <2>1. Len(p) \in T /\ Len(p) \in 0..Len(p)
      BY <1>3, <1>8
    <2>2. Begins(f[Len(p)].blocks, f[Len(p)].blocks)
      BY <1>4, <2>1 DEF Begins
    <2> QED
      BY <2>1, <2>2
  <1> DEFINE Rest == {n \in 0..Len(q) : n >= Len(p) => Begins(f[Len(p)].blocks, g[n].blocks)}
  <1>10. Len(q) \in Rest
    <2>1. 0 \in Rest
      <3>1. 0 >= Len(p) => Len(p) = 0
        BY <1>3
      <3> QED
        BY <1>3, <1>9, <3>1
    <2>2. ASSUME NEW n \in 1..Len(q), n - 1 \in Rest PROVE n \in Rest
      <3>1. n \in 0..Len(q) /\ n - 1 \in 0..Len(q)
        BY <1>3
      <3>2. CASE n - 1 >= Len(p)
        <4>1. Begins(f[Len(p)].blocks, g[n - 1].blocks) /\ Begins(g[n - 1].blocks, g[n].blocks)
          BY <1>7, <2>2, <3>2
        <4>2. Len(p) \in 0..Len(p)
          BY <1>3
        <4>3. /\ Len(f[Len(p)].blocks) \in Nat /\ Len(g[n - 1].blocks) \in Nat
              /\ Len(g[n].blocks) \in Nat
          BY <1>4, <1>5, <3>1, <4>2
        <4>4. Begins(f[Len(p)].blocks, g[n].blocks)
          BY <4>1, <4>3, BeginsFollow
        <4> QED
          BY <3>1, <4>4
      <3>3. CASE n = Len(p)
        BY <1>9, <3>1, <3>3
      <3>4. CASE n < Len(p)
        BY <1>3, <3>1, <3>4
      <3>5. n - 1 >= Len(p) \/ n = Len(p) \/ n < Len(p)
        BY <1>3
      <3> QED
        BY <3>2, <3>3, <3>4, <3>5
    <2> HIDE DEF Rest
    <2>3. \A n \in 0..Len(q) : n \in Rest
      BY <1>3, <2>1, <2>2, UpTo
    <2> QED
      BY <1>3, <2>3
  <1>11. Begins(f[Len(p)].blocks, g[Len(q)].blocks)
    BY <1>3, <1>10
  <1>12. Len(p) \in 0..Len(p) /\ Len(q) \in 0..Len(q)
    BY <1>3
  <1> QED
    BY <1>1, <1>2, <1>4, <1>5, <1>11, <1>12, BeginsIsPrefix

LEMMA LessBegins ==
  ASSUME NEW a, NEW b, Len(a) \in Nat, Len(a) >= 2, Len(b) = Len(a),
         a[1] \in Int, b[1] \in Int, a[2] \in Int, b[2] \in Int
  PROVE  /\ a[1] < b[1] => R!Less(a, b)
         /\ a[1] = b[1] /\ a[2] < b[2] => R!Less(a, b)
  <1>1. ASSUME a[1] < b[1] PROVE R!Less(a, b)
    <2>1. 1 \in 1..Len(a) /\ \A j \in 1..(1 - 1) : a[j] = b[j]
      OBVIOUS
    <2> QED
      BY <1>1, <2>1 DEF R!Less
  <1>2. ASSUME a[1] = b[1], a[2] < b[2] PROVE R!Less(a, b)
    <2>1. 2 \in 1..Len(a) /\ \A j \in 1..(2 - 1) : a[j] = b[j]
      BY <1>2
    <2> QED
      BY <1>2, <2>1 DEF R!Less
  <1> QED
    BY <1>1, <1>2

LEMMA SortsWithin ==
  ASSUME NEW U, NEW W, U \subseteq W, NEW key, NEW code, \A i \in U : key[i] = code[i],
         NEW p, Sorts(p, ByKey(key, U), U)
  PROVE  Sorts(p, ByKey(code, W), U)
  <1>1. \A i, j \in U : <<i, j>> \in ByKey(key, U) => <<i, j>> \in ByKey(code, W)
    <2> SUFFICES ASSUME NEW i \in U, NEW j \in U, <<i, j>> \in ByKey(key, U)
                 PROVE  <<i, j>> \in ByKey(code, W)
      OBVIOUS
    <2>1. R!Less(key[i], key[j])
      BY DEF ByKey
    <2>2. R!Less(code[i], code[j])
      BY <2>1
    <2> QED
      BY <2>2 DEF ByKey
  <1> QED
    BY <1>1, Zenon DEF Sorts

(* If what else passes comes last, the context grows at its end.           *)
LEMMA ContextGrows ==
  ASSUME Frame \in Nat, Full \in Nat, Scale \in Nat,
         NEW c, Scored(c), NEW d, Scored(d), NEW s, Settled(s), NEW t, Settled(t),
         s.budget = t.budget, s.top_k <= t.top_k,
         R!Passing(c, s) \subseteq R!Passing(d, t),
         \A i \in R!Passing(c, s) : R!SortKey(c, s)[i] = R!SortKey(d, t)[i] /\ c[i] = d[i],
         \A i \in R!Passing(c, s), j \in R!Passing(d, t) \ R!Passing(c, s) :
           R!Less(R!SortKey(d, t)[i], R!SortKey(d, t)[j])
  PROVE  R!IsPrefix(R!Pack(c, s, R!Eligible(c, s)).blocks, R!Pack(d, t, R!Eligible(d, t)).blocks)
  <1> DEFINE U == R!Passing(c, s)
             W == R!Passing(d, t)
             key == R!SortKey(c, s)
             code == R!SortKey(d, t)
             p == R!Eligible(c, s)
             q == R!Eligible(d, t)
  <1>1. IsFiniteSet(U) /\ Sorts(p, ByKey(key, U), U) /\ p \in Seq(DOMAIN c)
    BY EligibleSorts
  <1>2. IsFiniteSet(W) /\ Sorts(q, ByKey(code, W), W) /\ q \in Seq(DOMAIN d)
    BY EligibleSorts
  <1>3. PICK m : Tells(code, m, W)
    BY EligibleSorts
  <1>4. /\ U \subseteq W
        /\ \A i \in U : key[i] = code[i] /\ c[i] = d[i]
        /\ \A i \in U, j \in W \ U : R!Less(code[i], code[j])
    OBVIOUS
  <1> HIDE DEF U, W, key, code, p, q
  <1>5. Orders(ByKey(code, W), W)
    BY <1>3, KeysOrder
  <1>6. \A i \in U, j \in W \ U : <<i, j>> \in ByKey(code, W)
    <2> TAKE i \in U, j \in W \ U
    <2>1. i \in W /\ j \in W /\ R!Less(code[i], code[j])
      BY <1>4
    <2> QED
      BY <2>1 DEF ByKey
  <1>7. Sorts(p, ByKey(code, W), U)
    BY <1>1, <1>4, SortsWithin
  <1>8. /\ Cardinality(U) \in Nat /\ Cardinality(W) \in Nat /\ Cardinality(U) <= Cardinality(W)
        /\ \A n \in 1..Cardinality(U) : q[n] = p[n]
    BY <1>2, <1>4, <1>5, <1>6, <1>7, SortedPrefix
  <1>9. Len(p) = Cardinality(U) /\ Len(q) = Cardinality(W)
    <2>1. DOMAIN p = 1..Cardinality(U) /\ DOMAIN q = 1..Cardinality(W)
      BY <1>2, <1>7 DEF Sorts
    <2> QED
      BY <1>1, <1>2, <1>8, <2>1
  <1>10. \A k \in 1..Len(p) : p[k] = q[k] /\ c[p[k]] = d[p[k]]
    <2>1. \A k \in 1..Cardinality(U) : p[k] \in U
      BY <1>7 DEF Sorts
    <2> QED
      BY <1>4, <1>8, <1>9, <2>1
  <1>11. Bounded(s) /\ Bounded(t) /\ s.budget = t.budget /\ s.top_k <= t.top_k
    BY DEF Settled
  <1>12. R!IsPrefix(R!Pack(c, s, p).blocks, R!Pack(d, t, q).blocks)
    BY <1>1, <1>2, <1>8, <1>9, <1>10, <1>11, PackPrefix
  <1> QED
    BY <1>12 DEF p, q

-----------------------------------------------------------------------------
(* A lower threshold and a longer list add at the end.                     *)

LEMMA FactorsCompare ==
  ASSUME NEW i \in Nat, NEW j \in Nat, NEW n \in Nat
  PROVE  /\ i <= j => n * i <= n * j
         /\ n * i < n * j => i < j
         /\ i <= j => i * n <= j * n
         /\ n * i \in Nat
  <1>1. ASSUME NEW a \in Nat, NEW b \in Nat, a <= b PROVE n * a <= n * b
    <2>1. n * (b - a) \in Nat
      <3>1. b - a \in Nat
        BY <1>1
      <3> QED
        BY <3>1
    <2>2. n * (b - a) = n * b - n * a
      OBVIOUS
    <2> QED
      BY <2>1, <2>2
  <1>2. n * i < n * j => i < j
    <2> SUFFICES ASSUME ~(i < j) PROVE ~(n * i < n * j)
      OBVIOUS
    <2>1. n * j <= n * i
      BY <1>1
    <2>2. n * i \in Int /\ n * j \in Int
      BY Product
    <2> QED
      BY <2>1, <2>2
  <1>3. i * n = n * i /\ j * n = n * j
    OBVIOUS
  <1> QED
    BY <1>1, <1>2, <1>3

(* What a comparison changes: more is asked for, and less relevance.       *)
Laxer(s, t) ==
  /\ s.mode = t.mode /\ s.fusion = t.fusion /\ s.budget = t.budget
  /\ s.vector_k = t.vector_k /\ s.keyword_k = t.keyword_k
  /\ s.rrf_k = t.rrf_k /\ s.weight = t.weight
  /\ s.top_k <= t.top_k /\ t.threshold <= s.threshold

LEMMA SameScores ==
  ASSUME NEW c, NEW s, NEW t, Laxer(s, t)
  PROVE  /\ R!VectorRanks(c, s) = R!VectorRanks(c, t)
         /\ R!KeywordRanks(c, s) = R!KeywordRanks(c, t)
         /\ R!Fused(c, s) = R!Fused(c, t)
         /\ R!Weighted(c, s) = R!Weighted(c, t)
         /\ R!UsesRrf(s) <=> R!UsesRrf(t)
         /\ R!SortKey(c, s) = R!SortKey(c, t)
  <1>1. R!VectorRanks(c, s) = R!VectorRanks(c, t) /\ R!KeywordRanks(c, s) = R!KeywordRanks(c, t)
    BY Zenon DEF Laxer, R!VectorRanks, R!KeywordRanks
  <1>2. \A r : R!Share(s, r) = R!Share(t, r)
    BY DEF Laxer, R!Share
  <1>3. R!Fused(c, s) = R!Fused(c, t)
    BY <1>1, <1>2 DEF R!Fused
  <1>4. R!Weighted(c, s) = R!Weighted(c, t)
    BY DEF Laxer, R!Weighted
  <1>5. R!UsesRrf(s) <=> R!UsesRrf(t)
    BY DEF Laxer, R!UsesRrf
  <1>6. R!SortKey(c, s) = R!SortKey(c, t)
    <2>1. s.mode = t.mode
      BY DEF Laxer
    <2> QED
      BY <1>1, <1>3, <1>4, <1>5, <2>1 DEF R!SortKey
  <1> QED
    BY <1>1, <1>3, <1>4, <1>5, <1>6

(* A lower threshold lets pass what comes after the rest.                  *)
LEMMA LaxerPasses ==
  ASSUME NEW c, Scored(c), Full \in Nat, Scale \in Nat,
         NEW s, Settled(s), NEW t, Settled(t), Laxer(s, t)
  PROVE  /\ R!Passing(c, s) \subseteq R!Passing(c, t)
         /\ \A i \in R!Passing(c, s), j \in R!Passing(c, t) \ R!Passing(c, s) :
              R!Less(R!SortKey(c, t)[i], R!SortKey(c, t)[j])
  <1>1. s.threshold \in Nat /\ t.threshold \in Nat /\ t.threshold <= s.threshold /\ s.mode = t.mode
    BY DEF Settled, Laxer
  <1>2. CASE s.mode = "VECTOR"
    <2>1. /\ R!Passing(c, s) = {i \in DOMAIN c : c[i].vec >= s.threshold}
          /\ R!Passing(c, t) = {i \in DOMAIN c : c[i].vec >= t.threshold}
      BY <1>1, <1>2 DEF R!Passing
    <2>2. R!SortKey(c, t) = [i \in DOMAIN c |-> <<-c[i].vec, i>>]
      BY <1>1, <1>2 DEF R!SortKey
    <2>3. \A i \in DOMAIN c : c[i].vec \in Int /\ i \in Int
      BY DEF Scored
    <2>4. R!Passing(c, s) \subseteq R!Passing(c, t)
      BY <1>1, <2>1, <2>3
    <2>5. ASSUME NEW i \in R!Passing(c, s), NEW j \in R!Passing(c, t) \ R!Passing(c, s)
          PROVE  R!Less(R!SortKey(c, t)[i], R!SortKey(c, t)[j])
      <3>1. i \in DOMAIN c /\ j \in DOMAIN c /\ c[i].vec > c[j].vec
        BY <1>1, <2>1, <2>3
      <3> DEFINE a == <<-c[i].vec, i>>
                 b == <<-c[j].vec, j>>
      <3>2. /\ Len(a) = 2 /\ Len(b) = 2 /\ a[1] = -c[i].vec /\ b[1] = -c[j].vec
            /\ a[2] = i /\ b[2] = j
        OBVIOUS
      <3>3. R!SortKey(c, t)[i] = a /\ R!SortKey(c, t)[j] = b
        BY <2>2, <3>1
      <3> HIDE DEF a, b
      <3>4. a[1] \in Int /\ b[1] \in Int /\ a[1] < b[1] /\ a[2] \in Int /\ b[2] \in Int
        BY <2>3, <3>1, <3>2
      <3>5. R!Less(a, b)
        <4>1. Len(a) \in Nat /\ Len(a) >= 2 /\ Len(b) = Len(a)
          BY <3>2
        <4> QED
          BY <3>4, <4>1, LessBegins
      <3> QED
        BY <3>3, <3>5
    <2> QED
      BY <2>4, <2>5
  <1>3. CASE s.mode # "VECTOR" /\ ~R!UsesRrf(s)
    <2> DEFINE w == R!Weighted(c, t)
    <2>1. ~R!UsesRrf(t) /\ R!Weighted(c, s) = w
      BY <1>3, SameScores
    <2>2. /\ R!Passing(c, s) = {i \in DOMAIN c : w[i] >= 10 * s.threshold}
          /\ R!Passing(c, t) = {i \in DOMAIN c : w[i] >= 10 * t.threshold}
      BY <1>1, <1>3, <2>1 DEF R!Passing
    <2>3. R!SortKey(c, t) = [i \in DOMAIN c |-> <<-w[i], -c[i].vec, i>>]
      BY <1>1, <1>3, <2>1 DEF R!SortKey
    <2>4. \A i \in DOMAIN c : w[i] \in Int
      BY WeightedIsNumber
    <2>5. \A i \in DOMAIN c : c[i].vec \in Int
      BY DEF Scored
    <2> HIDE DEF w
    <2>6. R!Passing(c, s) \subseteq R!Passing(c, t)
      BY <1>1, <2>2, <2>4
    <2>7. ASSUME NEW i \in R!Passing(c, s), NEW j \in R!Passing(c, t) \ R!Passing(c, s)
          PROVE  R!Less(R!SortKey(c, t)[i], R!SortKey(c, t)[j])
      <3>1. i \in DOMAIN c /\ j \in DOMAIN c /\ w[i] > w[j]
        BY <1>1, <2>2, <2>4
      <3> DEFINE a == <<-w[i], -c[i].vec, i>>
                 b == <<-w[j], -c[j].vec, j>>
      <3>2. /\ Len(a) = 3 /\ Len(b) = 3 /\ a[1] = -w[i] /\ b[1] = -w[j]
            /\ a[2] = -c[i].vec /\ b[2] = -c[j].vec
        OBVIOUS
      <3>3. R!SortKey(c, t)[i] = a /\ R!SortKey(c, t)[j] = b
        BY <2>3, <3>1
      <3> HIDE DEF a, b
      <3>4. a[1] \in Int /\ b[1] \in Int /\ a[1] < b[1] /\ a[2] \in Int /\ b[2] \in Int
        BY <2>4, <2>5, <3>1, <3>2
      <3>5. R!Less(a, b)
        <4>1. Len(a) \in Nat /\ Len(a) >= 2 /\ Len(b) = Len(a)
          BY <3>2
        <4> QED
          BY <3>4, <4>1, LessBegins
      <3> QED
        BY <3>3, <3>5
    <2> QED
      BY <2>6, <2>7
  <1>4. CASE s.mode # "VECTOR" /\ R!UsesRrf(s)
    <2> DEFINE f == R!Fused(c, t)
               U == DOMAIN f
               scores == {f[i] : i \in U}
               best == R!Max(scores)
               v == R!VectorRanks(c, t)
               k == R!KeywordRanks(c, t)
    <2>1. R!UsesRrf(t) /\ R!Fused(c, s) = f
      BY <1>4, SameScores
    <2>2. /\ R!Passing(c, s) = {i \in U : Full * f[i] >= s.threshold * best}
          /\ R!Passing(c, t) = {i \in U : Full * f[i] >= t.threshold * best}
      BY <1>1, <1>4, <2>1 DEF R!Passing
    <2>3. R!SortKey(c, t) = [i \in U |-> <<-f[i], R!Rank(v, i), R!Rank(k, i), i>>]
      BY <1>1, <1>4, <2>1 DEF R!SortKey
    <2>4. (\A i \in U : f[i] \in Nat) /\ U \subseteq DOMAIN c
      BY FusedIsNumber
    <2>5. v \in Seq(DOMAIN c) /\ k \in Seq(DOMAIN c)
      BY ListsAreSequences
    <2> HIDE DEF f, v, k, U
    <2>6. U # {} => best \in Nat
      <3> SUFFICES ASSUME U # {} PROVE best \in Nat
        OBVIOUS
      <3>1. IsFiniteSet(U)
        BY <2>4, FS_Subset DEF Scored
      <3> DEFINE g == [i \in U |-> f[i]]
      <3>2. g \in Surjection(U, scores)
        BY DEF Surjection
      <3>3. scores \subseteq Nat /\ scores # {}
        BY <2>4
      <3> HIDE DEF g, scores
      <3>4. IsFiniteSet(scores)
        BY <3>1, <3>2, FS_Surjection
      <3>5. best \in scores
        <4>1. scores \subseteq Int
          BY <3>3
        <4> QED
          BY <3>3, <3>4, <4>1, FiniteMax
      <3> QED
        BY <3>3, <3>5
    <2> HIDE DEF best
    <2>7. \A i \in U : /\ Full * f[i] \in Nat /\ s.threshold * best \in Nat /\ t.threshold * best \in Nat
                       /\ t.threshold * best <= s.threshold * best
      <3> TAKE i \in U
      <3>1. best \in Nat /\ f[i] \in Nat
        BY <2>4, <2>6
      <3> QED
        BY <1>1, <3>1, FactorsCompare
    <2>8. R!Passing(c, s) \subseteq R!Passing(c, t)
      BY <2>2, <2>7
    <2>9. ASSUME NEW i \in R!Passing(c, s), NEW j \in R!Passing(c, t) \ R!Passing(c, s)
          PROVE  R!Less(R!SortKey(c, t)[i], R!SortKey(c, t)[j])
      <3>1. i \in U /\ j \in U /\ Full * f[j] < Full * f[i]
        BY <2>2, <2>7
      <3>2. f[j] < f[i] /\ f[i] \in Nat /\ f[j] \in Nat
        BY <2>4, <3>1, FactorsCompare
      <3>3. R!Rank(v, i) \in Nat \ {0} /\ R!Rank(v, j) \in Nat \ {0}
        BY <2>5, RankIsNumber
      <3> DEFINE a == <<-f[i], R!Rank(v, i), R!Rank(k, i), i>>
                 b == <<-f[j], R!Rank(v, j), R!Rank(k, j), j>>
      <3>4. /\ Len(a) = 4 /\ Len(b) = 4 /\ a[1] = -f[i] /\ b[1] = -f[j]
            /\ a[2] = R!Rank(v, i) /\ b[2] = R!Rank(v, j)
        OBVIOUS
      <3>5. R!SortKey(c, t)[i] = a /\ R!SortKey(c, t)[j] = b
        BY <2>3, <3>1
      <3> HIDE DEF a, b
      <3>6. a[1] \in Int /\ b[1] \in Int /\ a[1] < b[1] /\ a[2] \in Int /\ b[2] \in Int
        BY <3>2, <3>3, <3>4
      <3>7. R!Less(a, b)
        <4>1. Len(a) \in Nat /\ Len(a) >= 2 /\ Len(b) = Len(a)
          BY <3>4
        <4> QED
          BY <3>6, <4>1, LessBegins
      <3> QED
        BY <3>5, <3>7
    <2> QED
      BY <2>8, <2>9
  <1> QED
    BY <1>2, <1>3, <1>4

LEMMA LaxerKeepsPrefix ==
  ASSUME Frame \in Nat, Full \in Nat, Scale \in Nat, NEW c, Scored(c),
         NEW s, Settled(s), NEW t, Settled(t), Laxer(s, t)
  PROVE  R!IsPrefix(R!Pack(c, s, R!Eligible(c, s)).blocks, R!Pack(c, t, R!Eligible(c, t)).blocks)
  <1>1. /\ R!Passing(c, s) \subseteq R!Passing(c, t)
        /\ \A i \in R!Passing(c, s), j \in R!Passing(c, t) \ R!Passing(c, s) :
             R!Less(R!SortKey(c, t)[i], R!SortKey(c, t)[j])
    BY LaxerPasses
  <1>2. R!SortKey(c, s) = R!SortKey(c, t)
    BY SameScores
  <1>3. s.budget = t.budget /\ s.top_k <= t.top_k
    BY DEF Laxer
  <1> QED
    BY <1>1, <1>2, <1>3, ContextGrows

-----------------------------------------------------------------------------
(* A candidate that both lists rank first is fused first.                  *)

LEMMA Divides ==
  ASSUME NEW n \in Nat, NEW a \in Nat \ {0}
  PROVE  /\ n \div a \in Nat
         /\ a * (n \div a) <= n
         /\ n < a * (n \div a) + a
  OBVIOUS

LEMMA QuotientFalls ==
  ASSUME NEW n \in Nat, NEW a \in Nat \ {0}, NEW b \in Nat \ {0}, a <= b
  PROVE  n \div b <= n \div a
  <1> DEFINE p == n \div a
             q == n \div b
  <1>1. p \in Nat /\ q \in Nat /\ b * q <= n /\ n < a * p + a
    BY Divides
  <1> HIDE DEF p, q
  <1>2. SUFFICES ASSUME p < q PROVE FALSE
    BY <1>1 DEF p, q
  <1>3. a * (p + 1) <= a * q
    BY <1>1, <1>2, FactorsCompare
  <1>4. a * q <= b * q
    BY <1>1, FactorsCompare
  <1>5. a * (p + 1) = a * p + a
    BY <1>1
  <1>6. a * q \in Nat /\ b * q \in Nat /\ a * p \in Nat
    BY <1>1, FactorsCompare
  <1> QED
    BY <1>1, <1>3, <1>4, <1>5, <1>6

(* Fewer than Unranked candidates have a rank below it.                    *)
LEMMA RankIsBounded ==
  ASSUME NEW U, NEW s \in Seq(U), NEW i, Len(s) < R!Unranked
  PROVE  R!Rank(s, i) <= R!Unranked
  <1>1. R!Rank(s, i) = IF i \in R!ToSet(s) THEN CHOOSE k \in DOMAIN s : s[k] = i ELSE R!Unranked
    BY DEF R!Rank
  <1>2. R!Unranked = 1000
    BY DEF R!Unranked
  <1>3. CASE i \in R!ToSet(s)
    <2> DEFINE r == CHOOSE k \in DOMAIN s : s[k] = i
    <2>1. R!ToSet(s) = {s[k] : k \in DOMAIN s}
      BY DEF R!ToSet
    <2>2. \E k \in DOMAIN s : s[k] = i
      BY <1>3, <2>1
    <2>3. r \in DOMAIN s
      BY <2>2, Zenon
    <2>4. R!Rank(s, i) = r
      BY <1>1, <1>3
    <2> HIDE DEF r
    <2>5. r <= Len(s) /\ r \in Nat /\ Len(s) \in Nat
      BY <2>3
    <2> QED
      BY <1>2, <2>4, <2>5
  <1>4. CASE i \notin R!ToSet(s)
    BY <1>1, <1>2, <1>4
  <1> QED
    BY <1>3, <1>4

LEMMA ListsAreShort ==
  ASSUME NEW c, Scored(c), Full \in Nat, NEW s, Settled(s),
         s.vector_k < R!Unranked, s.keyword_k < R!Unranked
  PROVE  Len(R!VectorRanks(c, s)) < R!Unranked /\ Len(R!KeywordRanks(c, s)) < R!Unranked
  <1>1. s.vector_k \in Nat /\ s.keyword_k \in Nat /\ R!Unranked = 1000
    BY DEF Settled, R!Unranked
  <1>2. ASSUME NEW n \in Nat, n < R!Unranked, NEW p \in Seq(DOMAIN c)
        PROVE  Len(R!First(n, p)) < R!Unranked
    <2>1. Len(R!First(n, p)) = IF n < Len(p) THEN n ELSE Len(p)
      BY FirstIsSequence
    <2>2. Len(p) \in Nat
      OBVIOUS
    <2> QED
      BY <1>1, <1>2, <2>1, <2>2
  <1>3. Len(R!VectorRanks(c, s)) < R!Unranked
    <2>1. R!Nearness(c) \in Seq(DOMAIN c)
      BY NearnessTells
    <2> QED
      BY <1>1, <1>2, <2>1 DEF R!VectorRanks
  <1>4. Len(R!KeywordRanks(c, s)) < R!Unranked
    <2> DEFINE U == {i \in DOMAIN c : c[i].kw > 0}
               key == [i \in DOMAIN c |-> <<-R!Keyword(c)[i], -c[i].vec, i>>]
    <2>1. R!KeywordRanks(c, s) = R!First(s.keyword_k, R!Ordered(U, key))
      BY DEF R!KeywordRanks
    <2>2. R!Ordered(U, key) \in Seq(DOMAIN c)
      BY KeywordOrderIsSequence
    <2> HIDE DEF U, key
    <2> QED
      BY <1>1, <1>2, <2>1, <2>2
  <1> QED
    BY <1>3, <1>4

(* A place nearer to the front of a list is worth as much or more.         *)
LEMMA ShareFalls ==
  ASSUME Scale \in Nat, NEW s, Settled(s), NEW m \in Nat \ {0}, NEW n \in Nat \ {0},
         m < n, n <= R!Unranked
  PROVE  R!Share(s, m) \in Nat /\ R!Share(s, n) \in Nat /\ R!Share(s, n) <= R!Share(s, m)
  <1>1. R!Unranked = 1000 /\ s.rrf_k \in Nat
    BY DEF R!Unranked, Settled
  <1> DEFINE a == s.rrf_k + m
             b == s.rrf_k + n
  <1>2. a \in Nat \ {0} /\ b \in Nat \ {0} /\ a <= b /\ m # R!Unranked
    BY <1>1
  <1>3. R!Share(s, m) = Scale \div a /\ R!Share(s, n) = IF n = R!Unranked THEN 0 ELSE Scale \div b
    BY <1>2 DEF R!Share
  <1> HIDE DEF a, b
  <1>4. Scale \div a \in Nat /\ Scale \div b \in Nat /\ Scale \div b <= Scale \div a
    BY <1>2, Divides, QuotientFalls
  <1> QED
    BY <1>3, <1>4

LEMMA BothListsLead ==
  ASSUME NEW c, Scored(c), Full \in Nat, Scale \in Nat, NEW s, Settled(s),
         s.vector_k < R!Unranked, s.keyword_k < R!Unranked, R!UsesRrf(s),
         NEW i \in R!Passing(c, s), NEW j \in R!Passing(c, s),
         R!Rank(R!VectorRanks(c, s), i) < R!Rank(R!VectorRanks(c, s), j),
         R!Rank(R!KeywordRanks(c, s), i) < R!Rank(R!KeywordRanks(c, s), j)
  PROVE  R!Less(R!SortKey(c, s)[i], R!SortKey(c, s)[j])
  <1> DEFINE f == R!Fused(c, s)
             U == DOMAIN f
             v == R!VectorRanks(c, s)
             k == R!KeywordRanks(c, s)
  <1>1. s.mode # "VECTOR"
    BY DEF R!UsesRrf
  <1>2. R!Passing(c, s) \subseteq U
    BY <1>1 DEF R!Passing
  <1>3. R!SortKey(c, s) = [n \in U |-> <<-f[n], R!Rank(v, n), R!Rank(k, n), n>>]
    BY <1>1 DEF R!SortKey
  <1>4. f = [n \in R!ToSet(v) \cup R!ToSet(k) |-> R!Share(s, R!Rank(v, n)) + R!Share(s, R!Rank(k, n))]
    BY DEF R!Fused
  <1>5. v \in Seq(DOMAIN c) /\ k \in Seq(DOMAIN c) /\ Len(v) < R!Unranked /\ Len(k) < R!Unranked
    BY ListsAreSequences, ListsAreShort
  <1>6. R!Rank(v, i) < R!Rank(v, j) /\ R!Rank(k, i) < R!Rank(k, j)
    OBVIOUS
  <1> HIDE DEF v, k
  <1>7. \A n \in U : f[n] = R!Share(s, R!Rank(v, n)) + R!Share(s, R!Rank(k, n))
    BY <1>4
  <1> HIDE DEF f, U
  <1>8. i \in U /\ j \in U
    BY <1>2
  <1>9. /\ R!Rank(v, i) \in Nat \ {0} /\ R!Rank(v, j) \in Nat \ {0} /\ R!Rank(v, j) <= R!Unranked
        /\ R!Rank(k, i) \in Nat \ {0} /\ R!Rank(k, j) \in Nat \ {0} /\ R!Rank(k, j) <= R!Unranked
    BY <1>5, RankIsNumber, RankIsBounded
  <1>10. /\ R!Share(s, R!Rank(v, i)) \in Nat /\ R!Share(s, R!Rank(v, j)) \in Nat
         /\ R!Share(s, R!Rank(v, j)) <= R!Share(s, R!Rank(v, i))
    BY <1>6, <1>9, ShareFalls
  <1>11. /\ R!Share(s, R!Rank(k, i)) \in Nat /\ R!Share(s, R!Rank(k, j)) \in Nat
         /\ R!Share(s, R!Rank(k, j)) <= R!Share(s, R!Rank(k, i))
    BY <1>6, <1>9, ShareFalls
  <1>12. f[i] \in Nat /\ f[j] \in Nat /\ f[j] <= f[i]
    BY <1>7, <1>8, <1>10, <1>11
  <1> DEFINE a == <<-f[i], R!Rank(v, i), R!Rank(k, i), i>>
             b == <<-f[j], R!Rank(v, j), R!Rank(k, j), j>>
  <1>13. /\ Len(a) = 4 /\ Len(b) = 4 /\ a[1] = -f[i] /\ b[1] = -f[j]
         /\ a[2] = R!Rank(v, i) /\ b[2] = R!Rank(v, j)
    OBVIOUS
  <1>14. R!SortKey(c, s)[i] = a /\ R!SortKey(c, s)[j] = b
    BY <1>3, <1>8
  <1> HIDE DEF a, b
  <1>15. /\ Len(a) \in Nat /\ Len(a) >= 2 /\ Len(b) = Len(a)
         /\ a[1] \in Int /\ b[1] \in Int /\ a[2] \in Int /\ b[2] \in Int
    BY <1>9, <1>12, <1>13
  <1>16. a[1] < b[1] \/ (a[1] = b[1] /\ a[2] < b[2])
    BY <1>6, <1>12, <1>13
  <1>17. R!Less(a, b)
    BY <1>15, <1>16, LessBegins
  <1> QED
    BY <1>14, <1>17

-----------------------------------------------------------------------------
(* What the index returns, and what a reranker makes of it.                *)

(* What the index left out is farther than what it took.                   *)
LEMMA IndexBegins ==
  ASSUME Frame \in Nat, Full \in Nat, Scale \in Nat, NEW c, Scored(c), NEW s, Settled(s),
         s.mode = "VECTOR", NEW d, Scored(d), DOMAIN d \subseteq DOMAIN c,
         \A i \in DOMAIN d : d[i] = c[i],
         \A i \in DOMAIN d, j \in DOMAIN c \ DOMAIN d : c[i].vec > c[j].vec
  PROVE  R!IsPrefix(R!Pack(d, s, R!Eligible(d, s)).blocks, R!Pack(c, s, R!Eligible(c, s)).blocks)
  <1>1. /\ R!Passing(c, s) = {i \in DOMAIN c : c[i].vec >= s.threshold}
        /\ R!Passing(d, s) = {i \in DOMAIN d : d[i].vec >= s.threshold}
    BY DEF R!Passing
  <1>2. /\ R!SortKey(c, s) = [i \in DOMAIN c |-> <<-c[i].vec, i>>]
        /\ R!SortKey(d, s) = [i \in DOMAIN d |-> <<-d[i].vec, i>>]
    BY DEF R!SortKey
  <1>3. \A i \in DOMAIN c : c[i].vec \in Int /\ i \in Int
    BY DEF Scored
  <1>4. R!Passing(d, s) \subseteq R!Passing(c, s)
    BY <1>1
  <1>5. \A i \in R!Passing(d, s) : R!SortKey(d, s)[i] = R!SortKey(c, s)[i] /\ d[i] = c[i]
    BY <1>1, <1>2
  <1>6. ASSUME NEW i \in R!Passing(d, s), NEW j \in R!Passing(c, s) \ R!Passing(d, s)
        PROVE  R!Less(R!SortKey(c, s)[i], R!SortKey(c, s)[j])
    <2>1. i \in DOMAIN c /\ j \in DOMAIN c /\ c[i].vec > c[j].vec
      BY <1>1
    <2> DEFINE a == <<-c[i].vec, i>>
               b == <<-c[j].vec, j>>
    <2>2. /\ Len(a) = 2 /\ Len(b) = 2 /\ a[1] = -c[i].vec /\ b[1] = -c[j].vec
          /\ a[2] = i /\ b[2] = j
      OBVIOUS
    <2>3. R!SortKey(c, s)[i] = a /\ R!SortKey(c, s)[j] = b
      BY <1>2, <2>1
    <2> HIDE DEF a, b
    <2>4. a[1] \in Int /\ b[1] \in Int /\ a[1] < b[1] /\ a[2] \in Int /\ b[2] \in Int
      BY <1>3, <2>1, <2>2
    <2>5. Len(a) \in Nat /\ Len(a) >= 2 /\ Len(b) = Len(a)
      BY <2>2
    <2>6. R!Less(a, b)
      BY <2>4, <2>5, LessBegins
    <2> QED
      BY <2>3, <2>6
  <1>7. s.budget = s.budget /\ s.top_k <= s.top_k
    BY DEF Settled, Bounded
  <1> QED
    BY <1>4, <1>5, <1>6, <1>7, ContextGrows

LEMMA Joins ==
  ASSUME NEW U, NEW p \in Seq(U), NEW q \in Seq(U)
  PROVE  p \o q \in Seq(U) /\ Len(p \o q) = Len(p) + Len(q)
  OBVIOUS

(* A new order of the head leaves the tail where it was.                   *)
LEMMA RerankedKeeps ==
  ASSUME NEW U, NEW q \in Seq(U), NEW n \in Nat,
         NEW p \in [DOMAIN R!First(n, q) -> R!ToSet(R!First(n, q))],
         R!ToSet(p) = R!ToSet(R!First(n, q))
  PROVE  /\ R!Reranked(p, q) \in Seq(U)
         /\ Len(R!Reranked(p, q)) = Len(q)
         /\ R!ToSet(R!Reranked(p, q)) = R!ToSet(q)
         /\ \A k \in DOMAIN q : k > n => R!Reranked(p, q)[k] = q[k]
  <1> DEFINE head == R!First(n, q)
             m == Len(head)
             tail == SubSeq(q, m + 1, Len(q))
             r == R!Reranked(p, q)
  <1>1. /\ head \in Seq(U) /\ m = (IF n < Len(q) THEN n ELSE Len(q))
        /\ (\A k \in 1..m : head[k] = q[k]) /\ R!ToSet(head) \subseteq U
    BY FirstIsSequence
  <1>2. m \in Nat /\ m <= Len(q) /\ Len(q) \in Nat /\ (m <= n) /\ DOMAIN head = 1..m
    BY <1>1
  <1> HIDE DEF head, m
  <1>3. p \in [1..m -> R!ToSet(head)] /\ R!ToSet(p) = R!ToSet(head)
    BY <1>2 DEF head
  <1>4. p \in Seq(U) /\ Len(p) = m /\ DOMAIN p = 1..m
    BY <1>1, <1>2, <1>3
  <1>5. tail \in Seq(U) /\ Len(tail) = Len(q) - m /\ \A k \in 1..(Len(q) - m) : tail[k] = q[m + k]
    BY <1>2
  <1>6. r = p \o tail
    BY <1>4 DEF R!Reranked
  <1> HIDE DEF tail, r
  <1>7. r \in Seq(U) /\ Len(r) = Len(q)
    <2>1. p \o tail \in Seq(U) /\ Len(p \o tail) = Len(p) + Len(tail)
      BY <1>4, <1>5, Joins
    <2> QED
      BY <1>2, <1>4, <1>5, <1>6, <2>1
  <1>8. \A k \in 1..m : r[k] = p[k]
    <2> TAKE k \in 1..m
    <2>1. k \in 1..Len(p)
      BY <1>4
    <2> QED
      BY <1>4, <1>5, <1>6, <2>1
  <1>9. \A k \in (m + 1)..Len(q) : r[k] = q[k]
    <2> TAKE k \in (m + 1)..Len(q)
    <2>1. k - m \in 1..Len(tail) /\ k = Len(p) + (k - m)
      BY <1>2, <1>4, <1>5
    <2>2. r[k] = tail[k - m]
      BY <1>4, <1>5, <1>6, <2>1
    <2>3. tail[k - m] = q[m + (k - m)]
      BY <1>5, <2>1
    <2> QED
      BY <1>2, <2>2, <2>3
  <1>10. R!ToSet(r) = R!ToSet(q)
    <2>1. /\ R!ToSet(r) = {r[k] : k \in 1..Len(q)} /\ R!ToSet(q) = {q[k] : k \in 1..Len(q)}
          /\ R!ToSet(p) = {p[k] : k \in 1..m} /\ R!ToSet(head) = {head[k] : k \in 1..m}
      <3>1. DOMAIN r = 1..Len(q) /\ DOMAIN q = 1..Len(q)
        BY <1>2, <1>7
      <3> QED
        BY <1>2, <1>4, <3>1 DEF R!ToSet
    <2>2. \A k \in 1..Len(q) : k \in 1..m \/ k \in (m + 1)..Len(q)
      BY <1>2
    <2>3. \A k \in 1..m : k \in 1..Len(q)
      BY <1>2
    <2>4. ASSUME NEW k \in 1..Len(q) PROVE r[k] \in R!ToSet(q)
      <3>1. CASE k \in 1..m
        <4>1. PICK l \in 1..m : p[k] = head[l]
          BY <1>3, <2>1, <3>1
        <4> QED
          BY <1>1, <1>8, <2>1, <2>3, <3>1, <4>1
      <3>2. CASE k \in (m + 1)..Len(q)
        BY <1>9, <2>1, <3>2
      <3> QED
        BY <2>2, <3>1, <3>2
    <2>5. ASSUME NEW k \in 1..Len(q) PROVE q[k] \in R!ToSet(r)
      <3>1. CASE k \in 1..m
        <4>1. PICK l \in 1..m : head[k] = p[l]
          BY <1>3, <2>1, <3>1
        <4> QED
          BY <1>1, <1>8, <2>1, <2>3, <3>1, <4>1
      <3>2. CASE k \in (m + 1)..Len(q)
        BY <1>9, <2>1, <3>2
      <3> QED
        BY <2>2, <3>1, <3>2
    <2>6. R!ToSet(r) \subseteq R!ToSet(q) /\ R!ToSet(q) \subseteq R!ToSet(r)
      BY <2>1, <2>4, <2>5
    <2> QED
      BY <2>6
  <1>11. \A k \in DOMAIN q : k > n => r[k] = q[k]
    <2> TAKE k \in DOMAIN q
    <2>1. k \in 1..Len(q)
      BY <1>2
    <2> QED
      BY <1>2, <1>9, <2>1
  <1> QED
    BY <1>7, <1>10, <1>11 DEF r

(* What the constants and the invariant say of passages and settings.      *)
LEMMA PassagesAreScored ==
  ASSUME R!ConstantsAssumption, NEW n \in Nat, NEW c \in [1..n -> Passages]
  PROVE  /\ DOMAIN c = 1..n
         /\ \A i \in DOMAIN c : c[i] \in R!Passage
         /\ Scored(c)
  <1>1. IsFiniteSet(1..n)
    BY FS_Interval
  <1>2. \A i \in 1..n : c[i] \in R!Passage
    BY DEF R!ConstantsAssumption
  <1>3. Full \in Nat
    BY DEF R!ConstantsAssumption
  <1>4. ASSUME NEW i \in 1..n
        PROVE  /\ c[i].vec \in Int /\ c[i].kw \in Nat /\ c[i].parent \in Nat
               /\ c[i].child \in Nat /\ c[i].whole \in Nat
    BY <1>2, <1>3, <1>4 DEF R!Passage
  <1> QED
    BY <1>1, <1>2, <1>4 DEF Scored

LEMMA SettingsAreSettled ==
  ASSUME R!ConstantsAssumption, NEW s \in Configurations
  PROVE  /\ Settled(s)
         /\ s.vector_k < R!Unranked /\ s.keyword_k < R!Unranked
         /\ s.mode \in {"VECTOR", "HYBRID"}
         /\ \A k, t \in Nat :
              LET u == [s EXCEPT !.top_k = k, !.threshold = t]
              IN Settled(u) /\ (k >= s.top_k /\ t <= s.threshold => Laxer(s, u))
  <1>1. s \in R!Setting
    BY DEF R!ConstantsAssumption
  <1>2. /\ s.mode \in {"VECTOR", "HYBRID"} /\ s.top_k \in Nat /\ s.threshold \in Nat
        /\ s.vector_k \in 1..999 /\ s.keyword_k \in 1..999
        /\ s.rrf_k \in Nat /\ s.rerank_k \in Nat /\ s.weight \in 0..10 /\ s.budget \in Nat
    BY <1>1 DEF R!Setting, R!Unranked
  <1>3. s.vector_k \in Nat /\ s.keyword_k \in Nat /\ s.vector_k < 1000 /\ s.keyword_k < 1000
    <2>1. \A i \in 1..999 : i \in Nat /\ i < 1000
      OBVIOUS
    <2> DEFINE v == s.vector_k
               k == s.keyword_k
    <2>2. v \in 1..999 /\ k \in 1..999
      BY <1>2
    <2> HIDE DEF v, k
    <2>3. v \in Nat /\ k \in Nat /\ v < 1000 /\ k < 1000
      BY <2>2
    <2> QED
      BY <2>3 DEF v, k
  <1>4. Settled(s)
    BY <1>2, <1>3 DEF Settled, Bounded
  <1>5. ASSUME NEW k \in Nat, NEW t \in Nat
        PROVE  LET u == [s EXCEPT !.top_k = k, !.threshold = t]
               IN Settled(u) /\ (k >= s.top_k /\ t <= s.threshold => Laxer(s, u))
    <2> DEFINE u == [s EXCEPT !.top_k = k, !.threshold = t]
    <2>1. /\ u.mode = s.mode /\ u.fusion = s.fusion /\ u.vector_k = s.vector_k
          /\ u.keyword_k = s.keyword_k /\ u.rrf_k = s.rrf_k /\ u.rerank_k = s.rerank_k
          /\ u.weight = s.weight /\ u.budget = s.budget /\ u.top_k = k /\ u.threshold = t
      BY <1>1 DEF R!Setting
    <2> HIDE DEF u
    <2>2. Settled(u)
      BY <1>2, <1>3, <2>1 DEF Settled, Bounded
    <2>3. k >= s.top_k /\ t <= s.threshold => Laxer(s, u)
      BY <1>2, <2>1 DEF Laxer
    <2> QED
      BY <2>2, <2>3 DEF u
  <1> QED
    BY <1>2, <1>3, <1>4, <1>5 DEF R!Unranked

LEMMA NarrowedIsScored ==
  ASSUME R!ConstantsAssumption, NEW n \in Nat, NEW c \in [1..n -> Passages],
         NEW s, NEW T \in SUBSET (DOMAIN c)
  PROVE  /\ Scored(R!Narrowed(c, s, T))
         /\ DOMAIN R!Narrowed(c, s, T) \subseteq DOMAIN c
         /\ s.mode = "VECTOR" => /\ DOMAIN R!Narrowed(c, s, T) = T
                                 /\ \A i \in T : R!Narrowed(c, s, T)[i] = c[i]
  <1>1. /\ DOMAIN c = 1..n /\ Scored(c)
        /\ \A i \in DOMAIN c : c[i] \in R!Passage
    BY PassagesAreScored
  <1>2. IsFiniteSet(T)
    BY <1>1, FS_Subset DEF Scored
  <1> DEFINE d == R!Narrowed(c, s, T)
  <1>3. CASE s.mode = "VECTOR"
    <2>1. d = [i \in T |-> c[i]]
      BY <1>3 DEF R!Narrowed
    <2>2. DOMAIN d = T /\ \A i \in T : d[i] = c[i]
      BY <2>1
    <2> HIDE DEF d
    <2>3. Scored(d)
      BY <1>1, <1>2, <2>2 DEF Scored
    <2> QED
      BY <2>2, <2>3 DEF d
  <1>4. CASE s.mode # "VECTOR"
    <2>1. d = [i \in DOMAIN c |-> IF i \in T THEN c[i] ELSE [c[i] EXCEPT !.vec = 0]]
      BY <1>4 DEF R!Narrowed
    <2> HIDE DEF d
    <2>2. DOMAIN d = DOMAIN c
      BY <2>1
    <2>3. ASSUME NEW i \in DOMAIN c
          PROVE  /\ d[i].vec \in Int /\ d[i].kw \in Nat /\ d[i].parent \in Nat
                 /\ d[i].child \in Nat /\ d[i].whole \in Nat
      <3>1. d[i] = c[i] \/ d[i] = [c[i] EXCEPT !.vec = 0]
        BY <2>1
      <3>2. /\ c[i].vec \in Int /\ c[i].kw \in Nat /\ c[i].parent \in Nat
            /\ c[i].child \in Nat /\ c[i].whole \in Nat /\ c[i] \in R!Passage
        BY <1>1 DEF Scored
      <3> DEFINE x == [c[i] EXCEPT !.vec = 0]
      <3>3. /\ x.vec = 0 /\ x.kw = c[i].kw /\ x.parent = c[i].parent
            /\ x.child = c[i].child /\ x.whole = c[i].whole
        BY <3>2 DEF R!Passage
      <3> HIDE DEF x
      <3>4. d[i] = c[i] \/ d[i] = x
        BY <3>1 DEF x
      <3>5. 0 \in Int
        OBVIOUS
      <3> QED
        BY <3>2, <3>3, <3>4, <3>5, Zenon
    <2>4. Scored(d)
      BY <1>1, <2>2, <2>3 DEF Scored
    <2> QED
      BY <1>4, <2>2, <2>4 DEF d
  <1> QED
    BY <1>3, <1>4

LEMMA NearestAreNear ==
  ASSUME NEW c, NEW n, NEW T \in R!Nearest(c, n)
  PROVE  /\ T \in SUBSET (DOMAIN c)
         /\ \A i \in T, j \in DOMAIN c \ T : c[i].vec >= c[j].vec
  BY DEF R!Nearest, R!kSubset

(* What was found can be ranked and packed.                                *)
LEMMA FoundIsScored ==
  ASSUME R!ConstantsAssumption, \E n \in 1..MaxPassages : v2 \in [1..n -> Passages],
         R!FoundIsNear
  PROVE  Scored(v2) /\ Scored(v3)
  <1>1. PICK n \in Nat : v2 \in [1..n -> Passages]
    BY DEF R!ConstantsAssumption
  <1>2. Scored(v2)
    BY <1>1, PassagesAreScored
  <1>3. ASSUME NEW T \in R!Nearest(v2, R!Max({v4.vector_k, v4.top_k})),
               v3 = R!Narrowed(v2, v4, T)
        PROVE  Scored(v3)
    BY <1>1, <1>3, NearestAreNear, NarrowedIsScored
  <1> QED
    BY <1>2, <1>3 DEF R!FoundIsNear

LEMMA PackedFits ==
  ASSUME NEW I, NEW J, NEW s, NEW acc \in Fitting(I, J, s), Distinct(acc)
  PROVE  /\ acc.chars = R!Joined(acc.blocks)
         /\ acc.chars <= R!Max({s.budget, Frame}) \/ acc = R!Nothing
         /\ Len(acc.blocks) <= s.top_k
         /\ R!Cardinality(acc.keys) = Len(acc.blocks)
  <1>1. R!Cardinality(acc.keys) = Cardinality(acc.keys)
    BY SameFiniteSets
  <1>2. Fits(acc, s)
    BY DEF Fitting
  <1> QED
    BY <1>1, <1>2 DEF Fits, Distinct

(* The invariant, step by step.                                            *)
LEMMA RetrievalInit ==
  ASSUME R!ConstantsAssumption, R!Init
  PROVE  R!IInv
  <1>1. v1 = "start" /\ v4 = R!None /\ v6 = R!Nothing
    BY DEF R!Init
  <1>2. Bounded(v4)
    BY <1>1 DEF R!None, Bounded
  <1>3. R!Nothing \in Fitting({}, {}, v4) /\ Distinct(R!Nothing)
    BY <1>2, NothingFits
  <1>4. R!ContextFits
    BY <1>1, <1>3, PackedFits DEF R!ContextFits
  <1> QED
    BY <1>1, <1>4
    DEF R!IInv, R!TailKeepsItsPlace, R!MoreKeepsPrefix, R!KnowledgeBasesKeepOrder

LEMMA PrepareKeeps ==
  ASSUME R!ConstantsAssumption, R!IInv, R!Prepare
  PROVE  R!IInv'
  <1>1. v1' = "prepared" /\ v6' = R!Nothing
    BY DEF R!Prepare, R!IInv
  <1>2. PICK n \in 1..MaxPassages, s \in Configurations :
          /\ v2' \in [1..n -> Passages]
          /\ v4' = s
          /\ \/ v3' = v2'
             \/ \E T \in R!Nearest(v2', R!Max({s.vector_k, s.top_k})) :
                  v3' = R!Narrowed(v2', s, T)
    BY DEF R!Prepare
  <1>3. R!FoundIsNear'
    BY <1>2 DEF R!FoundIsNear
  <1>4. Bounded(v4')
    BY <1>2, SettingsAreSettled DEF Settled
  <1>5. R!Nothing \in Fitting({}, {}, v4') /\ Distinct(R!Nothing)
    BY <1>4, NothingFits
  <1>6. R!ContextFits'
    BY <1>1, <1>5, PackedFits DEF R!ContextFits
  <1> QED
    BY <1>1, <1>2, <1>3, <1>6
    DEF R!IInv, R!TailKeepsItsPlace, R!MoreKeepsPrefix, R!KnowledgeBasesKeepOrder

LEMMA RankCandidatesKeeps ==
  ASSUME R!ConstantsAssumption, R!IInv, R!RankCandidates
  PROVE  R!IInv'
  <1>1. /\ v1 = "prepared" /\ v1' = "ranked" /\ v5' = R!Eligible(v3', v4')
        /\ v2' = v2 /\ v3' = v3 /\ v4' = v4 /\ v6' = v6
    BY DEF R!RankCandidates
  <1>2. /\ v4 \in Configurations
        /\ \E n \in 1..MaxPassages : v2 \in [1..n -> Passages]
        /\ R!FoundIsNear /\ v6 = R!Nothing /\ R!ContextFits
    BY <1>1 DEF R!IInv
  <1>3. R!FoundIsNear' /\ R!ContextFits'
    BY <1>1, <1>2 DEF R!FoundIsNear, R!ContextFits
  <1> QED
    BY <1>1, <1>2, <1>3
    DEF R!IInv, R!TailKeepsItsPlace, R!MoreKeepsPrefix, R!KnowledgeBasesKeepOrder

LEMMA RerankKeeps ==
  ASSUME R!ConstantsAssumption, R!IInv, R!Rerank
  PROVE  R!IInv'
  <1>1. /\ v1 = "ranked" /\ v1' = "reranked" /\ R!Reranks
        /\ v2' = v2 /\ v3' = v3 /\ v4' = v4 /\ v6' = v6
    BY DEF R!Rerank
  <1> DEFINE head == R!First(v4.rerank_k, v5)
  <1>2. PICK p \in [DOMAIN head -> R!ToSet(head)] :
          R!ToSet(p) = R!ToSet(head) /\ v5' = R!Reranked(p, v5)
    BY DEF R!Rerank
  <1>3. /\ v4 \in Configurations
        /\ \E n \in 1..MaxPassages : v2 \in [1..n -> Passages]
        /\ R!FoundIsNear /\ v6 = R!Nothing /\ R!ContextFits
        /\ v5 = R!Eligible(v3, v4)
    BY <1>1 DEF R!IInv
  <1>4. Scored(v3) /\ Settled(v4) /\ Full \in Nat /\ Scale \in Nat /\ v4.rerank_k \in Nat
    BY <1>3, FoundIsScored, SettingsAreSettled DEF R!ConstantsAssumption, Settled
  <1>5. v5 \in Seq(DOMAIN v3)
    BY <1>3, <1>4, EligibleSorts
  <1>6. /\ v5' \in Seq(DOMAIN v3)
        /\ Len(v5') = Len(v5)
        /\ R!ToSet(v5') = R!ToSet(v5)
        /\ \A k \in DOMAIN v5 : k > v4.rerank_k => v5'[k] = v5[k]
    BY <1>2, <1>4, <1>5, RerankedKeeps
  <1>7. R!Reranks'
    <2>1. v5 # <<>> /\ v4.rerank /\ R!UsesRrf(v4)
      BY <1>1 DEF R!Reranks
    <2>2. v5' # <<>>
      BY <1>5, <1>6, <2>1
    <2> QED
      BY <1>1, <2>1, <2>2 DEF R!Reranks
  <1>8. R!TailKeepsItsPlace'
    BY <1>1, <1>3, <1>6 DEF R!TailKeepsItsPlace
  <1>9. R!FoundIsNear' /\ R!ContextFits'
    BY <1>1, <1>3 DEF R!FoundIsNear, R!ContextFits
  <1> QED
    BY <1>1, <1>3, <1>6, <1>7, <1>8, <1>9
    DEF R!IInv, R!MoreKeepsPrefix, R!KnowledgeBasesKeepOrder

LEMMA PackContextKeeps ==
  ASSUME R!ConstantsAssumption, R!IInv, R!PackContext
  PROVE  R!IInv'
  <1>1. /\ v1 = "reranked" \/ (v1 = "ranked" /\ ~R!Reranks)
        /\ v1' = "packed" /\ v6' = R!Pack(v3, v4, v5)
        /\ v2' = v2 /\ v3' = v3 /\ v4' = v4 /\ v5' = v5
    BY DEF R!PackContext
  <1>2. /\ v4 \in Configurations
        /\ \E n \in 1..MaxPassages : v2 \in [1..n -> Passages]
        /\ R!FoundIsNear
    BY <1>1 DEF R!IInv
  <1>3. \/ R!Reranks /\ v5 \in Seq(DOMAIN v3)
        \/ v5 = R!Eligible(v3, v4)
    BY <1>1 DEF R!IInv
  <1>4. Scored(v3) /\ Settled(v4) /\ Full \in Nat /\ Scale \in Nat /\ Frame \in Nat
    BY <1>2, FoundIsScored, SettingsAreSettled DEF R!ConstantsAssumption
  <1>5. v5 \in Seq(DOMAIN v3)
    BY <1>3, <1>4, EligibleSorts
  <1>6. v6' \in Fitting(DOMAIN v3, Nat \X Nat, v4') /\ Distinct(v6')
    BY <1>1, <1>4, <1>5, PackFits DEF Settled
  <1>7. R!ContextFits'
    BY <1>6, PackedFits DEF R!ContextFits
  <1>8. R!FoundIsNear'
    BY <1>1, <1>2 DEF R!FoundIsNear
  <1>9. R!Reranks' \/ v5' = R!Eligible(v3', v4')
    BY <1>1, <1>3 DEF R!Reranks
  <1> QED
    BY <1>1, <1>2, <1>7, <1>8, <1>9
    DEF R!IInv, R!TailKeepsItsPlace, R!MoreKeepsPrefix, R!KnowledgeBasesKeepOrder

LEMMA CompareKeeps ==
  ASSUME R!ConstantsAssumption, R!IInv, R!Compare
  PROVE  R!IInv'
  <1>1. /\ v1 = "packed" /\ ~R!Reranks /\ v1' = "compared"
        /\ v2' = v2 /\ v3' = v3 /\ v4' = v4 /\ v5' = v5 /\ v6' = v6
    BY DEF R!Compare
  <1>2. PICK k \in 1..MaxTopK, t \in 0..Full :
          LET s == [v4 EXCEPT !.top_k = k, !.threshold = t]
          IN /\ k >= v4.top_k /\ t <= v4.threshold
             /\ v7' = R!Pack(v3, s, R!Eligible(v3, s))
    BY DEF R!Compare
  <1>3. k \in Nat /\ t \in Nat /\ Full \in Nat /\ Scale \in Nat /\ Frame \in Nat
    BY DEF R!ConstantsAssumption
  <1>4. /\ v4 \in Configurations
        /\ \E n \in 1..MaxPassages : v2 \in [1..n -> Passages]
        /\ R!FoundIsNear /\ R!ContextFits
        /\ v6 = R!Pack(v3, v4, R!Eligible(v3, v4))
    BY <1>1 DEF R!IInv
  <1> DEFINE s == [v4 EXCEPT !.top_k = k, !.threshold = t]
  <1>5. Scored(v3) /\ Settled(v4)
    BY <1>4, FoundIsScored, SettingsAreSettled
  <1>6. Settled(s) /\ Laxer(v4, s)
    BY <1>2, <1>3, <1>4, SettingsAreSettled
  <1>7. v7' = R!Pack(v3, s, R!Eligible(v3, s))
    BY <1>2
  <1> HIDE DEF s
  <1>8. R!IsPrefix(v6.blocks, v7'.blocks)
    BY <1>3, <1>4, <1>5, <1>6, <1>7, LaxerKeepsPrefix
  <1>9. R!FoundIsNear' /\ R!ContextFits' /\ R!MoreKeepsPrefix'
    BY <1>1, <1>4, <1>8 DEF R!FoundIsNear, R!ContextFits, R!MoreKeepsPrefix
  <1> QED
    BY <1>1, <1>4, <1>9
    DEF R!IInv, R!TailKeepsItsPlace, R!KnowledgeBasesKeepOrder

LEMMA ReferencesAreFinite ==
  ASSUME NEW n \in Nat, NEW U, U \subseteq (1..2) \X (1..n)
  PROVE  IsFiniteSet(U) /\ U \subseteq (1..2) \X Nat
  <1>1. IsFiniteSet(1..2) /\ IsFiniteSet(1..n)
    <2>1. 1 \in Int /\ 2 \in Int /\ n \in Int
      OBVIOUS
    <2>2. IsFiniteSet(1..2)
      BY <2>1, FS_Interval
    <2>3. IsFiniteSet(1..n)
      BY <2>1, FS_Interval
    <2> QED
      BY <2>2, <2>3
  <1>2. IsFiniteSet((1..2) \X (1..n))
    BY <1>1, FS_Product
  <1>3. \A k \in 1..n : k \in Nat
    OBVIOUS
  <1> QED
    BY <1>2, <1>3, FS_Subset

LEMMA ApplyKeeps ==
  ASSUME R!ConstantsAssumption, R!IInv, R!Apply
  PROVE  R!IInv'
  <1>1. v1 = "start" /\ v1' = "applied"
    BY DEF R!Apply
  <1>2. PICK returned \in [1..2 -> 0..MaxReferences], weights \in [1..2 -> 1..2],
             s \in Configurations :
          LET all == {x \in (1..2) \X (1..MaxReferences) : x[2] <= returned[x[1]]}
          IN \E lengths \in [all -> {p.child : p \in Passages}] :
               /\ v4' = s
               /\ v5' = R!ByWeight(all, weights)
               /\ v6' = R!PackReferences(lengths, v5', s)
    BY DEF R!Apply
  <1> DEFINE all == {x \in (1..2) \X (1..MaxReferences) : x[2] <= returned[x[1]]}
  <1>3. PICK lengths \in [all -> {p.child : p \in Passages}] :
          /\ v4' = s
          /\ v5' = R!ByWeight(all, weights)
          /\ v6' = R!PackReferences(lengths, v5', s)
    BY <1>2
  <1>4. MaxReferences \in Nat /\ Frame \in Nat /\ Margin \in Nat
    BY DEF R!ConstantsAssumption
  <1>5. \A p \in Passages : p.child \in Nat
    BY DEF R!ConstantsAssumption, R!Passage
  <1>6. \A x \in all : lengths[x] \in Nat
    BY <1>5
  <1>7. all \subseteq (1..2) \X (1..MaxReferences)
    OBVIOUS
  <1>8. Bounded(s)
    BY SettingsAreSettled DEF Settled
  <1> HIDE DEF all
  <1>9. IsFiniteSet(all) /\ all \subseteq (1..2) \X Nat
    BY <1>4, <1>7, ReferencesAreFinite
  <1> DEFINE before == ByOutweighing(weights, all)
  <1>10. /\ Orders(before, all)
         /\ \A x, y \in all : <<x, y>> \in before <=> R!Outweighs(weights, x, y)
    BY <1>9, WeightsOrder
  <1>11. Sorts(v5', before, all)
    BY <1>3, <1>9, ByWeightSorts
  <1> HIDE DEF before
  <1>12. /\ v5' \in Seq(all) /\ Len(v5') = Cardinality(all)
         /\ \A m, n \in 1..Len(v5') : m < n => v5'[m] # v5'[n]
    BY <1>9, <1>10, <1>11, SortsOnce
  <1>13. \A m, n \in 1..Len(v5') : m < n => <<v5'[m], v5'[n]>> \in before
    BY <1>11, <1>12 DEF Sorts
  <1>14. /\ v6' \in Fitting(all, all, s)
         /\ Distinct(v6')
         /\ \A m, n \in 1..Len(v6'.blocks) :
              m < n => <<v6'.blocks[m].id, v6'.blocks[n].id>> \in before
    <2> DEFINE order == v5'
    <2>1. order \in Seq(all) /\ \A m, n \in 1..Len(order) :
            m < n => order[m] # order[n] /\ <<order[m], order[n]>> \in before
      BY <1>12, <1>13
    <2>2. v6' = R!PackReferences(lengths, order, s)
      BY <1>3
    <2> HIDE DEF order
    <2> QED
      BY <1>4, <1>6, <1>8, <2>1, <2>2, PackReferencesFits
  <1>15. R!ContextFits'
    BY <1>3, <1>14, PackedFits DEF R!ContextFits
  <1>16. R!KnowledgeBasesKeepOrder'
    <2> DEFINE blocks == v6'.blocks
    <2>1. blocks \in Seq(Block(all))
      BY <1>14 DEF Fitting, Packs
    <2>2. ASSUME NEW m \in DOMAIN blocks, NEW n \in DOMAIN blocks,
                 blocks[m].id[1] = blocks[n].id[1], blocks[m].id[2] < blocks[n].id[2]
          PROVE  m < n
      <3> DEFINE x == blocks[m].id
                 y == blocks[n].id
      <3>1. m \in 1..Len(blocks) /\ n \in 1..Len(blocks) /\ m \in Nat /\ n \in Nat
        BY <2>1
      <3>2. blocks[m] \in Block(all) /\ blocks[n] \in Block(all)
        BY <2>1, <3>1
      <3>3. x \in all /\ y \in all
        BY <3>2 DEF Block
      <3> HIDE DEF x, y
      <3>4. x[1] = y[1] /\ x[2] < y[2]
        BY <2>2 DEF x, y
      <3>5. x[1] \in 1..2 /\ x[2] \in Nat /\ y[2] \in Nat
        BY <1>9, <3>3
      <3>6. weights[x[1]] \in 1..2
        BY <3>5
      <3>7. R!Outweighs(weights, x, y)
        <4> DEFINE w == weights[x[1]]
        <4>1. \A i, j \in Nat : i < j => w * (60 + j) > w * (60 + i)
          BY <3>6
        <4>2. w * (60 + y[2]) > w * (60 + x[2]) /\ weights[y[1]] = w
          BY <3>4, <3>5, <4>1
        <4> QED
          BY <4>2 DEF R!Outweighs
      <3>8. <<x, y>> \in before
        BY <1>10, <3>3, <3>7
      <3>9. <<y, x>> \notin before /\ x # y
        BY <1>10, <3>3, <3>8 DEF Orders
      <3>10. n < m => <<y, x>> \in before
        BY <1>14, <3>1 DEF x, y
      <3>11. m # n
        BY <3>9 DEF x, y
      <3> QED
        BY <3>1, <3>9, <3>10, <3>11
    <2> QED
      BY <2>2 DEF R!KnowledgeBasesKeepOrder
  <1> QED
    BY <1>1, <1>15, <1>16 DEF R!IInv, R!TailKeepsItsPlace, R!MoreKeepsPrefix

LEMMA RetrievalNext ==
  ASSUME R!ConstantsAssumption, R!IInv, [R!Next]_(R!vars)
  PROVE  R!IInv'
  <1>1. CASE UNCHANGED R!vars
    <2>1. /\ v1' = v1 /\ v2' = v2 /\ v3' = v3 /\ v4' = v4
          /\ v5' = v5 /\ v6' = v6 /\ v7' = v7
      BY <1>1 DEF R!vars
    <2> QED
      BY <2>1 DEF R!IInv, R!FoundIsNear, R!ContextFits, R!TailKeepsItsPlace, R!MoreKeepsPrefix,
           R!KnowledgeBasesKeepOrder, R!Reranks
  <1>2. CASE R!Next
    BY <1>2, PrepareKeeps, RankCandidatesKeeps, RerankKeeps, PackContextKeeps, CompareKeeps,
       ApplyKeeps DEF R!Next
  <1> QED
    BY <1>1, <1>2

LEMMA RetrievalInv ==
  ASSUME R!ConstantsAssumption, R!IInv
  PROVE  R!ContextFits /\ R!OrderIsKept
  <1>1. R!IndexKeepsPrefix
    <2> SUFFICES ASSUME v1 = "packed", v4.mode = "VECTOR",
                        \A i \in DOMAIN v3, j \in DOMAIN v2 \ DOMAIN v3 : v2[i].vec # v2[j].vec
                 PROVE  R!IsPrefix(v6.blocks, R!Pack(v2, v4, R!Eligible(v2, v4)).blocks)
      BY DEF R!IndexKeepsPrefix
    <2>1. /\ v4 \in Configurations
          /\ \E n \in 1..MaxPassages : v2 \in [1..n -> Passages]
          /\ R!FoundIsNear
          /\ v6 = R!Pack(v3, v4, v5) /\ (R!Reranks \/ v5 = R!Eligible(v3, v4))
      BY DEF R!IInv
    <2>2. v6 = R!Pack(v3, v4, R!Eligible(v3, v4))
      BY <2>1 DEF R!Reranks, R!UsesRrf
    <2>3. Scored(v2) /\ Scored(v3) /\ Settled(v4) /\ Full \in Nat /\ Scale \in Nat /\ Frame \in Nat
      BY <2>1, FoundIsScored, SettingsAreSettled DEF R!ConstantsAssumption
    <2>4. /\ DOMAIN v3 \subseteq DOMAIN v2
          /\ \A i \in DOMAIN v3 : v3[i] = v2[i]
          /\ \A i \in DOMAIN v3, j \in DOMAIN v2 \ DOMAIN v3 : v2[i].vec >= v2[j].vec
      <3>1. CASE v3 = v2
        BY <3>1
      <3>2. ASSUME NEW T \in R!Nearest(v2, R!Max({v4.vector_k, v4.top_k})),
                   v3 = R!Narrowed(v2, v4, T)
            PROVE  /\ DOMAIN v3 = T /\ T \subseteq DOMAIN v2
                   /\ \A i \in DOMAIN v3 : v3[i] = v2[i]
                   /\ \A i \in T, j \in DOMAIN v2 \ T : v2[i].vec >= v2[j].vec
        <4>1. PICK n \in Nat : v2 \in [1..n -> Passages]
          BY <2>1 DEF R!ConstantsAssumption
        <4>2. /\ T \in SUBSET (DOMAIN v2)
              /\ \A i \in T, j \in DOMAIN v2 \ T : v2[i].vec >= v2[j].vec
          BY <3>2, NearestAreNear
        <4>3. DOMAIN v3 = T /\ \A i \in T : v3[i] = v2[i]
          BY <3>2, <4>1, <4>2, NarrowedIsScored
        <4> QED
          BY <4>2, <4>3
      <3> QED
        BY <2>1, <3>1, <3>2 DEF R!FoundIsNear
    <2>5. \A i \in DOMAIN v3, j \in DOMAIN v2 \ DOMAIN v3 : v2[i].vec > v2[j].vec
      BY <2>3, <2>4 DEF Scored
    <2> QED
      BY <2>2, <2>3, <2>4, <2>5, IndexBegins
  <1>2. R!BothListsWin
    <2> SUFFICES ASSUME v1 = "ranked", R!UsesRrf(v4), NEW m \in DOMAIN v5, NEW n \in DOMAIN v5,
                        R!Rank(R!VectorRanks(v3, v4), v5[m]) < R!Rank(R!VectorRanks(v3, v4), v5[n]),
                        R!Rank(R!KeywordRanks(v3, v4), v5[m]) < R!Rank(R!KeywordRanks(v3, v4), v5[n])
                 PROVE  m < n
      BY DEF R!BothListsWin
    <2>1. /\ v4 \in Configurations
          /\ \E k \in 1..MaxPassages : v2 \in [1..k -> Passages]
          /\ R!FoundIsNear
          /\ v5 = R!Eligible(v3, v4)
      BY DEF R!IInv
    <2>2. /\ Scored(v3) /\ Settled(v4) /\ Full \in Nat /\ Scale \in Nat
          /\ v4.vector_k < R!Unranked /\ v4.keyword_k < R!Unranked
      BY <2>1, FoundIsScored, SettingsAreSettled DEF R!ConstantsAssumption
    <2> DEFINE U == R!Passing(v3, v4)
               key == R!SortKey(v3, v4)
               before == ByKey(key, U)
    <2>3. IsFiniteSet(U) /\ (\E k : Tells(key, k, U)) /\ Sorts(v5, before, U)
      BY <2>1, <2>2, EligibleSorts
    <2>4. v5 \in [1..Cardinality(U) -> U]
      BY <2>3 DEF Sorts
    <2>5. v5[m] \in U /\ v5[n] \in U /\ m \in 1..Cardinality(U) /\ n \in 1..Cardinality(U)
      BY <2>4
    <2>6. R!Less(key[v5[m]], key[v5[n]])
      BY <2>2, <2>5, BothListsLead
    <2> HIDE DEF U, key
    <2>7. Orders(before, U) /\ <<v5[m], v5[n]>> \in before
      BY <2>3, <2>5, <2>6, KeysOrder
    <2> HIDE DEF before
    <2> QED
      BY <2>3, <2>5, <2>7, SortedPlaces
  <1> QED
    BY <1>1, <1>2 DEF R!IInv, R!OrderIsKept
=============================================================================
