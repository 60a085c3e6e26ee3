-------------------------- MODULE WitnessLogProofs --------------------------
(***************************************************************************)
(* Proofs about the tree of merkle.ts and the log of WitnessLog over it.   *)
(*                                                                         *)
(* The first part is about MerkleLog alone, for payloads from any set P:   *)
(* its recursive functions obey their equations, the proofs it generates   *)
(* are accepted, and no audit path whatever is accepted for what is not    *)
(* so.  The second is about WitnessLog, whose inductive invariant says     *)
(* what an honest signature means: the head is a prefix of the log as it   *)
(* is now.                                                                 *)
(***************************************************************************)
EXTENDS WitnessedTree, FiniteSetTheorems, WellFoundedInduction, TLAPS

-----------------------------------------------------------------------------
(* Induction over the naturals, with a set in the place of the predicate.  *)

\* Every set of naturals that is not empty has a least element.
LEMMA LeastNat ==
    ASSUME NEW T \in SUBSET Nat, T # {}
    PROVE  \E m \in T : \A k \in T : m <= k
  <1> DEFINE R == OpToRel(<, Nat)
  <1>1. IsWellFoundedOn(R, Nat)
    BY NatLessThanWellFounded
  <1>2. \A x, y \in Nat : x < y => << x, y >> \in R
    BY DEF OpToRel
  <1> HIDE DEF R
  <1>3. PICK x \in T : \A y \in T : ~ (<< y, x >> \in R)
    BY <1>1, WFMin
  <1>4. ASSUME NEW k \in T PROVE x <= k
    <2>1. ~ (k < x)
      BY <1>2, <1>3
    <2> QED
      BY <2>1
  <1> QED
    BY <1>4

\* A set of naturals that has 0 and is closed under successor has them all.
LEMMA NatSetInduction ==
    ASSUME NEW T \in SUBSET Nat, 0 \in T, \A n \in T : n + 1 \in T
    PROVE  \A n \in Nat : n \in T
  <1>1. SUFFICES ASSUME Nat \ T # {} PROVE FALSE
    OBVIOUS
  <1>2. PICK m \in Nat \ T : \A k \in Nat \ T : m <= k
    BY <1>1, LeastNat
  <1> QED
    BY <1>2

-----------------------------------------------------------------------------
(* Recursion and induction over a set D whose elements have a size.        *)

\* What holds of x whenever it holds of all that is smaller holds in D.
LEMMA SizeInduction ==
    ASSUME NEW D, NEW size \in [D -> Nat], NEW P,
           \A x \in D : (\A y \in D : size[y] < size[x] => y \in P) => x \in P
    PROVE  \A x \in D : x \in P
  <1> DEFINE T == {size[x] : x \in D \ P}
  <1>1. SUFFICES ASSUME NEW z \in D, z \notin P PROVE FALSE
    OBVIOUS
  <1>2. T \in SUBSET Nat /\ size[z] \in T
    BY <1>1
  <1>3. PICK m \in T : \A k \in T : m <= k
    BY <1>2, LeastNat
  <1>4. PICK x \in D \ P : m = size[x]
    BY <1>3
  <1>5. ASSUME NEW y \in D, size[y] < size[x] PROVE y \in P
    <2>1. y \notin P => size[y] \in T
      OBVIOUS
    <2>2. size[y] \in Nat /\ size[x] \in Nat
      BY <1>4
    <2>3. y \notin P => size[x] <= size[y]
      BY <1>3, <1>4, <2>1
    <2> HIDE DEF T
    <2> QED
      BY <1>5, <2>2, <2>3
  <1> QED
    BY <1>4, <1>5

\* g obeys the recursion for everything smaller than m.
Obeys(g, D, V, size, step, m) ==
    /\ g \in [D -> V]
    /\ \A x \in D : size[x] < m => g[x] = step[x][g]

\* step gives the value at x from the values at what is smaller than x.
Recursion(D, V, size, step) ==
    /\ size \in [D -> Nat]
    /\ step \in [D -> [[D -> V] -> V]]
    /\ \A x \in D : \A g, h \in [D -> V] :
          (\A y \in D : size[y] < size[x] => g[y] = h[y]) => step[x][g] = step[x][h]

\* f is the function that the recursion defines.
Solves(f, D, V, step) == f \in [D -> V] /\ \A x \in D : f[x] = step[x][f]

\* Two functions that obey the recursion up to m agree there.
LEMMA RecursionUnique ==
    ASSUME NEW D, NEW V, NEW size, NEW step, Recursion(D, V, size, step),
           NEW m \in Nat, NEW g, NEW h,
           Obeys(g, D, V, size, step, m), Obeys(h, D, V, size, step, m)
    PROVE  \A x \in D : size[x] < m => g[x] = h[x]
  <1> DEFINE P == {x \in D : size[x] < m => g[x] = h[x]}
  <1>1. ASSUME NEW x \in D, \A y \in D : size[y] < size[x] => y \in P
        PROVE  x \in P
    <2>1. SUFFICES ASSUME size[x] < m PROVE g[x] = h[x]
      OBVIOUS
    <2>2. ASSUME NEW y \in D, size[y] < size[x] PROVE g[y] = h[y]
      <3>1. size[y] \in Nat /\ size[x] \in Nat
        BY DEF Recursion
      <3>2. size[y] < m
        BY <2>1, <2>2, <3>1
      <3> QED
        BY <1>1, <2>2, <3>2
    <2>3. g \in [D -> V] /\ h \in [D -> V]
      BY DEF Obeys
    <2>4. step[x][g] = step[x][h]
      BY <2>2, <2>3 DEF Recursion
    <2> QED
      BY <2>1, <2>4 DEF Obeys
  <1> HIDE DEF P
  <1>2. size \in [D -> Nat]
    BY DEF Recursion
  <1>3. \A x \in D : x \in P
    BY <1>1, <1>2, SizeInduction
  <1> QED
    BY <1>3 DEF P

\* A function obeys the recursion up to any m.
LEMMA RecursionUpTo ==
    ASSUME NEW D, NEW V, NEW v \in V, NEW size, NEW step, Recursion(D, V, size, step)
    PROVE  \A m \in Nat : \E g : Obeys(g, D, V, size, step, m)
  <1> DEFINE T == {m \in Nat : \E g : Obeys(g, D, V, size, step, m)}
  <1>0. \A x \in D : size[x] \in Nat
    BY DEF Recursion
  <1>1. 0 \in T
    <2>1. Obeys([x \in D |-> v], D, V, size, step, 0)
      BY <1>0 DEF Obeys
    <2> QED
      BY <2>1
  <1>2. ASSUME NEW m \in Nat, NEW g, Obeys(g, D, V, size, step, m)
        PROVE  \E h : Obeys(h, D, V, size, step, m + 1)
    <2> DEFINE h == [x \in D |-> IF size[x] = m THEN step[x][g] ELSE g[x]]
    <2>1. g \in [D -> V]
      BY <1>2 DEF Obeys
    <2>2. \A x \in D : step[x][g] \in V
      BY <2>1 DEF Recursion
    <2>3. /\ h \in [D -> V]
          /\ \A x \in D : size[x] = m => h[x] = step[x][g]
          /\ \A x \in D : size[x] # m => h[x] = g[x]
      BY <2>1, <2>2
    <2> HIDE DEF h
    <2>4. ASSUME NEW x \in D, size[x] < m + 1 PROVE h[x] = step[x][h]
      <3>1. ASSUME NEW y \in D, size[y] < size[x] PROVE g[y] = h[y]
        <4>1. size[y] # m
          BY <1>0, <2>4, <3>1
        <4> QED
          BY <2>3, <4>1
      <3>2. step[x][g] = step[x][h]
        BY <2>1, <2>3, <3>1 DEF Recursion
      <3>3. h[x] = step[x][g]
        <4>1. CASE size[x] = m
          BY <2>3, <4>1
        <4>2. CASE size[x] # m
          <5>1. size[x] < m
            BY <1>0, <2>4, <4>2
          <5> QED
            BY <1>2, <2>3, <4>2, <5>1 DEF Obeys
        <4> QED
          BY <4>1, <4>2
      <3> QED
        BY <3>2, <3>3
    <2>5. Obeys(h, D, V, size, step, m + 1)
      BY <2>3, <2>4 DEF Obeys
    <2> QED
      BY <2>5
  <1>3. \A m \in T : m + 1 \in T
    BY <1>2
  <1> HIDE DEF T
  <1>4. T \in SUBSET Nat
    BY DEF T
  <1>5. \A m \in Nat : m \in T
    BY <1>1, <1>3, <1>4, NatSetInduction
  <1> QED
    BY <1>5 DEF T

\* A recursion on smaller elements defines a function.
LEMMA RecursionDefines ==
    ASSUME NEW D, NEW V, V # {}, NEW size, NEW step, Recursion(D, V, size, step)
    PROVE  \E f : Solves(f, D, V, step)
  <1> DEFINE sol(m) == CHOOSE g : Obeys(g, D, V, size, step, m)
             f == [x \in D |-> sol(size[x] + 1)[x]]
  <1>1. \A m \in Nat : Obeys(sol(m), D, V, size, step, m)
    <2>1. \A m \in Nat : \E g : Obeys(g, D, V, size, step, m)
      BY RecursionUpTo
    <2> QED
      BY <2>1
  <1> HIDE DEF sol
  <1>2. \A x \in D : size[x] \in Nat /\ size[x] + 1 \in Nat
    BY DEF Recursion
  <1>3. \A x \in D : sol(size[x] + 1) \in [D -> V]
    BY <1>1, <1>2 DEF Obeys
  <1>4. f \in [D -> V] /\ \A x \in D : f[x] = sol(size[x] + 1)[x]
    BY <1>3
  <1> HIDE DEF f
  <1>5. ASSUME NEW x \in D PROVE f[x] = step[x][f]
    <2> DEFINE g == sol(size[x] + 1)
    <2>1. Obeys(g, D, V, size, step, size[x] + 1)
      BY <1>1, <1>2
    <2>2. f[x] = g[x]
      BY <1>4
    <2> HIDE DEF g
    <2>3. ASSUME NEW y \in D, size[y] < size[x] PROVE g[y] = f[y]
      <3>1. Obeys(sol(size[y] + 1), D, V, size, step, size[y] + 1)
        BY <1>1, <1>2
      <3>2. Obeys(g, D, V, size, step, size[y] + 1)
        <4>1. \A z \in D : size[z] < size[y] + 1 => size[z] < size[x] + 1
          BY <1>2, <2>3
        <4> QED
          BY <2>1, <4>1 DEF Obeys
      <3>3. size[y] < size[y] + 1
        BY <1>2
      <3>4. g[y] = sol(size[y] + 1)[y]
        BY <1>2, <3>1, <3>2, <3>3, RecursionUnique
      <3> QED
        BY <1>4, <3>4
    <2>4. g[x] = step[x][g]
      <3>1. size[x] < size[x] + 1
        BY <1>2
      <3> QED
        BY <2>1, <3>1 DEF Obeys
    <2>5. g \in [D -> V]
      BY <2>1 DEF Obeys
    <2>6. step[x][g] = step[x][f]
      BY <1>4, <2>3, <2>5 DEF Recursion
    <2> QED
      BY <2>2, <2>4, <2>6
  <1>6. Solves(f, D, V, step)
    BY <1>4, <1>5 DEF Solves
  <1> QED
    BY <1>6

-----------------------------------------------------------------------------
(* Where a tree is split.                                                  *)

\* The recursion of doubledBelow.
LEMMA Doubling ==
    ASSUME NEW n \in Nat
    PROVE  /\ doubledBelow(n) \in [Nat -> Nat]
           /\ doubledBelow(n)[0] = 1
           /\ \A j \in Nat : doubledBelow(n)[j + 1] =
                 IF doubledBelow(n)[j] * 2 < n THEN doubledBelow(n)[j] * 2
                 ELSE doubledBelow(n)[j]
  <1> DEFINE next(x, g) == IF x = 0 THEN 1
                           ELSE LET last == g[x - 1]
                                IN  IF last * 2 < n THEN last * 2 ELSE last
             size == [x \in Nat |-> x]
             step == [x \in Nat |-> [g \in [Nat -> Nat] |-> next(x, g)]]
             Eq(f) == f = [x \in Nat |-> next(x, f)]
             f == doubledBelow(n)
  <1>1. Recursion(Nat, Nat, size, step)
    <2>1. size \in [Nat -> Nat] /\ \A x \in Nat : size[x] = x
      OBVIOUS
    <2>2. ASSUME NEW x \in Nat, NEW g \in [Nat -> Nat] PROVE next(x, g) \in Nat
      <3>1. CASE x = 0
        BY <3>1
      <3>2. CASE x # 0
        <4>1. x - 1 \in Nat
          BY <3>2
        <4>2. g[x - 1] \in Nat
          BY <4>1
        <4> QED
          BY <3>2, <4>2
      <3> QED
        BY <3>1, <3>2
    <2>3. ASSUME NEW x \in Nat, NEW g \in [Nat -> Nat], NEW h \in [Nat -> Nat],
                 \A y \in Nat : y < x => g[y] = h[y]
          PROVE  next(x, g) = next(x, h)
      <3>1. CASE x = 0
        BY <3>1
      <3>2. CASE x # 0
        <4>1. x - 1 \in Nat /\ x - 1 < x
          BY <3>2
        <4>2. g[x - 1] = h[x - 1]
          BY <2>3, <4>1
        <4> QED
          BY <4>2
      <3> QED
        BY <3>1, <3>2
    <2> HIDE DEF next, size
    <2>4. /\ step \in [Nat -> [[Nat -> Nat] -> Nat]]
          /\ \A x \in Nat : \A g \in [Nat -> Nat] : step[x][g] = next(x, g)
      BY <2>2
    <2> HIDE DEF step
    <2>5. ASSUME NEW x \in Nat, NEW g \in [Nat -> Nat], NEW h \in [Nat -> Nat],
                 \A y \in Nat : size[y] < size[x] => g[y] = h[y]
          PROVE  step[x][g] = step[x][h]
      <3>1. next(x, g) = next(x, h)
        BY <2>1, <2>3, <2>5
      <3> QED
        BY <2>4, <3>1
    <2> QED
      BY <2>1, <2>4, <2>5 DEF Recursion
  <1> HIDE DEF size
  <1>2. PICK g : Solves(g, Nat, Nat, step)
    <2> HIDE DEF step
    <2>1. Nat # {}
      OBVIOUS
    <2> QED
      BY <1>1, <2>1, RecursionDefines, Zenon
  <1>3. Eq(g)
    <2> HIDE DEF next
    <2>1. g \in [Nat -> Nat] /\ \A x \in Nat : g[x] = next(x, g)
      BY <1>2 DEF Solves
    <2> QED
      BY <2>1
  <1>4. f = CHOOSE h : Eq(h)
    BY DEF doubledBelow
  <1>5. Eq(f)
    <2> HIDE DEF Eq, f
    <2> QED
      BY <1>3, <1>4, Zenon
  <1> HIDE DEF f
  <1>6. f = [x \in Nat |-> f[x]] /\ \A x \in Nat : f[x] = next(x, f)
    <2> HIDE DEF next
    <2> QED
      BY <1>5
  <1>7. f[0] = 1
    BY <1>6
  <1>8. ASSUME NEW j \in Nat
        PROVE  f[j + 1] = IF f[j] * 2 < n THEN f[j] * 2 ELSE f[j]
    <2>1. j + 1 \in Nat /\ j + 1 # 0 /\ j + 1 - 1 = j
      OBVIOUS
    <2>2. f[j + 1] = next(j + 1, f)
      BY <1>6, <2>1
    <2> QED
      BY <2>1, <2>2
  <1> HIDE DEF next
  <1>9. \A j \in Nat : f[j] \in Nat
    <2> DEFINE T == {j \in Nat : f[j] \in Nat}
    <2>1. 0 \in T
      BY <1>7
    <2>2. ASSUME NEW j \in Nat, f[j] \in Nat PROVE f[j + 1] \in Nat
      BY <1>8, <2>2
    <2>3. \A j \in T : j + 1 \in T
      BY <2>2
    <2> HIDE DEF T
    <2>4. T \in SUBSET Nat
      BY DEF T
    <2>5. \A j \in Nat : j \in T
      BY <2>1, <2>3, <2>4, NatSetInduction
    <2> QED
      BY <2>5 DEF T
  <1>10. f \in [Nat -> Nat]
    BY <1>6, <1>9
  <1> QED
    BY <1>7, <1>8, <1>10 DEF f

\* The loop doubles as long as it can: after j rounds the power exceeds j or
\* has reached its end; it never reaches n, and further rounds only add to it.
LEMMA Doubled ==
    ASSUME NEW n \in Nat, n > 1
    PROVE  \A j \in Nat :
              /\ 1 <= doubledBelow(n)[j]
              /\ doubledBelow(n)[j] < n
              /\ doubledBelow(n)[j] > j \/ doubledBelow(n)[j] * 2 >= n
              /\ doubledBelow(n)[j] <= doubledBelow(n)[j + 1]
  <1> DEFINE f == doubledBelow(n)
             Good(j) == 1 <= f[j] /\ f[j] < n /\ (f[j] > j \/ f[j] * 2 >= n)
             T == {j \in Nat : Good(j)}
  <1>1. /\ f \in [Nat -> Nat]
        /\ f[0] = 1
        /\ \A j \in Nat : f[j + 1] = IF f[j] * 2 < n THEN f[j] * 2 ELSE f[j]
    BY Doubling, Zenon
  <1> HIDE DEF f
  <1>2. 0 \in T
    BY <1>1
  <1>3. ASSUME NEW j \in Nat, Good(j) PROVE Good(j + 1)
    <2>1. f[j] \in Nat
      BY <1>1
    <2>2. f[j + 1] = IF f[j] * 2 < n THEN f[j] * 2 ELSE f[j]
      BY <1>1
    <2> QED
      BY <1>3, <2>1, <2>2
  <1>4. \A j \in T : j + 1 \in T
    BY <1>3
  <1>5. T \in SUBSET Nat
    OBVIOUS
  <1> HIDE DEF T
  <1>6. \A j \in Nat : j \in T
    BY <1>2, <1>4, <1>5, NatSetInduction
  <1>7. \A j \in Nat : f[j] <= f[j + 1]
    <2> SUFFICES ASSUME NEW j \in Nat PROVE f[j] <= f[j + 1]
      OBVIOUS
    <2>1. f[j] \in Nat
      BY <1>1
    <2>2. f[j + 1] = IF f[j] * 2 < n THEN f[j] * 2 ELSE f[j]
      BY <1>1
    <2> QED
      BY <2>1, <2>2
  <1> QED
    BY <1>6, <1>7 DEF T, f

\* A tree of n leaves is split after at least half of them.
LEMMA Split ==
    ASSUME NEW n \in Nat, n > 1
    PROVE  /\ largestPowerOfTwoLessThan(n) \in Nat
           /\ 1 <= largestPowerOfTwoLessThan(n)
           /\ largestPowerOfTwoLessThan(n) < n
           /\ largestPowerOfTwoLessThan(n) * 2 >= n
  <1>1. doubledBelow(n)[n] \in Nat
    BY Doubling
  <1> QED
    BY <1>1, Doubled DEF largestPowerOfTwoLessThan

\* No round takes the power past the result.
LEMMA BelowSplit ==
    ASSUME NEW n \in Nat, n > 1
    PROVE  \A j \in Nat : doubledBelow(n)[j] <= largestPowerOfTwoLessThan(n)
  <1> DEFINE f == doubledBelow(n)
             D == {j \in Nat : j <= n}
             T == {j \in Nat : f[n + j] = f[n]}
             S == {j \in Nat : j <= n => f[n - j] <= f[n]}
  <1>1. /\ f \in [Nat -> Nat]
        /\ \A j \in Nat : f[j + 1] = IF f[j] * 2 < n THEN f[j] * 2 ELSE f[j]
    BY Doubling, Zenon
  <1>2. \A j \in Nat : f[j] <= f[j + 1]
    BY Doubled, Zenon
  <1>3. f[n] * 2 >= n
    BY Split DEF largestPowerOfTwoLessThan
  <1> HIDE DEF f
  <1>4. \A j \in Nat : f[n + j] = f[n]
    <2>1. 0 \in T
      OBVIOUS
    <2>2. ASSUME NEW j \in Nat, f[n + j] = f[n] PROVE f[n + (j + 1)] = f[n]
      <3>1. n + j \in Nat /\ n + (j + 1) = (n + j) + 1 /\ f[n + j] \in Nat
        BY <1>1
      <3>2. f[n + j + 1] = IF f[n + j] * 2 < n THEN f[n + j] * 2 ELSE f[n + j]
        BY <1>1, <3>1
      <3> QED
        BY <1>3, <2>2, <3>1, <3>2
    <2>3. \A j \in T : j + 1 \in T
      BY <2>2
    <2>4. T \in SUBSET Nat
      OBVIOUS
    <2> HIDE DEF T
    <2>5. \A j \in Nat : j \in T
      BY <2>1, <2>3, <2>4, NatSetInduction
    <2> QED
      BY <2>5 DEF T
  <1>5. \A j \in Nat : j <= n => f[n - j] <= f[n]
    <2>1. 0 \in S
      BY <1>1
    <2>2. ASSUME NEW j \in Nat, j <= n => f[n - j] <= f[n], j + 1 <= n
          PROVE  f[n - (j + 1)] <= f[n]
      <3>1. n - (j + 1) \in Nat /\ (n - (j + 1)) + 1 = n - j /\ n - j \in Nat /\ j <= n
        BY <2>2
      <3>2. f[n - (j + 1)] <= f[n - j]
        BY <1>2, <3>1
      <3>3. f[n - (j + 1)] \in Nat /\ f[n - j] \in Nat /\ f[n] \in Nat
        BY <1>1, <3>1
      <3> QED
        BY <2>2, <3>1, <3>2, <3>3
    <2>3. \A j \in S : j + 1 \in S
      BY <2>2
    <2>4. S \in SUBSET Nat
      OBVIOUS
    <2> HIDE DEF S
    <2>5. \A j \in Nat : j \in S
      BY <2>1, <2>3, <2>4, NatSetInduction
    <2> QED
      BY <2>5 DEF S
  <1>6. ASSUME NEW j \in Nat PROVE f[j] <= f[n]
    <2>1. CASE j <= n
      <3>1. n - j \in Nat /\ n - j <= n /\ n - (n - j) = j
        BY <2>1
      <3> QED
        BY <1>5, <3>1
    <2>2. CASE j > n
      <3>1. j - n \in Nat /\ n + (j - n) = j
        BY <2>2
      <3>2. f[n + (j - n)] = f[n] /\ f[n] \in Nat
        BY <1>1, <1>4, <3>1
      <3> QED
        BY <3>1, <3>2
    <2> QED
      BY <2>1, <2>2
  <1> QED
    BY <1>6 DEF largestPowerOfTwoLessThan, f

\* Trees that reach into the right half of a tree of n leaves are split where
\* it is split.
LEMMA SameSplit ==
    ASSUME NEW n \in Nat, NEW m \in Nat, m <= n,
           n > 1, largestPowerOfTwoLessThan(n) < m
    PROVE  largestPowerOfTwoLessThan(m) = largestPowerOfTwoLessThan(n)
  <1> DEFINE k == largestPowerOfTwoLessThan(n)
             f == doubledBelow(n)
             g == doubledBelow(m)
             T == {j \in Nat : f[j] = g[j]}
  <1>1. k \in Nat /\ 1 <= k /\ k < n /\ k * 2 >= n
    BY Split, Zenon
  <1>2. m > 1
    BY <1>1
  <1>3. /\ f \in [Nat -> Nat]
        /\ f[0] = 1
        /\ \A j \in Nat : f[j + 1] = IF f[j] * 2 < n THEN f[j] * 2 ELSE f[j]
    BY Doubling, Zenon
  <1>4. /\ g \in [Nat -> Nat]
        /\ g[0] = 1
        /\ \A j \in Nat : g[j + 1] = IF g[j] * 2 < m THEN g[j] * 2 ELSE g[j]
    BY Doubling, Zenon
  <1>5. \A j \in Nat : f[j] <= k
    BY BelowSplit, Zenon
  <1>6. \A j \in Nat : g[j] <= largestPowerOfTwoLessThan(m)
    BY <1>2, BelowSplit, Zenon
  <1>7. largestPowerOfTwoLessThan(m) = g[m] /\ k = f[n]
    BY DEF largestPowerOfTwoLessThan
  <1>8. k < m
    OBVIOUS
  <1> HIDE DEF f, g, k
  <1>9. 0 \in T
    BY <1>3, <1>4
  <1>10. ASSUME NEW j \in Nat, f[j] = g[j] PROVE f[j + 1] = g[j + 1]
    <2>1. f[j] \in Nat
      BY <1>3
    <2>2. f[j + 1] = IF f[j] * 2 < n THEN f[j] * 2 ELSE f[j]
      BY <1>3
    <2>3. g[j + 1] = IF g[j] * 2 < m THEN g[j] * 2 ELSE g[j]
      BY <1>4
    <2>4. f[j + 1] <= k
      BY <1>5
    <2>5. CASE f[j] * 2 < n
      BY <1>1, <1>8, <1>10, <2>1, <2>2, <2>3, <2>4, <2>5
    <2>6. CASE ~ (f[j] * 2 < n)
      BY <1>10, <2>1, <2>2, <2>3, <2>6
    <2> QED
      BY <2>5, <2>6
  <1>11. \A j \in T : j + 1 \in T
    BY <1>10
  <1>12. T \in SUBSET Nat
    OBVIOUS
  <1> HIDE DEF T
  <1>13. \A j \in Nat : j \in T
    BY <1>9, <1>11, <1>12, NatSetInduction
  <1>14. \A j \in Nat : f[j] = g[j]
    BY <1>13 DEF T
  <1>15. g[m] <= f[n] /\ f[n] <= g[m]
    BY <1>5, <1>6, <1>7, <1>14
  <1>16. g[m] \in Nat /\ f[n] \in Nat
    BY <1>3, <1>4
  <1> QED
    BY <1>7, <1>15, <1>16 DEF k

-----------------------------------------------------------------------------
(* Hashes.                                                                 *)

\* Hashes are terms: nodes are what they join, leaves are their payloads,
\* and no node is a leaf or the empty root.
LEMMA HashTerms ==
    /\ \A a, b, c, d : nodeHash(a, b) = nodeHash(c, d) => a = c /\ b = d
    /\ \A p, q : leafHash(p) = leafHash(q) => p = q
    /\ \A a, b, p : nodeHash(a, b) # leafHash(p)
    /\ \A a, b : nodeHash(a, b) # EMPTY_TREE_ROOT
    /\ \A p : leafHash(p) # EMPTY_TREE_ROOT
  <1>1. ASSUME NEW a, NEW b, NEW c, NEW d, nodeHash(a, b) = nodeHash(c, d)
        PROVE  a = c /\ b = d
    <2>1. << "node", a, b >>[2] = << "node", c, d >>[2] /\ << "node", a, b >>[3] = << "node", c, d >>[3]
      BY <1>1 DEF nodeHash
    <2> QED
      BY <2>1
  <1>2. ASSUME NEW p, NEW q, leafHash(p) = leafHash(q) PROVE p = q
    <2>1. << "leaf", p >>[2] = << "leaf", q >>[2]
      BY <1>2 DEF leafHash
    <2> QED
      BY <2>1
  <1>3. ASSUME NEW a, NEW b, NEW p, nodeHash(a, b) = leafHash(p) PROVE FALSE
    <2>1. << "node", a, b >>[1] = << "leaf", p >>[1]
      BY <1>3 DEF nodeHash, leafHash
    <2> QED
      BY <2>1
  <1>4. ASSUME NEW a, NEW b, nodeHash(a, b) = EMPTY_TREE_ROOT PROVE FALSE
    <2>1. << "node", a, b >>[1] = << "empty" >>[1]
      BY <1>4 DEF nodeHash, EMPTY_TREE_ROOT
    <2> QED
      BY <2>1
  <1>5. ASSUME NEW p, leafHash(p) = EMPTY_TREE_ROOT PROVE FALSE
    <2>1. << "leaf", p >>[1] = << "empty" >>[1]
      BY <1>5 DEF leafHash, EMPTY_TREE_ROOT
    <2> QED
      BY <2>1
  <1> QED
    BY <1>1, <1>2, <1>3, <1>4, <1>5

\* A node names its halves.
LEMMA NodeParts == \A a, b : nodeHash(a, b)[2] = a /\ nodeHash(a, b)[3] = b
BY DEF nodeHash

\* The hashes over the payloads P: the empty root and the leaves, and then
\* level upon level of nodes.
Ground(P) == {EMPTY_TREE_ROOT} \cup {leafHash(p) : p \in P}
Above(level) == level \cup {nodeHash(h[1], h[2]) : h \in level \X level}
Levels(g, P, m) ==
    /\ g = [n \in 0 .. m |-> g[n]]
    /\ g[0] = Ground(P)
    /\ \A n \in 1 .. m : g[n] = Above(g[n - 1])
Level(P, n) == (CHOOSE g : Levels(g, P, n))[n]
Hashes(P) == UNION {Level(P, n) : n \in Nat}

\* There are as many levels as one likes.
LEMMA LevelsExist ==
    ASSUME NEW P
    PROVE  \A m \in Nat : \E g : Levels(g, P, m)
  <1> DEFINE T == {m \in Nat : \E g : Levels(g, P, m)}
  <1>1. 0 \in T
    <2>1. Levels([n \in 0 .. 0 |-> Ground(P)], P, 0)
      BY DEF Levels
    <2> QED
      BY <2>1
  <1>2. ASSUME NEW m \in Nat, NEW g, Levels(g, P, m)
        PROVE  \E h : Levels(h, P, m + 1)
    <2> DEFINE h == [n \in 0 .. m + 1 |-> IF n = m + 1 THEN Above(g[m]) ELSE g[n]]
    <2>1. /\ h = [n \in 0 .. m + 1 |-> h[n]]
          /\ \A n \in 0 .. m : h[n] = g[n]
          /\ h[m + 1] = Above(g[m])
      OBVIOUS
    <2> HIDE DEF h
    <2>2. ASSUME NEW n \in 1 .. m + 1 PROVE h[n] = Above(h[n - 1])
      <3>1. CASE n = m + 1
        BY <2>1, <3>1
      <3>2. CASE n \in 1 .. m
        <4>1. g[n] = Above(g[n - 1])
          BY <1>2, <3>2 DEF Levels
        <4>2. n \in 0 .. m /\ n - 1 \in 0 .. m
          BY <3>2
        <4> QED
          BY <2>1, <4>1, <4>2
      <3> QED
        BY <3>1, <3>2
    <2>3. h[0] = Ground(P)
      BY <1>2, <2>1 DEF Levels
    <2>4. Levels(h, P, m + 1)
      BY <2>1, <2>2, <2>3 DEF Levels
    <2> QED
      BY <2>4
  <1>3. \A m \in T : m + 1 \in T
    BY <1>2
  <1> HIDE DEF T
  <1>4. T \in SUBSET Nat
    BY DEF T
  <1>5. \A m \in Nat : m \in T
    BY <1>1, <1>3, <1>4, NatSetInduction
  <1> QED
    BY <1>5 DEF T

\* Levels counted further agree with those counted less far.
LEMMA LevelsAgree ==
    ASSUME NEW P, NEW m \in Nat, NEW k \in Nat, NEW g, NEW h,
           Levels(g, P, m), Levels(h, P, k)
    PROVE  \A n \in Nat : n <= m /\ n <= k => g[n] = h[n]
  <1> DEFINE T == {n \in Nat : n <= m /\ n <= k => g[n] = h[n]}
  <1>1. 0 \in T
    BY DEF Levels
  <1>2. ASSUME NEW n \in Nat, n <= m /\ n <= k => g[n] = h[n], n + 1 <= m, n + 1 <= k
        PROVE  g[n + 1] = h[n + 1]
    <2>1. n + 1 \in 1 .. m /\ n + 1 \in 1 .. k /\ n + 1 - 1 = n /\ n <= m /\ n <= k
      BY <1>2
    <2>2. /\ \A i \in 1 .. m : g[i] = Above(g[i - 1])
          /\ \A i \in 1 .. k : h[i] = Above(h[i - 1])
      BY DEF Levels
    <2> HIDE DEF T
    <2>3. g[n + 1] = Above(g[n]) /\ h[n + 1] = Above(h[n])
      BY <2>1, <2>2
    <2> QED
      BY <1>2, <2>1, <2>3
  <1>3. \A n \in T : n + 1 \in T
    BY <1>2
  <1> HIDE DEF T
  <1>4. T \in SUBSET Nat
    BY DEF T
  <1>5. \A n \in Nat : n \in T
    BY <1>1, <1>3, <1>4, NatSetInduction
  <1> QED
    BY <1>5 DEF T

\* The levels, one over the other.
LEMMA LevelStep ==
    ASSUME NEW P
    PROVE  /\ Level(P, 0) = Ground(P)
           /\ \A n \in Nat : Level(P, n + 1) = Above(Level(P, n))
  <1> DEFINE lev(n) == CHOOSE g : Levels(g, P, n)
  <1>1. \A n \in Nat : Levels(lev(n), P, n)
    BY LevelsExist
  <1>2. \A n : Level(P, n) = lev(n)[n]
    BY DEF Level
  <1> HIDE DEF lev
  <1>3. lev(0)[0] = Ground(P)
    BY <1>1 DEF Levels
  <1>4. ASSUME NEW n \in Nat PROVE lev(n + 1)[n + 1] = Above(lev(n)[n])
    <2>1. n + 1 \in Nat /\ n + 1 \in 1 .. n + 1 /\ n + 1 - 1 = n /\ n <= n + 1 /\ n <= n
      OBVIOUS
    <2>2. Levels(lev(n), P, n) /\ Levels(lev(n + 1), P, n + 1)
      BY <1>1, <2>1
    <2>3. lev(n + 1)[n + 1] = Above(lev(n + 1)[n])
      BY <2>1, <2>2 DEF Levels
    <2>4. lev(n + 1)[n] = lev(n)[n]
      BY <2>1, <2>2, LevelsAgree
    <2> QED
      BY <2>3, <2>4
  <1> QED
    BY <1>2, <1>3, <1>4

\* A level is part of every later one.
LEMMA LevelsGrow ==
    ASSUME NEW P, NEW n \in Nat
    PROVE  \A j \in Nat : Level(P, n) \subseteq Level(P, n + j)
  <1> DEFINE T == {j \in Nat : Level(P, n) \subseteq Level(P, n + j)}
  <1>1. 0 \in T
    OBVIOUS
  <1>2. ASSUME NEW j \in Nat, Level(P, n) \subseteq Level(P, n + j)
        PROVE  Level(P, n) \subseteq Level(P, n + (j + 1))
    <2>1. n + j \in Nat /\ n + (j + 1) = (n + j) + 1
      OBVIOUS
    <2>2. Level(P, (n + j) + 1) = Above(Level(P, n + j))
      BY <2>1, LevelStep
    <2> QED
      BY <1>2, <2>1, <2>2 DEF Above
  <1>3. \A j \in T : j + 1 \in T
    BY <1>2
  <1> HIDE DEF T
  <1>4. T \in SUBSET Nat
    BY DEF T
  <1>5. \A j \in Nat : j \in T
    BY <1>1, <1>3, <1>4, NatSetInduction
  <1> QED
    BY <1>5 DEF T

\* The hashes hold the empty root and the leaves and are closed under nodeHash.
LEMMA HashesClosed ==
    ASSUME NEW P
    PROVE  /\ EMPTY_TREE_ROOT \in Hashes(P)
           /\ \A p \in P : leafHash(p) \in Hashes(P)
           /\ \A a, b \in Hashes(P) : nodeHash(a, b) \in Hashes(P)
  <1>1. Ground(P) \subseteq Hashes(P)
    <2>1. Level(P, 0) = Ground(P)
      BY LevelStep
    <2> QED
      BY <2>1 DEF Hashes
  <1>2. ASSUME NEW a \in Hashes(P), NEW b \in Hashes(P)
        PROVE  nodeHash(a, b) \in Hashes(P)
    <2>1. PICK m \in Nat : a \in Level(P, m)
      BY DEF Hashes
    <2>2. PICK k \in Nat : b \in Level(P, k)
      BY DEF Hashes
    <2>3. m + k \in Nat /\ k + m = m + k
      OBVIOUS
    <2>4. a \in Level(P, m + k) /\ b \in Level(P, k + m)
      BY <2>1, <2>2, LevelsGrow
    <2>5. << a, b >> \in Level(P, m + k) \X Level(P, m + k)
      BY <2>3, <2>4
    <2>6. nodeHash(a, b) \in Above(Level(P, m + k))
      <3>1. << a, b >>[1] = a /\ << a, b >>[2] = b
        OBVIOUS
      <3>2. nodeHash(<< a, b >>[1], << a, b >>[2]) \in Above(Level(P, m + k))
        BY <2>5 DEF Above
      <3> QED
        BY <3>1, <3>2
    <2>7. nodeHash(a, b) \in Level(P, (m + k) + 1)
      BY <2>3, <2>6, LevelStep
    <2>8. (m + k) + 1 \in Nat
      OBVIOUS
    <2> QED
      BY <2>7, <2>8 DEF Hashes
  <1> QED
    BY <1>1, <1>2 DEF Ground

-----------------------------------------------------------------------------
(* Ranges.                                                                 *)

\* A range of more than one leaf is split into two smaller ones.
LEMMA Halving ==
    ASSUME NEW n \in Nat, NEW r \in ranges(n)
    PROVE  /\ r[1] \in 0 .. n /\ r[2] \in 0 .. n /\ r[1] < r[2]
           /\ sizeOf(r) \in Nat /\ sizeOf(r) >= 1
           /\ r = << r[1], r[2] >>
           /\ sizeOf(r) # 1 =>
                 /\ splitOf(r) \in Nat /\ r[1] < splitOf(r) /\ splitOf(r) < r[2]
                 /\ leftOf(r) \in ranges(n) /\ rightOf(r) \in ranges(n)
                 /\ sizeOf(leftOf(r)) = largestPowerOfTwoLessThan(sizeOf(r))
                 /\ sizeOf(rightOf(r)) = sizeOf(r) - sizeOf(leftOf(r))
                 /\ sizeOf(leftOf(r)) \in Nat /\ sizeOf(rightOf(r)) \in Nat
                 /\ sizeOf(leftOf(r)) < sizeOf(r) /\ sizeOf(rightOf(r)) < sizeOf(r)
                 /\ leftOf(r)[1] = r[1] /\ leftOf(r)[2] = splitOf(r)
                 /\ rightOf(r)[1] = splitOf(r) /\ rightOf(r)[2] = r[2]
  <1>1. /\ r[1] \in 0 .. n /\ r[2] \in 0 .. n /\ r[1] < r[2]
        /\ r = << r[1], r[2] >>
    BY DEF ranges
  <1>2. sizeOf(r) \in Nat /\ sizeOf(r) >= 1
    BY <1>1 DEF sizeOf
  <1>3. ASSUME sizeOf(r) # 1
        PROVE  /\ splitOf(r) \in Nat /\ r[1] < splitOf(r) /\ splitOf(r) < r[2]
               /\ largestPowerOfTwoLessThan(sizeOf(r)) = splitOf(r) - r[1]
    <2> DEFINE k == largestPowerOfTwoLessThan(sizeOf(r))
    <2>1. k \in Nat /\ 1 <= k /\ k < sizeOf(r)
      BY <1>2, <1>3, Split
    <2> HIDE DEF k
    <2>2. splitOf(r) = r[1] + k
      BY DEF splitOf, k
    <2>3. splitOf(r) \in Nat /\ r[1] < splitOf(r) /\ splitOf(r) < r[2] /\ k = splitOf(r) - r[1]
      BY <1>1, <2>1, <2>2 DEF sizeOf
    <2> QED
      BY <2>3 DEF k
  <1>4. /\ leftOf(r)[1] = r[1] /\ leftOf(r)[2] = splitOf(r)
        /\ rightOf(r)[1] = splitOf(r) /\ rightOf(r)[2] = r[2]
    BY DEF leftOf, rightOf
  <1>5. ASSUME sizeOf(r) # 1 PROVE leftOf(r) \in ranges(n) /\ rightOf(r) \in ranges(n)
    <2>1. splitOf(r) \in 0 .. n
      BY <1>1, <1>3, <1>5
    <2>2. leftOf(r) \in (0 .. n) \X (0 .. n) /\ rightOf(r) \in (0 .. n) \X (0 .. n)
      BY <1>1, <2>1 DEF leftOf, rightOf
    <2> QED
      BY <1>3, <1>4, <1>5, <2>2 DEF ranges
  <1>6. ASSUME sizeOf(r) # 1
        PROVE  /\ sizeOf(leftOf(r)) = splitOf(r) - r[1]
               /\ sizeOf(rightOf(r)) = r[2] - splitOf(r)
               /\ sizeOf(leftOf(r)) \in Nat /\ sizeOf(rightOf(r)) \in Nat
               /\ sizeOf(rightOf(r)) = sizeOf(r) - sizeOf(leftOf(r))
               /\ sizeOf(leftOf(r)) < sizeOf(r) /\ sizeOf(rightOf(r)) < sizeOf(r)
    BY <1>1, <1>3, <1>4, <1>6 DEF sizeOf
  <1> QED
    BY <1>1, <1>2, <1>3, <1>4, <1>5, <1>6

\* What holds of single leaves, and of a range when it holds of its halves,
\* holds of every range.
LEMMA RangeInduction ==
    ASSUME NEW n \in Nat, NEW P,
           \A r \in ranges(n) : sizeOf(r) = 1 => r \in P,
           \A r \in ranges(n) :
              sizeOf(r) # 1 /\ leftOf(r) \in P /\ rightOf(r) \in P => r \in P
    PROVE  \A r \in ranges(n) : r \in P
  <1> DEFINE size == [r \in ranges(n) |-> sizeOf(r)]
  <1>1. \A r \in ranges(n) : sizeOf(r) \in Nat
    BY Halving
  <1>2. size \in [ranges(n) -> Nat] /\ \A r \in ranges(n) : size[r] = sizeOf(r)
    BY <1>1
  <1> HIDE DEF size
  <1>3. ASSUME NEW r \in ranges(n), \A y \in ranges(n) : size[y] < size[r] => y \in P
        PROVE  r \in P
    <2>1. CASE sizeOf(r) = 1
      BY <2>1
    <2>2. CASE sizeOf(r) # 1
      <3>1. /\ leftOf(r) \in ranges(n) /\ rightOf(r) \in ranges(n)
            /\ sizeOf(leftOf(r)) < sizeOf(r) /\ sizeOf(rightOf(r)) < sizeOf(r)
        BY <2>2, Halving
      <3>2. leftOf(r) \in P /\ rightOf(r) \in P
        BY <1>2, <1>3, <3>1
      <3> QED
        BY <2>2, <3>2
    <2> QED
      BY <2>1, <2>2
  <1> QED
    BY <1>2, <1>3, SizeInduction

\* f has base at single leaves and joins the values of the halves elsewhere.
OverRanges(f, n, base, join) ==
    /\ f = [r \in ranges(n) |-> f[r]]
    /\ \A r \in ranges(n) :
          /\ sizeOf(r) = 1 => f[r] = base[r]
          /\ sizeOf(r) # 1 => f[r] = join[r][f[leftOf(r)]][f[rightOf(r)]]

\* Such a function exists.
LEMMA RangeRecursion ==
    ASSUME NEW n \in Nat, NEW V, V # {},
           NEW base \in [ranges(n) -> V],
           NEW join \in [ranges(n) -> [V -> [V -> V]]]
    PROVE  \E f : OverRanges(f, n, base, join) /\ f \in [ranges(n) -> V]
  <1> DEFINE D == ranges(n)
             next(r, g) == IF sizeOf(r) = 1 THEN base[r]
                           ELSE join[r][g[leftOf(r)]][g[rightOf(r)]]
             size == [r \in D |-> sizeOf(r)]
             step == [r \in D |-> [g \in [D -> V] |-> next(r, g)]]
  <1>1. \A r \in D : sizeOf(r) \in Nat
    BY Halving
  <1>2. \A r \in D : sizeOf(r) # 1 =>
           /\ leftOf(r) \in D /\ rightOf(r) \in D
           /\ sizeOf(leftOf(r)) < sizeOf(r) /\ sizeOf(rightOf(r)) < sizeOf(r)
    BY Halving
  <1> HIDE DEF D
  <1>3. base \in [D -> V] /\ join \in [D -> [V -> [V -> V]]]
    BY DEF D
  <1>4. ASSUME NEW r \in D, NEW g \in [D -> V] PROVE next(r, g) \in V
    <2>1. CASE sizeOf(r) = 1
      BY <1>3, <2>1
    <2>2. CASE sizeOf(r) # 1
      <3>1. g[leftOf(r)] \in V /\ g[rightOf(r)] \in V
        BY <1>2, <2>2
      <3>2. join[r][g[leftOf(r)]][g[rightOf(r)]] \in V
        BY <1>3, <3>1
      <3> QED
        BY <2>2, <3>2
    <2> QED
      BY <2>1, <2>2
  <1>5. ASSUME NEW r \in D, NEW g \in [D -> V], NEW h \in [D -> V],
               \A y \in D : sizeOf(y) < sizeOf(r) => g[y] = h[y]
        PROVE  next(r, g) = next(r, h)
    BY <1>2, <1>5
  <1>6. size \in [D -> Nat] /\ \A r \in D : size[r] = sizeOf(r)
    BY <1>1
  <1> HIDE DEF next, size
  <1>7. /\ step \in [D -> [[D -> V] -> V]]
        /\ \A r \in D : \A g \in [D -> V] : step[r][g] = next(r, g)
    BY <1>4
  <1> HIDE DEF step
  <1>8. ASSUME NEW r \in D, NEW g \in [D -> V], NEW h \in [D -> V],
               \A y \in D : size[y] < size[r] => g[y] = h[y]
        PROVE  step[r][g] = step[r][h]
    <2>1. next(r, g) = next(r, h)
      BY <1>5, <1>6, <1>8
    <2> QED
      BY <1>7, <2>1
  <1>9. Recursion(D, V, size, step)
    BY <1>6, <1>7, <1>8 DEF Recursion
  <1>10. PICK f : Solves(f, D, V, step)
    BY <1>9, RecursionDefines, Zenon
  <1>11. f \in [D -> V] /\ \A r \in D : f[r] = next(r, f)
    BY <1>7, <1>10 DEF Solves
  <1>12. OverRanges(f, n, base, join)
    BY <1>11 DEF OverRanges, D, next
  <1> QED
    BY <1>11, <1>12 DEF D

-----------------------------------------------------------------------------
(* Roots.                                                                  *)

\* The recursion of merkleRootForRange.
LEMMA RootForRange ==
    ASSUME NEW P, NEW t \in Seq(P)
    PROVE  /\ merkleRootForRange(t) \in [ranges(Len(t)) -> Hashes(P)]
           /\ \A r \in ranges(Len(t)) :
                 /\ sizeOf(r) = 1 =>
                       merkleRootForRange(t)[r] = leafHash(t[r[1] + 1])
                 /\ sizeOf(r) # 1 =>
                       merkleRootForRange(t)[r] =
                          nodeHash(merkleRootForRange(t)[leftOf(r)],
                                   merkleRootForRange(t)[rightOf(r)])
  <1> DEFINE n == Len(t)
             H == Hashes(P)
             base == [r \in ranges(n) |-> leafHash(t[r[1] + 1])]
             join == [r \in ranges(n) |-> [a \in H |-> [b \in H |-> nodeHash(a, b)]]]
             Eq(f) == f = [r \in ranges(n) |->
                              IF sizeOf(r) = 1 THEN leafHash(t[r[1] + 1])
                              ELSE nodeHash(f[leftOf(r)], f[rightOf(r)])]
             f == merkleRootForRange(t)
  <1>1. n \in Nat
    OBVIOUS
  <1>2. \A r \in ranges(n) : sizeOf(r) # 1 => leftOf(r) \in ranges(n) /\ rightOf(r) \in ranges(n)
    BY <1>1, Halving
  <1>3. \A r \in ranges(n) : leafHash(t[r[1] + 1]) \in H
    <2> SUFFICES ASSUME NEW r \in ranges(n) PROVE leafHash(t[r[1] + 1]) \in H
      OBVIOUS
    <2>1. r[1] \in 0 .. n /\ r[2] \in 0 .. n /\ r[1] < r[2]
      BY <1>1, Halving
    <2>2. r[1] + 1 \in 1 .. n
      BY <1>1, <2>1
    <2>3. t[r[1] + 1] \in P
      BY <2>2
    <2> QED
      BY <2>3, HashesClosed
  <1>4. \A a, b \in H : nodeHash(a, b) \in H
    BY HashesClosed, Zenon
  <1>5. H # {}
    BY HashesClosed
  <1>6. f = CHOOSE g : Eq(g)
    BY DEF merkleRootForRange
  <1> HIDE DEF H, n, f
  <1>7. base \in [ranges(n) -> H] /\ \A r \in ranges(n) : base[r] = leafHash(t[r[1] + 1])
    BY <1>3
  <1>8. /\ join \in [ranges(n) -> [H -> [H -> H]]]
        /\ \A r \in ranges(n) : \A a, b \in H : join[r][a][b] = nodeHash(a, b)
    BY <1>4
  <1> HIDE DEF base, join
  <1>9. PICK g : OverRanges(g, n, base, join) /\ g \in [ranges(n) -> H]
    BY <1>1, <1>5, <1>7, <1>8, RangeRecursion, Zenon
  <1>10. \A r \in ranges(n) :
            /\ sizeOf(r) = 1 => g[r] = leafHash(t[r[1] + 1])
            /\ sizeOf(r) # 1 => g[r] = nodeHash(g[leftOf(r)], g[rightOf(r)])
    <2>1. ASSUME NEW r \in ranges(n), sizeOf(r) # 1
          PROVE  g[r] = nodeHash(g[leftOf(r)], g[rightOf(r)])
      <3>1. g[leftOf(r)] \in H /\ g[rightOf(r)] \in H
        BY <1>2, <1>9, <2>1
      <3> QED
        BY <1>8, <1>9, <2>1, <3>1 DEF OverRanges
    <2> QED
      BY <1>7, <1>9, <2>1 DEF OverRanges
  <1>11. Eq(g)
    BY <1>9, <1>10
  <1>12. Eq(f)
    <2> HIDE DEF Eq
    <2> QED
      BY <1>6, <1>11, Zenon
  <1>13. /\ f = [r \in ranges(n) |-> f[r]]
         /\ \A r \in ranges(n) :
            /\ sizeOf(r) = 1 => f[r] = leafHash(t[r[1] + 1])
            /\ sizeOf(r) # 1 => f[r] = nodeHash(f[leftOf(r)], f[rightOf(r)])
    BY <1>12
  <1> HIDE DEF Eq
  <1>14. \A r \in ranges(n) : f[r] \in H
    <2> DEFINE Q == {r \in ranges(n) : f[r] \in H}
    <2>1. \A r \in ranges(n) : sizeOf(r) = 1 => r \in Q
      BY <1>3, <1>13
    <2>2. \A r \in ranges(n) :
             sizeOf(r) # 1 /\ leftOf(r) \in Q /\ rightOf(r) \in Q => r \in Q
      BY <1>4, <1>13
    <2> HIDE DEF Q
    <2>3. \A r \in ranges(n) : r \in Q
      BY <1>1, <2>1, <2>2, RangeInduction
    <2> QED
      BY <2>3 DEF Q
  <1>15. f \in [ranges(n) -> H]
    BY <1>13, <1>14
  <1> QED
    BY <1>13, <1>15 DEF f, n, H

-----------------------------------------------------------------------------
(* Inclusion proofs.                                                       *)

Sides == {"left", "right"}
Steps(P) == [position : Sides, hash : Hashes(P)]
Forks(n) == {r \in ranges(n) : sizeOf(r) # 1}

\* f goes from leaf i up to each range, taking right[r] above a left half and
\* left[r] above a right one.
Upwards(f, n, i, left, right) ==
    /\ f = [r \in ranges(n) |-> f[r]]
    /\ \A r \in ranges(n) : sizeOf(r) = 1 => f[r] = << >>
    /\ \A r \in Forks(n) : i < splitOf(r) => f[r] = Append(f[leftOf(r)], right[r])
    /\ \A r \in Forks(n) : ~ (i < splitOf(r)) => f[r] = Append(f[rightOf(r)], left[r])

\* Such functions exist, and all are sequences of what is taken.
LEMMA UpwardsExists ==
    ASSUME NEW n \in Nat, NEW i \in Nat, NEW X,
           NEW left \in [Forks(n) -> X], NEW right \in [Forks(n) -> X]
    PROVE  /\ \E f : Upwards(f, n, i, left, right)
           /\ \A f : Upwards(f, n, i, left, right) => f \in [ranges(n) -> Seq(X)]
  <1> DEFINE V == Seq(X)
             next(r, a, b) == IF r \in Forks(n)
                              THEN IF i < splitOf(r) THEN Append(a, right[r])
                                   ELSE Append(b, left[r])
                              ELSE << >>
             base == [r \in ranges(n) |-> << >>]
             join == [r \in ranges(n) |-> [a \in V |-> [b \in V |-> next(r, a, b)]]]
  <1>1. \A r \in Forks(n) : r \in ranges(n) /\ leftOf(r) \in ranges(n) /\ rightOf(r) \in ranges(n)
    BY Halving DEF Forks
  <1>2. /\ << >> \in V
        /\ \A a \in V : \A x \in X : Append(a, x) \in V
    OBVIOUS
  <1> HIDE DEF V
  <1>3. \A r \in ranges(n) : \A a, b \in V : next(r, a, b) \in V
    BY <1>2
  <1>4. \A r \in ranges(n) : r \in Forks(n) \/ sizeOf(r) = 1
    BY DEF Forks
  <1>5. base \in [ranges(n) -> V] /\ \A r \in ranges(n) : base[r] = << >>
    BY <1>2
  <1> HIDE DEF next, base
  <1>6. /\ join \in [ranges(n) -> [V -> [V -> V]]]
        /\ \A r \in ranges(n) : \A a, b \in V : join[r][a][b] = next(r, a, b)
    BY <1>3
  <1> HIDE DEF join
  <1>7. PICK g : OverRanges(g, n, base, join) /\ g \in [ranges(n) -> V]
    <2>1. V # {}
      BY <1>2
    <2> QED
      BY <1>5, <1>6, <2>1, RangeRecursion, Zenon
  <1>8. ASSUME NEW r \in Forks(n) PROVE g[r] = next(r, g[leftOf(r)], g[rightOf(r)])
    <2>1. g[leftOf(r)] \in V /\ g[rightOf(r)] \in V
      BY <1>1, <1>7
    <2>2. g[r] = join[r][g[leftOf(r)]][g[rightOf(r)]]
      BY <1>7 DEF OverRanges, Forks
    <2> QED
      BY <1>1, <1>6, <2>1, <2>2
  <1>9. Upwards(g, n, i, left, right)
    <2>1. g = [r \in ranges(n) |-> g[r]] /\ \A r \in ranges(n) : sizeOf(r) = 1 => g[r] = << >>
      BY <1>5, <1>7 DEF OverRanges
    <2>2. \A r \in Forks(n) : i < splitOf(r) => g[r] = Append(g[leftOf(r)], right[r])
      BY <1>8 DEF next
    <2>3. \A r \in Forks(n) : ~ (i < splitOf(r)) => g[r] = Append(g[rightOf(r)], left[r])
      BY <1>8 DEF next
    <2> QED
      BY <2>1, <2>2, <2>3 DEF Upwards
  <1>10. ASSUME NEW f, Upwards(f, n, i, left, right) PROVE f \in [ranges(n) -> V]
    <2> DEFINE Q == {r \in ranges(n) : f[r] \in V}
    <2>1. \A r \in ranges(n) : sizeOf(r) = 1 => r \in Q
      BY <1>2, <1>10 DEF Upwards
    <2>2. ASSUME NEW r \in ranges(n), sizeOf(r) # 1, leftOf(r) \in Q, rightOf(r) \in Q
          PROVE  r \in Q
      <3>1. r \in Forks(n) /\ right[r] \in X /\ left[r] \in X
        BY <2>2 DEF Forks
      <3>2. Append(f[leftOf(r)], right[r]) \in V /\ Append(f[rightOf(r)], left[r]) \in V
        BY <1>2, <2>2, <3>1
      <3>3. f[r] = Append(f[leftOf(r)], right[r]) \/ f[r] = Append(f[rightOf(r)], left[r])
        BY <1>10, <3>1 DEF Upwards
      <3> QED
        BY <3>2, <3>3
    <2> HIDE DEF Q
    <2>3. \A r \in ranges(n) : r \in Q
      BY <2>1, <2>2, RangeInduction
    <2>4. \A r \in ranges(n) : f[r] \in V
      BY <2>3 DEF Q
    <2>5. f = [r \in ranges(n) |-> f[r]]
      BY <1>10 DEF Upwards
    <2> QED
      BY <2>4, <2>5
  <1> QED
    BY <1>9, <1>10 DEF V

\* The recursion of inclusionPathPositionsForRange.
LEMMA PositionsForRange ==
    ASSUME NEW n \in Nat, NEW i \in Nat
    PROVE  /\ inclusionPathPositionsForRange(i, n) \in [ranges(n) -> Seq(Sides)]
           /\ Upwards(inclusionPathPositionsForRange(i, n), n, i,
                      [r \in Forks(n) |-> "left"], [r \in Forks(n) |-> "right"])
  <1> DEFINE left == [r \in Forks(n) |-> "left"]
             right == [r \in Forks(n) |-> "right"]
             Eq(f) == f = [r \in ranges(n) |->
                              IF sizeOf(r) = 1 THEN << >>
                              ELSE IF i < splitOf(r) THEN Append(f[leftOf(r)], "right")
                              ELSE Append(f[rightOf(r)], "left")]
             f == inclusionPathPositionsForRange(i, n)
  <1>1. left \in [Forks(n) -> Sides] /\ right \in [Forks(n) -> Sides]
    BY DEF Sides
  <1>2. \A r \in Forks(n) : left[r] = "left" /\ right[r] = "right"
    OBVIOUS
  <1>3. f = CHOOSE g : Eq(g)
    BY DEF inclusionPathPositionsForRange
  <1> HIDE DEF left, right, f
  <1>4. PICK g : Upwards(g, n, i, left, right)
    BY <1>1, UpwardsExists
  <1>5. Eq(g)
    <2>1. \A r \in ranges(n) : g[r] =
             IF sizeOf(r) = 1 THEN << >>
             ELSE IF i < splitOf(r) THEN Append(g[leftOf(r)], "right")
             ELSE Append(g[rightOf(r)], "left")
      BY <1>2, <1>4 DEF Upwards, Forks
    <2>2. g = [r \in ranges(n) |-> g[r]]
      BY <1>4 DEF Upwards
    <2> QED
      BY <2>1, <2>2
  <1>6. Eq(f)
    <2> HIDE DEF Eq
    <2> QED
      BY <1>3, <1>5, Zenon
  <1>7. Upwards(f, n, i, left, right)
    <2>1. \A r \in ranges(n) : f[r] =
             IF sizeOf(r) = 1 THEN << >>
             ELSE IF i < splitOf(r) THEN Append(f[leftOf(r)], "right")
             ELSE Append(f[rightOf(r)], "left")
      BY <1>6
    <2>2. f = [r \in ranges(n) |-> f[r]]
      BY <1>6
    <2> HIDE DEF Eq
    <2> QED
      BY <1>2, <2>1, <2>2 DEF Upwards, Forks
  <1>8. f \in [ranges(n) -> Seq(Sides)]
    BY <1>1, <1>7, UpwardsExists
  <1> QED
    BY <1>7, <1>8 DEF f, left, right

\* The steps at the forks of a range: the root of the other half.
LeftSteps(t) ==
    [r \in Forks(Len(t)) |->
        [position |-> "left", hash |-> merkleRootForRange(t)[leftOf(r)]]]
RightSteps(t) ==
    [r \in Forks(Len(t)) |->
        [position |-> "right", hash |-> merkleRootForRange(t)[rightOf(r)]]]

\* The recursion of inclusionPathForRange.
LEMMA PathForRange ==
    ASSUME NEW P, NEW t \in Seq(P), NEW i \in Nat
    PROVE  /\ inclusionPathForRange(i, t) \in [ranges(Len(t)) -> Seq(Steps(P))]
           /\ Upwards(inclusionPathForRange(i, t), Len(t), i, LeftSteps(t), RightSteps(t))
  <1> DEFINE n == Len(t)
             root == merkleRootForRange(t)
             left == LeftSteps(t)
             right == RightSteps(t)
             L(r) == [position |-> "left", hash |-> root[leftOf(r)]]
             R(r) == [position |-> "right", hash |-> root[rightOf(r)]]
             Eq(f) == f = [r \in ranges(n) |->
                              IF sizeOf(r) = 1 THEN << >>
                              ELSE IF i < splitOf(r) THEN Append(f[leftOf(r)], R(r))
                              ELSE Append(f[rightOf(r)], L(r))]
             f == inclusionPathForRange(i, t)
  <1>0. n \in Nat
    OBVIOUS
  <1>1. left \in [Forks(n) -> Steps(P)] /\ right \in [Forks(n) -> Steps(P)]
    <2>1. root \in [ranges(n) -> Hashes(P)]
      BY RootForRange
    <2>2. \A r \in Forks(n) : leftOf(r) \in ranges(n) /\ rightOf(r) \in ranges(n)
      BY <1>0, Halving DEF Forks
    <2>3. \A r \in Forks(n) : L(r) \in Steps(P) /\ R(r) \in Steps(P)
      BY <2>1, <2>2 DEF Steps, Sides
    <2> QED
      BY <2>3 DEF LeftSteps, RightSteps
  <1>2. \A r \in Forks(n) : left[r] = L(r) /\ right[r] = R(r)
    BY DEF LeftSteps, RightSteps
  <1>3. f = CHOOSE g : Eq(g)
    BY DEF inclusionPathForRange
  <1> HIDE DEF left, right, f, L, R, n
  <1>4. PICK g : Upwards(g, n, i, left, right)
    BY <1>0, <1>1, UpwardsExists
  <1>5. Eq(g)
    <2>1. \A r \in ranges(n) : g[r] =
             IF sizeOf(r) = 1 THEN << >>
             ELSE IF i < splitOf(r) THEN Append(g[leftOf(r)], R(r))
             ELSE Append(g[rightOf(r)], L(r))
      BY <1>2, <1>4 DEF Upwards, Forks
    <2>2. g = [r \in ranges(n) |-> g[r]]
      BY <1>4 DEF Upwards
    <2> QED
      BY <2>1, <2>2
  <1>6. Eq(f)
    <2> HIDE DEF Eq
    <2> QED
      BY <1>3, <1>5, Zenon
  <1>7. Upwards(f, n, i, left, right)
    <2>1. \A r \in ranges(n) : f[r] =
             IF sizeOf(r) = 1 THEN << >>
             ELSE IF i < splitOf(r) THEN Append(f[leftOf(r)], R(r))
             ELSE Append(f[rightOf(r)], L(r))
      BY <1>6
    <2>2. f = [r \in ranges(n) |-> f[r]]
      BY <1>6
    <2> HIDE DEF Eq
    <2> QED
      BY <1>2, <2>1, <2>2 DEF Upwards, Forks
  <1>8. f \in [ranges(n) -> Seq(Steps(P))]
    BY <1>0, <1>1, <1>7, UpwardsExists
  <1> QED
    BY <1>7, <1>8 DEF f, left, right, n

\* The recursion of climb.
Climbs(f, P, hash, path) ==
    /\ f \in [0 .. Len(path) -> Hashes(P)]
    /\ f[0] = hash
    /\ \A n \in 1 .. Len(path) :
          /\ path[n].position = "left" => f[n] = nodeHash(path[n].hash, f[n - 1])
          /\ path[n].position # "left" => f[n] = nodeHash(f[n - 1], path[n].hash)

\* climb obeys its equation.
LEMMA Climb ==
    ASSUME NEW P, NEW hash \in Hashes(P), NEW path \in Seq(Steps(P))
    PROVE  Climbs(climb(hash, path), P, hash, path)
  <1> DEFINE H == Hashes(P)
             D == 0 .. Len(path)
             next(n, g) == IF n = 0 THEN hash
                           ELSE IF path[n].position = "left"
                           THEN nodeHash(path[n].hash, g[n - 1])
                           ELSE nodeHash(g[n - 1], path[n].hash)
             size == [n \in D |-> n]
             step == [n \in D |-> [g \in [D -> H] |-> next(n, g)]]
             Eq(f) == f = [n \in D |-> next(n, f)]
             f == climb(hash, path)
  <1>1. \A n \in D : n \in Nat /\ (n # 0 => n - 1 \in D /\ n - 1 < n /\ path[n].hash \in H)
    <2> SUFFICES ASSUME NEW n \in D
                 PROVE  n \in Nat /\ (n # 0 => n - 1 \in D /\ n - 1 < n /\ path[n].hash \in H)
      OBVIOUS
    <2> HIDE DEF next, size, step, Eq, f
    <2>1. n \in Nat /\ (n # 0 => n - 1 \in D /\ n - 1 < n /\ n \in 1 .. Len(path))
      OBVIOUS
    <2>2. n # 0 => path[n] \in Steps(P)
      BY <2>1
    <2> QED
      BY <2>1, <2>2 DEF Steps
  <1>2. \A a, b \in H : nodeHash(a, b) \in H
    BY HashesClosed, Zenon
  <1>3. hash \in H
    OBVIOUS
  <1>4. f = CHOOSE g : Eq(g)
    BY DEF climb
  <1>5. 0 \in D /\ \A n \in 1 .. Len(path) : n \in D /\ n # 0
    OBVIOUS
  <1> HIDE DEF H, D, f
  <1>6. ASSUME NEW n \in D, NEW g \in [D -> H] PROVE next(n, g) \in H
    <2>1. CASE n = 0
      BY <1>3, <2>1
    <2>2. CASE n # 0
      <3>1. g[n - 1] \in H /\ path[n].hash \in H
        BY <1>1, <2>2
      <3> QED
        BY <1>2, <2>2, <3>1
    <2> QED
      BY <2>1, <2>2
  <1>7. ASSUME NEW n \in D, NEW g \in [D -> H], NEW h \in [D -> H],
               \A y \in D : y < n => g[y] = h[y]
        PROVE  next(n, g) = next(n, h)
    <2>1. n # 0 => g[n - 1] = h[n - 1]
      BY <1>1, <1>7
    <2> QED
      BY <2>1
  <1>8. size \in [D -> Nat] /\ \A n \in D : size[n] = n
    BY <1>1
  <1> HIDE DEF next, size
  <1>9. /\ step \in [D -> [[D -> H] -> H]]
        /\ \A n \in D : \A g \in [D -> H] : step[n][g] = next(n, g)
    BY <1>6
  <1> HIDE DEF step
  <1>10. ASSUME NEW n \in D, NEW g \in [D -> H], NEW h \in [D -> H],
                \A y \in D : size[y] < size[n] => g[y] = h[y]
         PROVE  step[n][g] = step[n][h]
    <2>1. next(n, g) = next(n, h)
      BY <1>7, <1>8, <1>10
    <2> QED
      BY <1>9, <2>1
  <1>11. Recursion(D, H, size, step)
    BY <1>8, <1>9, <1>10 DEF Recursion
  <1>12. PICK g : Solves(g, D, H, step)
    <2>1. H # {}
      BY <1>3
    <2> QED
      BY <1>11, <2>1, RecursionDefines, Zenon
  <1>13. g \in [D -> H] /\ \A n \in D : g[n] = next(n, g)
    BY <1>9, <1>12 DEF Solves
  <1>14. Eq(g)
    BY <1>13
  <1>15. Eq(f)
    <2> HIDE DEF Eq
    <2> QED
      BY <1>4, <1>14, Zenon
  <1>16. f = [n \in D |-> f[n]] /\ \A n \in D : f[n] = next(n, f)
    BY <1>15
  <1> HIDE DEF Eq
  <1>17. \A n \in D : f[n] \in H
    <2> DEFINE Q == {n \in D : f[n] \in H}
    <2>1. ASSUME NEW n \in D, \A y \in D : size[y] < size[n] => y \in Q
          PROVE  n \in Q
      <3>1. CASE n = 0
        BY <1>3, <1>16, <3>1 DEF next
      <3>2. CASE n # 0
        <4>1. n - 1 \in D /\ n - 1 < n /\ path[n].hash \in H
          BY <1>1, <3>2
        <4>2. f[n - 1] \in H
          BY <1>8, <2>1, <4>1
        <4> QED
          BY <1>2, <1>16, <3>2, <4>1, <4>2 DEF next
      <3> QED
        BY <3>1, <3>2
    <2> HIDE DEF Q
    <2>2. \A n \in D : n \in Q
      BY <1>8, <2>1, SizeInduction
    <2> QED
      BY <2>2 DEF Q
  <1>18. f \in [D -> H]
    BY <1>16, <1>17
  <1>19. f[0] = hash
    BY <1>5, <1>16 DEF next
  <1>20. ASSUME NEW n \in 1 .. Len(path)
         PROVE  /\ path[n].position = "left" => f[n] = nodeHash(path[n].hash, f[n - 1])
                /\ path[n].position # "left" => f[n] = nodeHash(f[n - 1], path[n].hash)
    <2>1. f[n] = next(n, f) /\ n # 0
      BY <1>5, <1>16
    <2> QED
      BY <2>1 DEF next
  <1> QED
    BY <1>18, <1>19, <1>20 DEF f, H, D, Climbs

\* The hash a path leads to.
Reached(hash, path) == climb(hash, path)[Len(path)]

\* A step is taken from the hash the path before it leads to.
LEMMA ReachedByStep ==
    ASSUME NEW P, NEW hash \in Hashes(P), NEW path \in Seq(Steps(P)), NEW s \in Steps(P)
    PROVE  /\ Reached(hash, path) \in Hashes(P)
           /\ s.position = "left" =>
                 Reached(hash, Append(path, s)) = nodeHash(s.hash, Reached(hash, path))
           /\ s.position # "left" =>
                 Reached(hash, Append(path, s)) = nodeHash(Reached(hash, path), s.hash)
  <1> DEFINE n == Len(path)
             q == Append(path, s)
             f == climb(hash, path)
             g == climb(hash, q)
             T == {k \in Nat : k <= n => f[k] = g[k]}
  <1>1. /\ q \in Seq(Steps(P)) /\ Len(q) = n + 1 /\ n \in Nat
        /\ q[n + 1] = s /\ \A k \in 1 .. n : q[k] = path[k]
    OBVIOUS
  <1>2. /\ f \in [0 .. n -> Hashes(P)] /\ f[0] = hash
        /\ \A k \in 1 .. n :
              /\ path[k].position = "left" => f[k] = nodeHash(path[k].hash, f[k - 1])
              /\ path[k].position # "left" => f[k] = nodeHash(f[k - 1], path[k].hash)
    BY Climb DEF Climbs
  <1> HIDE DEF q, n
  <1>3. /\ g[0] = hash
        /\ \A k \in 1 .. n + 1 :
              /\ q[k].position = "left" => g[k] = nodeHash(q[k].hash, g[k - 1])
              /\ q[k].position # "left" => g[k] = nodeHash(g[k - 1], q[k].hash)
    <2>1. /\ g[0] = hash
          /\ \A k \in 1 .. Len(q) :
                /\ q[k].position = "left" => g[k] = nodeHash(q[k].hash, g[k - 1])
                /\ q[k].position # "left" => g[k] = nodeHash(g[k - 1], q[k].hash)
      <3>1. Climbs(g, P, hash, q)
        BY <1>1, Climb
      <3> HIDE DEF T, f, g
      <3> QED
        BY <3>1 DEF Climbs
    <2> QED
      BY <1>1, <2>1
  <1>4. Reached(hash, path) = f[n] /\ Reached(hash, q) = g[n + 1]
    BY <1>1 DEF Reached, n
  <1> HIDE DEF f, g
  <1>5. 0 \in T
    BY <1>2, <1>3
  <1>6. ASSUME NEW k \in Nat, k <= n => f[k] = g[k], k + 1 <= n PROVE f[k + 1] = g[k + 1]
    <2> HIDE DEF T
    <2>1. k + 1 \in 1 .. n /\ k + 1 \in 1 .. n + 1 /\ k <= n /\ k + 1 - 1 = k
      BY <1>1, <1>6
    <2>2. q[k + 1] = path[k + 1] /\ f[k] = g[k]
      BY <1>1, <1>6, <2>1
    <2> QED
      BY <1>2, <1>3, <2>1, <2>2
  <1>7. \A k \in T : k + 1 \in T
    BY <1>6
  <1>8. T \in SUBSET Nat
    OBVIOUS
  <1> HIDE DEF T
  <1>9. \A k \in Nat : k \in T
    BY <1>5, <1>7, <1>8, NatSetInduction
  <1>10. f[n] = g[n] /\ f[n] \in Hashes(P)
    BY <1>1, <1>2, <1>9 DEF T
  <1>11. n + 1 \in 1 .. n + 1 /\ n + 1 - 1 = n
    BY <1>1
  <1>12. /\ s.position = "left" => g[n + 1] = nodeHash(s.hash, g[n])
         /\ s.position # "left" => g[n + 1] = nodeHash(g[n], s.hash)
    BY <1>1, <1>3, <1>11
  <1> QED
    BY <1>4, <1>10, <1>12 DEF q

\* The path lies on the sides the positions name.
Matches(path, positions) ==
    /\ Len(positions) = Len(path)
    /\ \A n \in 1 .. Len(path) : path[n].position = positions[n]

\* Paths that lie where they should still do so after one more step.
LEMMA MatchStep ==
    ASSUME NEW P, NEW path \in Seq(Steps(P)), NEW s \in Steps(P),
           NEW positions \in Seq(Sides), NEW x \in Sides
    PROVE  Matches(Append(path, s), Append(positions, x)) <=>
              Matches(path, positions) /\ s.position = x
  <1> DEFINE p == Append(path, s)
             q == Append(positions, x)
             m == Len(path)
             n == Len(positions)
  <1>1. /\ m \in Nat /\ n \in Nat /\ Len(p) = m + 1 /\ Len(q) = n + 1
        /\ p[m + 1] = s /\ q[n + 1] = x
        /\ \A k \in 1 .. m : p[k] = path[k]
        /\ \A k \in 1 .. n : q[k] = positions[k]
    OBVIOUS
  <1> HIDE DEF p, q
  <1>2. ASSUME Matches(p, q) PROVE Matches(path, positions) /\ s.position = x
    <2>1. m = n /\ m + 1 \in 1 .. m + 1 /\ 1 .. m \subseteq 1 .. m + 1
      BY <1>1, <1>2 DEF Matches
    <2>2. \A k \in 1 .. m + 1 : p[k].position = q[k]
      BY <1>1, <1>2 DEF Matches
    <2> HIDE DEF m, n
    <2>3. s.position = x
      BY <1>1, <2>1, <2>2
    <2>4. \A k \in 1 .. m : path[k].position = positions[k]
      BY <1>1, <2>1, <2>2
    <2> QED
      BY <2>1, <2>3, <2>4 DEF Matches, m, n
  <1>3. ASSUME Matches(path, positions), s.position = x PROVE Matches(p, q)
    <2>1. m = n /\ \A k \in 1 .. m : path[k].position = positions[k]
      BY <1>3 DEF Matches
    <2> HIDE DEF m, n
    <2>2. ASSUME NEW k \in 1 .. m + 1 PROVE p[k].position = q[k]
      <3>1. k = m + 1 \/ k \in 1 .. m
        BY <1>1
      <3> QED
        BY <1>1, <1>3, <2>1, <3>1
    <2> QED
      BY <1>1, <2>1, <2>2 DEF Matches
  <1> QED
    BY <1>2, <1>3 DEF p, q

\* A path of some steps is a shorter one and its last step.
LEMMA LastStep ==
    ASSUME NEW S, NEW path \in Seq(S), NEW n \in Nat, Len(path) = n + 1
    PROVE  \E short \in Seq(S) : \E s \in S : path = Append(short, s)
  <1> DEFINE short == SubSeq(path, 1, n)
  <1>1. short \in Seq(S) /\ Len(short) = n /\ \A k \in 1 .. n : short[k] = path[k]
    OBVIOUS
  <1>2. path[n + 1] \in S
    OBVIOUS
  <1> HIDE DEF short
  <1>3. path = Append(short, path[n + 1])
    <2> DEFINE q == Append(short, path[n + 1])
    <2>1. q \in Seq(S) /\ Len(q) = n + 1 /\ q[n + 1] = path[n + 1]
      BY <1>1, <1>2
    <2>2. \A k \in 1 .. n : q[k] = path[k]
      BY <1>1
    <2> HIDE DEF q
    <2>3. \A k \in 1 .. n + 1 : q[k] = path[k]
      BY <2>1, <2>2
    <2>4. q = path
      BY <2>1, <2>3
    <2> QED
      BY <2>4 DEF q
  <1> QED
    BY <1>1, <1>2, <1>3

\* An empty path leads nowhere.
LEMMA NoSteps ==
    ASSUME NEW P, NEW hash \in Hashes(P)
    PROVE  Reached(hash, << >>) = hash /\ Matches(<< >>, << >>)
  <1>1. << >> \in Seq(Steps(P)) /\ Len(<< >>) = 0
    OBVIOUS
  <1>2. climb(hash, << >>)[0] = hash
    BY <1>1, Climb DEF Climbs
  <1> QED
    BY <1>1, <1>2 DEF Reached, Matches

\* The range holds leaf i.
Holds(r, i) == r[1] <= i /\ i < r[2]

\* The half that holds the leaf is the one the code descends into.
LEMMA HoldsHalf ==
    ASSUME NEW n \in Nat, NEW r \in Forks(n), NEW i \in Nat, Holds(r, i)
    PROVE  /\ r \in ranges(n) /\ leftOf(r) \in ranges(n) /\ rightOf(r) \in ranges(n)
           /\ i < splitOf(r) => Holds(leftOf(r), i)
           /\ ~ (i < splitOf(r)) => Holds(rightOf(r), i)
  <1>1. /\ r \in ranges(n) /\ leftOf(r) \in ranges(n) /\ rightOf(r) \in ranges(n)
        /\ leftOf(r)[1] = r[1] /\ leftOf(r)[2] = splitOf(r)
        /\ rightOf(r)[1] = splitOf(r) /\ rightOf(r)[2] = r[2]
        /\ splitOf(r) \in Nat
    BY Halving DEF Forks
  <1> QED
    BY <1>1 DEF Holds

\* The path generated for a leaf lies where the verifier expects it and leads
\* from the leaf to the root of the range.
LEMMA GeneratedPath ==
    ASSUME NEW P, NEW t \in Seq(P), NEW i \in Nat, i < Len(t)
    PROVE  \A r \in ranges(Len(t)) : Holds(r, i) =>
              /\ Matches(inclusionPathForRange(i, t)[r],
                         inclusionPathPositionsForRange(i, Len(t))[r])
              /\ Reached(leafHash(t[i + 1]), inclusionPathForRange(i, t)[r]) =
                    merkleRootForRange(t)[r]
  <1> DEFINE n == Len(t)
             path == inclusionPathForRange(i, t)
             positions == inclusionPathPositionsForRange(i, n)
             root == merkleRootForRange(t)
             leaf == leafHash(t[i + 1])
             Good(r) == Holds(r, i) =>
                           Matches(path[r], positions[r]) /\ Reached(leaf, path[r]) = root[r]
             Q == {r \in ranges(n) : Good(r)}
  <1>1. n \in Nat /\ leaf \in Hashes(P)
    <2>1. t[i + 1] \in P
      OBVIOUS
    <2> QED
      BY <2>1, HashesClosed
  <1>2. /\ path \in [ranges(n) -> Seq(Steps(P))]
        /\ Upwards(path, n, i, LeftSteps(t), RightSteps(t))
    BY PathForRange
  <1>3. /\ positions \in [ranges(n) -> Seq(Sides)]
        /\ Upwards(positions, n, i, [r \in Forks(n) |-> "left"], [r \in Forks(n) |-> "right"])
    BY <1>1, PositionsForRange
  <1>4. /\ root \in [ranges(n) -> Hashes(P)]
        /\ \A r \in ranges(n) :
              /\ sizeOf(r) = 1 => root[r] = leafHash(t[r[1] + 1])
              /\ sizeOf(r) # 1 => root[r] = nodeHash(root[leftOf(r)], root[rightOf(r)])
    BY RootForRange
  <1>5. \A r \in Forks(n) :
           /\ LeftSteps(t)[r] = [position |-> "left", hash |-> root[leftOf(r)]]
           /\ RightSteps(t)[r] = [position |-> "right", hash |-> root[rightOf(r)]]
    BY DEF LeftSteps, RightSteps
  <1> HIDE DEF n, path, positions, root
  <1>6. ASSUME NEW r \in ranges(n), sizeOf(r) = 1, Holds(r, i)
        PROVE  Matches(path[r], positions[r]) /\ Reached(leaf, path[r]) = root[r]
    <2>1. path[r] = << >> /\ positions[r] = << >>
      BY <1>2, <1>3, <1>6 DEF Upwards
    <2>2. r[1] = i
      <3>1. r[1] \in Nat /\ r[2] \in Nat
        BY <1>1, <1>6, Halving
      <3> QED
        BY <1>6, <3>1 DEF sizeOf, Holds
    <2>3. root[r] = leaf
      BY <1>4, <1>6, <2>2
    <2> HIDE DEF leaf
    <2> QED
      BY <1>1, <2>1, <2>3, NoSteps
  <1> HIDE DEF leaf
  <1>7. ASSUME NEW r \in Forks(n), Holds(r, i), Good(leftOf(r)), Good(rightOf(r))
        PROVE  Matches(path[r], positions[r]) /\ Reached(leaf, path[r]) = root[r]
    <2>1. /\ r \in ranges(n) /\ leftOf(r) \in ranges(n) /\ rightOf(r) \in ranges(n)
          /\ i < splitOf(r) => Holds(leftOf(r), i)
          /\ ~ (i < splitOf(r)) => Holds(rightOf(r), i)
      BY <1>1, <1>7, HoldsHalf
    <2>2. root[r] = nodeHash(root[leftOf(r)], root[rightOf(r)])
      BY <1>4, <2>1 DEF Forks
    <2> DEFINE L == LeftSteps(t)[r]
               R == RightSteps(t)[r]
    <2>3. /\ L \in Steps(P) /\ L.position = "left" /\ L.hash = root[leftOf(r)]
          /\ R \in Steps(P) /\ R.position = "right" /\ R.hash = root[rightOf(r)]
      <3>1. L = [position |-> "left", hash |-> root[leftOf(r)]]
        BY <1>5
      <3>2. R = [position |-> "right", hash |-> root[rightOf(r)]]
        BY <1>5
      <3>3. root[leftOf(r)] \in Hashes(P) /\ root[rightOf(r)] \in Hashes(P)
        BY <1>4, <2>1
      <3> HIDE DEF L, R
      <3> QED
        BY <3>1, <3>2, <3>3 DEF Steps, Sides
    <2> HIDE DEF L, R
    <2>4. CASE i < splitOf(r)
      <3>1. Matches(path[leftOf(r)], positions[leftOf(r)])
        BY <1>7, <2>1, <2>4
      <3>2. Reached(leaf, path[leftOf(r)]) = root[leftOf(r)]
        BY <1>7, <2>1, <2>4
      <3>3. path[r] = Append(path[leftOf(r)], R)
        BY <1>2, <2>4 DEF Upwards, R
      <3>4. positions[r] = Append(positions[leftOf(r)], "right")
        BY <1>3, <2>4 DEF Upwards
      <3>5. path[leftOf(r)] \in Seq(Steps(P)) /\ positions[leftOf(r)] \in Seq(Sides)
        BY <1>2, <1>3, <2>1
      <3>6. Matches(path[r], positions[r])
        BY <2>3, <3>1, <3>3, <3>4, <3>5, MatchStep DEF Sides
      <3>7. Reached(leaf, path[r]) = nodeHash(root[leftOf(r)], root[rightOf(r)])
        BY <1>1, <2>3, <3>2, <3>3, <3>5, ReachedByStep
      <3> QED
        BY <2>2, <3>6, <3>7
    <2>5. CASE ~ (i < splitOf(r))
      <3>1. Matches(path[rightOf(r)], positions[rightOf(r)])
        BY <1>7, <2>1, <2>5
      <3>2. Reached(leaf, path[rightOf(r)]) = root[rightOf(r)]
        BY <1>7, <2>1, <2>5
      <3>3. path[r] = Append(path[rightOf(r)], L)
        BY <1>2, <2>5 DEF Upwards, L
      <3>4. positions[r] = Append(positions[rightOf(r)], "left")
        BY <1>3, <2>5 DEF Upwards
      <3>5. path[rightOf(r)] \in Seq(Steps(P)) /\ positions[rightOf(r)] \in Seq(Sides)
        BY <1>2, <1>3, <2>1
      <3>6. Matches(path[r], positions[r])
        BY <2>3, <3>1, <3>3, <3>4, <3>5, MatchStep DEF Sides
      <3>7. Reached(leaf, path[r]) = nodeHash(root[leftOf(r)], root[rightOf(r)])
        BY <1>1, <2>3, <3>2, <3>3, <3>5, ReachedByStep
      <3> QED
        BY <2>2, <3>6, <3>7
    <2> QED
      BY <2>4, <2>5
  <1>8. \A r \in ranges(n) : sizeOf(r) = 1 => r \in Q
    BY <1>6
  <1>9. \A r \in ranges(n) : sizeOf(r) # 1 /\ leftOf(r) \in Q /\ rightOf(r) \in Q => r \in Q
    BY <1>7 DEF Forks
  <1> HIDE DEF Q
  <1>10. \A r \in ranges(n) : r \in Q
    BY <1>1, <1>8, <1>9, RangeInduction
  <1> QED
    BY <1>10 DEF Q, n, path, positions, root, leaf

-----------------------------------------------------------------------------
(* What a hash can be opened to.                                           *)

\* Some path leads from the payload l at index i to the hash of a range in a
\* tree of n leaves.
Opening(P, h, n, r, i, l) ==
    \E p \in Seq(Steps(P)) :
        /\ Matches(p, inclusionPathPositionsForRange(i, n)[r])
        /\ Reached(leafHash(l), p) = h

\* A range of one leaf opens to its payload only.
LEMMA OpeningLeaf ==
    ASSUME NEW P, NEW h, NEW n \in Nat, NEW r \in ranges(n), NEW i \in Nat, NEW l \in P,
           sizeOf(r) = 1, Opening(P, h, n, r, i, l)
    PROVE  h = leafHash(l)
  <1>1. inclusionPathPositionsForRange(i, n)[r] = << >>
    BY PositionsForRange DEF Upwards
  <1>2. PICK p \in Seq(Steps(P)) :
           Matches(p, inclusionPathPositionsForRange(i, n)[r]) /\ Reached(leafHash(l), p) = h
    BY DEF Opening
  <1>3. Len(p) = 0
    BY <1>1, <1>2 DEF Matches
  <1>4. p = << >>
    BY <1>3
  <1>5. leafHash(l) \in Hashes(P)
    BY HashesClosed
  <1> QED
    BY <1>2, <1>4, <1>5, NoSteps

\* A larger range opens only as a node, to what the half with the leaf opens to.
LEMMA OpeningFork ==
    ASSUME NEW P, NEW h, NEW n \in Nat, NEW r \in Forks(n), NEW i \in Nat, NEW l \in P,
           Opening(P, h, n, r, i, l)
    PROVE  \E a, b \in Hashes(P) :
              /\ h = nodeHash(a, b)
              /\ i < splitOf(r) => Opening(P, a, n, leftOf(r), i, l)
              /\ ~ (i < splitOf(r)) => Opening(P, b, n, rightOf(r), i, l)
  <1> DEFINE positions == inclusionPathPositionsForRange(i, n)
             leaf == leafHash(l)
  <1>1. PICK p \in Seq(Steps(P)) : Matches(p, positions[r]) /\ Reached(leaf, p) = h
    BY DEF Opening
  <1>2. leaf \in Hashes(P)
    BY HashesClosed
  <1>3. /\ positions \in [ranges(n) -> Seq(Sides)]
        /\ Upwards(positions, n, i, [x \in Forks(n) |-> "left"], [x \in Forks(n) |-> "right"])
    BY PositionsForRange
  <1>4. leftOf(r) \in ranges(n) /\ rightOf(r) \in ranges(n)
    BY Halving DEF Forks
  <1> HIDE DEF positions, leaf
  <1>5. ASSUME NEW x \in Sides, NEW half \in ranges(n), positions[r] = Append(positions[half], x)
        PROVE  \E q \in Seq(Steps(P)) : \E s \in Steps(P) :
                  /\ p = Append(q, s) /\ s.position = x /\ Matches(q, positions[half])
    <2>1. positions[half] \in Seq(Sides)
      BY <1>3
    <2>2. Len(p) = Len(positions[half]) + 1 /\ Len(positions[half]) \in Nat
      BY <1>1, <1>5, <2>1 DEF Matches
    <2>3. PICK q \in Seq(Steps(P)), s \in Steps(P) : p = Append(q, s)
      BY <2>2, LastStep
    <2>4. Matches(q, positions[half]) /\ s.position = x
      BY <1>1, <1>5, <2>1, <2>3, MatchStep
    <2> QED
      BY <2>3, <2>4
  <1>6. CASE i < splitOf(r)
    <2>1. positions[r] = Append(positions[leftOf(r)], "right")
      BY <1>3, <1>6 DEF Upwards
    <2>2. PICK q \in Seq(Steps(P)), s \in Steps(P) :
             p = Append(q, s) /\ s.position = "right" /\ Matches(q, positions[leftOf(r)])
      BY <1>4, <1>5, <2>1 DEF Sides
    <2>3. Reached(leaf, q) \in Hashes(P) /\ h = nodeHash(Reached(leaf, q), s.hash)
      BY <1>1, <1>2, <2>2, ReachedByStep
    <2>4. s.hash \in Hashes(P)
      BY DEF Steps
    <2>5. Opening(P, Reached(leaf, q), n, leftOf(r), i, l)
      BY <2>2 DEF Opening, positions, leaf
    <2> QED
      BY <1>6, <2>3, <2>4, <2>5
  <1>7. CASE ~ (i < splitOf(r))
    <2>1. positions[r] = Append(positions[rightOf(r)], "left")
      BY <1>3, <1>7 DEF Upwards
    <2>2. PICK q \in Seq(Steps(P)), s \in Steps(P) :
             p = Append(q, s) /\ s.position = "left" /\ Matches(q, positions[rightOf(r)])
      BY <1>4, <1>5, <2>1 DEF Sides
    <2>3. Reached(leaf, q) \in Hashes(P) /\ h = nodeHash(s.hash, Reached(leaf, q))
      BY <1>1, <1>2, <2>2, ReachedByStep
    <2>4. s.hash \in Hashes(P)
      BY DEF Steps
    <2>5. Opening(P, Reached(leaf, q), n, rightOf(r), i, l)
      BY <2>2 DEF Opening, positions, leaf
    <2> QED
      BY <1>7, <2>3, <2>4, <2>5
  <1> QED
    BY <1>6, <1>7

\* The converse: an opening of the half with the leaf is one of the node.
LEMMA OpeningNode ==
    ASSUME NEW P, NEW a \in Hashes(P), NEW b \in Hashes(P), NEW n \in Nat,
           NEW r \in Forks(n), NEW i \in Nat, NEW l \in P,
           i < splitOf(r) => Opening(P, a, n, leftOf(r), i, l),
           ~ (i < splitOf(r)) => Opening(P, b, n, rightOf(r), i, l)
    PROVE  Opening(P, nodeHash(a, b), n, r, i, l)
  <1> DEFINE positions == inclusionPathPositionsForRange(i, n)
             leaf == leafHash(l)
             R == [position |-> "right", hash |-> b]
             L == [position |-> "left", hash |-> a]
  <1>1. leaf \in Hashes(P)
    BY HashesClosed
  <1>2. /\ positions \in [ranges(n) -> Seq(Sides)]
        /\ Upwards(positions, n, i, [x \in Forks(n) |-> "left"], [x \in Forks(n) |-> "right"])
    BY PositionsForRange
  <1>3. leftOf(r) \in ranges(n) /\ rightOf(r) \in ranges(n)
    BY Halving DEF Forks
  <1>4. /\ R \in Steps(P) /\ R.position = "right" /\ R.hash = b
        /\ L \in Steps(P) /\ L.position = "left" /\ L.hash = a
    BY DEF Steps, Sides
  <1>5. "left" \in Sides /\ "right" \in Sides
    BY DEF Sides
  <1> HIDE DEF R, L
  <1>6. CASE i < splitOf(r)
    <2>1. PICK p \in Seq(Steps(P)) : Matches(p, positions[leftOf(r)]) /\ Reached(leaf, p) = a
      BY <1>6 DEF Opening
    <2> HIDE DEF positions, leaf
    <2>2. positions[r] = Append(positions[leftOf(r)], "right") /\ positions[leftOf(r)] \in Seq(Sides)
      BY <1>2, <1>3, <1>6 DEF Upwards
    <2>3. Matches(Append(p, R), positions[r])
      BY <1>4, <1>5, <2>1, <2>2, MatchStep
    <2>4. Reached(leaf, Append(p, R)) = nodeHash(a, b)
      BY <1>1, <1>4, <2>1, ReachedByStep
    <2>5. Append(p, R) \in Seq(Steps(P))
      BY <1>4
    <2> QED
      BY <2>3, <2>4, <2>5 DEF Opening, positions, leaf
  <1>7. CASE ~ (i < splitOf(r))
    <2>1. PICK p \in Seq(Steps(P)) : Matches(p, positions[rightOf(r)]) /\ Reached(leaf, p) = b
      BY <1>7 DEF Opening
    <2> HIDE DEF positions, leaf
    <2>2. positions[r] = Append(positions[rightOf(r)], "left") /\ positions[rightOf(r)] \in Seq(Sides)
      BY <1>2, <1>3, <1>7 DEF Upwards
    <2>3. Matches(Append(p, L), positions[r])
      BY <1>4, <1>5, <2>1, <2>2, MatchStep
    <2>4. Reached(leaf, Append(p, L)) = nodeHash(a, b)
      BY <1>1, <1>4, <2>1, ReachedByStep
    <2>5. Append(p, L) \in Seq(Steps(P))
      BY <1>4
    <2> QED
      BY <2>3, <2>4, <2>5 DEF Opening, positions, leaf
  <1> QED
    BY <1>6, <1>7

\* The root of a range opens to the range's own payloads only.
LEMMA OpeningOfRoot ==
    ASSUME NEW P, NEW t \in Seq(P), NEW i \in Nat, NEW l \in P
    PROVE  \A r \in ranges(Len(t)) :
              Holds(r, i) /\ Opening(P, merkleRootForRange(t)[r], Len(t), r, i, l) =>
                 t[i + 1] = l
  <1> DEFINE n == Len(t)
             root == merkleRootForRange(t)
             Q == {r \in ranges(n) : Holds(r, i) /\ Opening(P, root[r], n, r, i, l) => t[i + 1] = l}
  <1>1. n \in Nat
    OBVIOUS
  <1>2. /\ root \in [ranges(n) -> Hashes(P)]
        /\ \A r \in ranges(n) :
              /\ sizeOf(r) = 1 => root[r] = leafHash(t[r[1] + 1])
              /\ sizeOf(r) # 1 => root[r] = nodeHash(root[leftOf(r)], root[rightOf(r)])
    BY RootForRange
  <1> HIDE DEF n, root
  <1>3. ASSUME NEW r \in ranges(n), sizeOf(r) = 1, Holds(r, i), Opening(P, root[r], n, r, i, l)
        PROVE  t[i + 1] = l
    <2>1. r[1] \in Nat /\ r[2] \in Nat
      BY <1>1, Halving
    <2>2. r[1] = i
      BY <1>3, <2>1 DEF sizeOf, Holds
    <2>3. leafHash(t[i + 1]) = leafHash(l)
      BY <1>1, <1>2, <1>3, <2>2, OpeningLeaf
    <2> QED
      BY <2>3, HashTerms
  <1>4. ASSUME NEW r \in Forks(n), Holds(r, i), Opening(P, root[r], n, r, i, l),
               leftOf(r) \in Q, rightOf(r) \in Q
        PROVE  t[i + 1] = l
    <2>1. PICK a \in Hashes(P), b \in Hashes(P) :
             /\ root[r] = nodeHash(a, b)
             /\ i < splitOf(r) => Opening(P, a, n, leftOf(r), i, l)
             /\ ~ (i < splitOf(r)) => Opening(P, b, n, rightOf(r), i, l)
      BY <1>1, <1>4, OpeningFork
    <2>2. root[r] = nodeHash(root[leftOf(r)], root[rightOf(r)])
      BY <1>2 DEF Forks
    <2>3. a = root[leftOf(r)] /\ b = root[rightOf(r)]
      <3>1. nodeHash(a, b) = nodeHash(root[leftOf(r)], root[rightOf(r)])
        BY <2>1, <2>2
      <3> QED
        BY <3>1, NodeParts
    <2>4. /\ i < splitOf(r) => Holds(leftOf(r), i)
          /\ ~ (i < splitOf(r)) => Holds(rightOf(r), i)
      BY <1>1, <1>4, HoldsHalf
    <2> QED
      BY <1>4, <2>1, <2>3, <2>4
  <1>5. \A r \in ranges(n) : sizeOf(r) = 1 => r \in Q
    BY <1>3
  <1>6. \A r \in ranges(n) : sizeOf(r) # 1 /\ leftOf(r) \in Q /\ rightOf(r) \in Q => r \in Q
    BY <1>4 DEF Forks
  <1> HIDE DEF Q
  <1>7. \A r \in ranges(n) : r \in Q
    BY <1>1, <1>5, <1>6, RangeInduction
  <1> QED
    BY <1>7 DEF Q, n, root

\* Read as the hash of a range of any tree, the root of a range opens to some
\* payload of the log only.
LEMMA OpeningAtAnySize ==
    ASSUME NEW P, NEW t \in Seq(P), NEW n \in Nat, NEW i \in Nat, NEW l \in P
    PROVE  \A r \in ranges(n) : \A s \in ranges(Len(t)) :
              Opening(P, merkleRootForRange(t)[s], n, r, i, l) =>
                 \E j \in 1 .. Len(t) : t[j] = l
  <1> DEFINE m == Len(t)
             root == merkleRootForRange(t)
             Found == \E j \in 1 .. m : t[j] = l
             Q == {r \in ranges(n) :
                      \A s \in ranges(m) : Opening(P, root[s], n, r, i, l) => Found}
  <1>1. m \in Nat
    OBVIOUS
  <1>2. /\ root \in [ranges(m) -> Hashes(P)]
        /\ \A s \in ranges(m) :
              /\ sizeOf(s) = 1 => root[s] = leafHash(t[s[1] + 1])
              /\ sizeOf(s) # 1 => root[s] = nodeHash(root[leftOf(s)], root[rightOf(s)])
    BY RootForRange
  <1> HIDE DEF root
  <1>3. ASSUME NEW r \in ranges(n), NEW s \in ranges(m), sizeOf(r) = 1,
               Opening(P, root[s], n, r, i, l)
        PROVE  Found
    <2>1. root[s] = leafHash(l)
      BY <1>3, OpeningLeaf
    <2>2. sizeOf(s) = 1
      BY <1>2, <2>1, HashTerms
    <2>3. t[s[1] + 1] = l
      BY <1>2, <2>1, <2>2, HashTerms
    <2>4. s[1] + 1 \in 1 .. m
      BY <1>1 DEF ranges
    <2> QED
      BY <2>3, <2>4
  <1>4. ASSUME NEW r \in Forks(n), NEW s \in ranges(m), leftOf(r) \in Q, rightOf(r) \in Q,
               Opening(P, root[s], n, r, i, l)
        PROVE  Found
    <2>1. PICK a \in Hashes(P), b \in Hashes(P) :
             /\ root[s] = nodeHash(a, b)
             /\ i < splitOf(r) => Opening(P, a, n, leftOf(r), i, l)
             /\ ~ (i < splitOf(r)) => Opening(P, b, n, rightOf(r), i, l)
      BY <1>4, OpeningFork
    <2>2. sizeOf(s) # 1
      BY <1>2, <2>1, HashTerms
    <2>3. a = root[leftOf(s)] /\ b = root[rightOf(s)]
      <3>1. nodeHash(a, b) = nodeHash(root[leftOf(s)], root[rightOf(s)])
        BY <1>2, <2>1, <2>2
      <3> QED
        BY <3>1, NodeParts
    <2>4. leftOf(s) \in ranges(m) /\ rightOf(s) \in ranges(m)
      BY <1>1, <2>2, Halving
    <2> QED
      BY <1>4, <2>1, <2>3, <2>4
  <1>5. \A r \in ranges(n) : sizeOf(r) = 1 => r \in Q
    BY <1>3
  <1>6. \A r \in ranges(n) : sizeOf(r) # 1 /\ leftOf(r) \in Q /\ rightOf(r) \in Q => r \in Q
    BY <1>4 DEF Forks
  <1> HIDE DEF Q
  <1>7. \A r \in ranges(n) : r \in Q
    BY <1>5, <1>6, RangeInduction
  <1> QED
    BY <1>7 DEF Q, root

-----------------------------------------------------------------------------
(* Ranges of a smaller tree.                                               *)

\* The ranges of a tree are ranges of every larger one.
LEMMA RangesGrow ==
    ASSUME NEW m \in Nat, NEW n \in Nat, m <= n
    PROVE  ranges(m) \subseteq ranges(n)
  <1>1. 0 .. m \subseteq 0 .. n
    OBVIOUS
  <1> QED
    BY <1>1 DEF ranges

\* The sides of a leaf's siblings within a range depend on the range only.
LEMMA PositionsWithin ==
    ASSUME NEW m \in Nat, NEW n \in Nat, m <= n, NEW i \in Nat
    PROVE  \A r \in ranges(m) :
              inclusionPathPositionsForRange(i, m)[r] = inclusionPathPositionsForRange(i, n)[r]
  <1> DEFINE f == inclusionPathPositionsForRange(i, m)
             g == inclusionPathPositionsForRange(i, n)
             Q == {r \in ranges(m) : f[r] = g[r]}
  <1>1. Upwards(f, m, i, [x \in Forks(m) |-> "left"], [x \in Forks(m) |-> "right"])
    BY PositionsForRange
  <1>2. Upwards(g, n, i, [x \in Forks(n) |-> "left"], [x \in Forks(n) |-> "right"])
    BY PositionsForRange
  <1>3. ranges(m) \subseteq ranges(n) /\ Forks(m) \subseteq Forks(n)
    BY RangesGrow DEF Forks
  <1> HIDE DEF f, g
  <1>4. \A r \in ranges(m) : sizeOf(r) = 1 => r \in Q
    BY <1>1, <1>2, <1>3 DEF Upwards
  <1>5. ASSUME NEW r \in ranges(m), sizeOf(r) # 1, leftOf(r) \in Q, rightOf(r) \in Q
        PROVE  r \in Q
    <2>1. r \in Forks(m) /\ r \in Forks(n)
      BY <1>3, <1>5 DEF Forks
    <2>2. f[leftOf(r)] = g[leftOf(r)] /\ f[rightOf(r)] = g[rightOf(r)]
      BY <1>5
    <2>3. CASE i < splitOf(r)
      <3>1. f[r] = Append(f[leftOf(r)], "right") /\ g[r] = Append(g[leftOf(r)], "right")
        BY <1>1, <1>2, <2>1, <2>3 DEF Upwards
      <3> QED
        BY <2>2, <3>1
    <2>4. CASE ~ (i < splitOf(r))
      <3>1. f[r] = Append(f[rightOf(r)], "left") /\ g[r] = Append(g[rightOf(r)], "left")
        BY <1>1, <1>2, <2>1, <2>4 DEF Upwards
      <3> QED
        BY <2>2, <3>1
    <2> QED
      BY <2>3, <2>4
  <1> HIDE DEF Q
  <1>6. \A r \in ranges(m) : r \in Q
    BY <1>4, <1>5, RangeInduction
  <1> QED
    BY <1>6 DEF Q, f, g

\* A range has the same root in a tree and in a prefix of it.
LEMMA RootWithin ==
    ASSUME NEW P, NEW t \in Seq(P), NEW u \in Seq(P), Len(u) <= Len(t),
           \A k \in 1 .. Len(u) : u[k] = t[k]
    PROVE  \A r \in ranges(Len(u)) : merkleRootForRange(u)[r] = merkleRootForRange(t)[r]
  <1> DEFINE m == Len(u)
             n == Len(t)
             f == merkleRootForRange(u)
             g == merkleRootForRange(t)
             Q == {r \in ranges(m) : f[r] = g[r]}
  <1>1. m \in Nat /\ n \in Nat /\ m <= n
    OBVIOUS
  <1>2. \A r \in ranges(m) :
              /\ sizeOf(r) = 1 => f[r] = leafHash(u[r[1] + 1])
              /\ sizeOf(r) # 1 => f[r] = nodeHash(f[leftOf(r)], f[rightOf(r)])
    BY RootForRange
  <1>3. \A r \in ranges(n) :
              /\ sizeOf(r) = 1 => g[r] = leafHash(t[r[1] + 1])
              /\ sizeOf(r) # 1 => g[r] = nodeHash(g[leftOf(r)], g[rightOf(r)])
    BY RootForRange
  <1>4. \A r \in ranges(m) : u[r[1] + 1] = t[r[1] + 1]
    <2> SUFFICES ASSUME NEW r \in ranges(m) PROVE u[r[1] + 1] = t[r[1] + 1]
      OBVIOUS
    <2>1. r[1] \in 0 .. m /\ r[2] \in 0 .. m /\ r[1] < r[2]
      BY <1>1, Halving
    <2>2. r[1] + 1 \in 1 .. m
      BY <1>1, <2>1
    <2> QED
      BY <2>2
  <1> HIDE DEF f, g, m, n
  <1>5. ranges(m) \subseteq ranges(n)
    BY <1>1, RangesGrow
  <1>6. \A r \in ranges(m) : sizeOf(r) = 1 => r \in Q
    BY <1>2, <1>3, <1>4, <1>5
  <1>7. \A r \in ranges(m) : sizeOf(r) # 1 /\ leftOf(r) \in Q /\ rightOf(r) \in Q => r \in Q
    BY <1>2, <1>3, <1>5
  <1> HIDE DEF Q
  <1>8. \A r \in ranges(m) : r \in Q
    BY <1>1, <1>6, <1>7, RangeInduction
  <1> QED
    BY <1>8 DEF Q, f, g, m

\* The first leaves of a range that end in its right half: a range with the
\* same left half.
LEMMA FirstOfRange ==
    ASSUME NEW n \in Nat, NEW r \in Forks(n), NEW old \in Nat,
           sizeOf(leftOf(r)) < old, old <= sizeOf(r)
    PROVE  /\ << r[1], r[1] + old >> \in Forks(n)
           /\ splitOf(<< r[1], r[1] + old >>) = splitOf(r)
           /\ leftOf(<< r[1], r[1] + old >>) = leftOf(r)
           /\ rightOf(<< r[1], r[1] + old >>) =
                 << splitOf(r), splitOf(r) + (old - sizeOf(leftOf(r))) >>
           /\ << splitOf(r), splitOf(r) + (old - sizeOf(leftOf(r))) >> \in ranges(n)
  <1> DEFINE q == << r[1], r[1] + old >>
             k == largestPowerOfTwoLessThan(sizeOf(r))
  <1>1. /\ r \in ranges(n) /\ r[1] \in 0 .. n /\ r[2] \in 0 .. n /\ r[1] < r[2]
        /\ sizeOf(r) \in Nat /\ sizeOf(r) > 1
        /\ sizeOf(leftOf(r)) = k
        /\ sizeOf(leftOf(r)) \in Nat
    BY Halving DEF Forks
  <1>2. k \in Nat /\ 1 <= k /\ k < sizeOf(r)
    BY <1>1, Split
  <1>3. largestPowerOfTwoLessThan(old) = k
    BY <1>1, SameSplit
  <1> HIDE DEF k
  <1>4. q[1] = r[1] /\ q[2] = r[1] + old
    OBVIOUS
  <1>5. r[1] + old \in 0 .. n /\ r[1] < r[1] + old /\ (r[1] + old) - r[1] = old /\ old # 1
    BY <1>1, <1>2 DEF sizeOf
  <1>6. q \in ranges(n) /\ sizeOf(q) = old
    BY <1>1, <1>5 DEF ranges, sizeOf
  <1>7. q \in Forks(n)
    BY <1>5, <1>6 DEF Forks
  <1>8. splitOf(r) = r[1] + k
    BY DEF splitOf, k
  <1> HIDE DEF q
  <1>9. splitOf(q) = r[1] + k
    BY <1>3, <1>4, <1>6 DEF splitOf
  <1>10. splitOf(r) + (old - sizeOf(leftOf(r))) = r[1] + old
    BY <1>1, <1>2, <1>8
  <1>11. leftOf(q) = leftOf(r) /\ rightOf(q) = << splitOf(r), r[1] + old >>
    BY <1>4, <1>8, <1>9 DEF leftOf, rightOf
  <1>12. rightOf(q) \in ranges(n)
    BY <1>7, Halving DEF Forks
  <1> QED
    BY <1>7, <1>8, <1>9, <1>10, <1>11, <1>12 DEF q

-----------------------------------------------------------------------------
(* The verifier of consistency proofs.                                     *)

\* The half a state descends to.
LEMMA HalfState ==
    ASSUME NEW n \in Nat, NEW s \in States(n)
    PROVE  /\ s.old \in 1 .. n /\ s.new \in 1 .. n /\ s.old <= s.new
           /\ s.includeOldRoot \in BOOLEAN
           /\ s.old # s.new =>
                 /\ splitSize(s) \in Nat /\ 1 <= splitSize(s) /\ splitSize(s) < s.new
                 /\ halfOf(s) \in States(n)
                 /\ halfOf(s).new < s.new
                 /\ inLeft(s) =>
                       /\ halfOf(s).old = s.old /\ halfOf(s).new = splitSize(s)
                       /\ halfOf(s).includeOldRoot = s.includeOldRoot
                 /\ ~ inLeft(s) =>
                       /\ halfOf(s).old = s.old - splitSize(s)
                       /\ halfOf(s).new = s.new - splitSize(s)
                       /\ halfOf(s).includeOldRoot = FALSE
  <1>1. /\ s \in [old : 1 .. n, new : 1 .. n, includeOldRoot : BOOLEAN]
        /\ s.old \in 1 .. n /\ s.new \in 1 .. n /\ s.old <= s.new
        /\ s.includeOldRoot \in BOOLEAN
    BY DEF States
  <1>2. ASSUME s.old # s.new
        PROVE  splitSize(s) \in Nat /\ 1 <= splitSize(s) /\ splitSize(s) < s.new
    <2>1. s.new \in Nat /\ s.new > 1
      BY <1>1, <1>2
    <2> QED
      BY <2>1, Split DEF splitSize
  <1>3. ASSUME s.old # s.new, inLeft(s)
        PROVE  /\ halfOf(s) \in States(n) /\ halfOf(s).new < s.new
               /\ halfOf(s).old = s.old /\ halfOf(s).new = splitSize(s)
               /\ halfOf(s).includeOldRoot = s.includeOldRoot
    <2> DEFINE k == splitSize(s)
    <2>1. k \in 1 .. n /\ s.old <= k /\ k < s.new
      BY <1>1, <1>2, <1>3 DEF inLeft
    <2> HIDE DEF k
    <2>2. halfOf(s) = [s EXCEPT !.new = k]
      BY <1>3 DEF halfOf, k
    <2> QED
      BY <1>1, <2>1, <2>2 DEF States, k
  <1>4. ASSUME s.old # s.new, ~ inLeft(s)
        PROVE  /\ halfOf(s) \in States(n) /\ halfOf(s).new < s.new
               /\ halfOf(s).old = s.old - splitSize(s)
               /\ halfOf(s).new = s.new - splitSize(s)
               /\ halfOf(s).includeOldRoot = FALSE
    <2> DEFINE k == splitSize(s)
    <2>1. /\ s.old - k \in 1 .. n /\ s.new - k \in 1 .. n /\ s.old - k <= s.new - k
          /\ s.new - k < s.new
      BY <1>1, <1>2, <1>4 DEF inLeft
    <2> HIDE DEF k
    <2>2. halfOf(s) = [old |-> s.old - k, new |-> s.new - k, includeOldRoot |-> FALSE]
      BY <1>4 DEF halfOf, k
    <2> QED
      BY <2>1, <2>2 DEF States, k
  <1> QED
    BY <1>1, <1>2, <1>3, <1>4

Results(P) == [cursor : Int, old : Hashes(P), new : Hashes(P)]

\* The result for a state, given the result for its half.
Rebuilt(s, half, path, oldRoot) ==
    LET other == path[half.cursor + 1]
    IN  IF s.old = s.new
        THEN IF s.includeOldRoot
             THEN [cursor |-> 0, old |-> oldRoot, new |-> oldRoot]
             ELSE IF path = << >> THEN NoResult
             ELSE [cursor |-> 1, old |-> path[1], new |-> path[1]]
        ELSE IF half.cursor \notin 0 .. Len(path) - 1 THEN NoResult
        ELSE [cursor |-> half.cursor + 1,
              old |-> IF inLeft(s) THEN half.old ELSE nodeHash(other, half.old),
              new |-> IF inLeft(s) THEN nodeHash(half.new, other)
                      ELSE nodeHash(other, half.new)]

\* What is rebuilt is a result.
LEMMA RebuiltType ==
    ASSUME NEW P, NEW s, NEW half \in Results(P), NEW path \in Seq(Hashes(P)),
           NEW oldRoot \in Hashes(P)
    PROVE  Rebuilt(s, half, path, oldRoot) \in Results(P)
  <1> DEFINE H == Hashes(P)
  <1>1. EMPTY_TREE_ROOT \in H /\ \A a, b \in H : nodeHash(a, b) \in H
    BY HashesClosed, Zenon
  <1>2. half.cursor \in Int /\ half.old \in H /\ half.new \in H
    BY DEF Results
  <1>3. NoResult \in Results(P)
    BY <1>1 DEF NoResult, Results
  <1>4. path # << >> => path[1] \in H
    OBVIOUS
  <1>5. half.cursor \in 0 .. Len(path) - 1 => path[half.cursor + 1] \in H
    BY <1>2
  <1> DEFINE other == path[half.cursor + 1]
             base == IF s.includeOldRoot
                     THEN [cursor |-> 0, old |-> oldRoot, new |-> oldRoot]
                     ELSE IF path = << >> THEN NoResult
                     ELSE [cursor |-> 1, old |-> path[1], new |-> path[1]]
             old == IF inLeft(s) THEN half.old ELSE nodeHash(other, half.old)
             new == IF inLeft(s) THEN nodeHash(half.new, other) ELSE nodeHash(other, half.new)
  <1>6. base \in Results(P)
    BY <1>3, <1>4 DEF Results
  <1>7. half.cursor \in 0 .. Len(path) - 1 => old \in H /\ new \in H
    BY <1>1, <1>2, <1>5
  <1> HIDE DEF base, old, new, H
  <1>8. half.cursor \in 0 .. Len(path) - 1 =>
           [cursor |-> half.cursor + 1, old |-> old, new |-> new] \in Results(P)
    BY <1>2, <1>7 DEF Results, H
  <1>9. Rebuilt(s, half, path, oldRoot) =
           IF s.old = s.new THEN base
           ELSE IF half.cursor \notin 0 .. Len(path) - 1 THEN NoResult
           ELSE [cursor |-> half.cursor + 1, old |-> old, new |-> new]
    BY DEF Rebuilt, base, old, new
  <1> QED
    BY <1>3, <1>6, <1>8, <1>9

\* The recursion of verifyConsistencySubproof.
LEMMA VerifySubproof ==
    ASSUME NEW P, NEW n \in Nat, NEW path \in Seq(Hashes(P)), NEW oldRoot \in Hashes(P)
    PROVE  /\ verifyConsistencySubproof(n, path, oldRoot) \in [States(n) -> Results(P)]
           /\ \A s \in States(n) :
                 verifyConsistencySubproof(n, path, oldRoot)[s] =
                    Rebuilt(s, verifyConsistencySubproof(n, path, oldRoot)[halfOf(s)],
                            path, oldRoot)
  <1> DEFINE D == States(n)
             V == Results(P)
             next(s, g) == Rebuilt(s, g[halfOf(s)], path, oldRoot)
             size == [s \in D |-> s.new]
             step == [s \in D |-> [g \in [D -> V] |->
                         IF s.old = s.new THEN Rebuilt(s, NoResult, path, oldRoot)
                         ELSE next(s, g)]]
             Eq(f) == f = [s \in D |-> next(s, f)]
             f == verifyConsistencySubproof(n, path, oldRoot)
  <1>1. \A s \in D : s.new \in Nat /\ (s.old # s.new => halfOf(s) \in D /\ halfOf(s).new < s.new)
    <2> SUFFICES ASSUME NEW s \in D
                 PROVE  s.new \in Nat /\ (s.old # s.new => halfOf(s) \in D /\ halfOf(s).new < s.new)
      OBVIOUS
    <2>1. s.new \in 1 .. n /\ (s.old # s.new => halfOf(s) \in D /\ halfOf(s).new < s.new)
      BY HalfState
    <2> HIDE DEF D, Eq, f, step, size, next
    <2> QED
      BY <2>1
  <1>2. NoResult \in V
    BY HashesClosed DEF NoResult, Results
  <1>3. \A s \in D : s.old = s.new =>
           \A half : Rebuilt(s, half, path, oldRoot) = Rebuilt(s, NoResult, path, oldRoot)
    BY DEF Rebuilt
  <1>4. \A s : \A half \in V : Rebuilt(s, half, path, oldRoot) \in V
    BY RebuiltType
  <1>5. f = CHOOSE g : Eq(g)
    BY DEF verifyConsistencySubproof, Rebuilt
  <1> HIDE DEF D, V, f
  <1>6. size \in [D -> Nat] /\ \A s \in D : size[s] = s.new
    BY <1>1
  <1>7. ASSUME NEW s \in D, NEW g \in [D -> V]
        PROVE  (IF s.old = s.new THEN Rebuilt(s, NoResult, path, oldRoot) ELSE next(s, g)) \in V
    BY <1>1, <1>2, <1>4
  <1>8. ASSUME NEW s \in D, s.old # s.new, NEW g \in [D -> V], NEW h \in [D -> V],
               \A y \in D : y.new < s.new => g[y] = h[y]
        PROVE  next(s, g) = next(s, h)
    <2>1. g[halfOf(s)] = h[halfOf(s)]
      BY <1>1, <1>8
    <2> QED
      BY <2>1
  <1> HIDE DEF next, size
  <1>9. /\ step \in [D -> [[D -> V] -> V]]
        /\ \A s \in D : \A g \in [D -> V] : step[s][g] =
              IF s.old = s.new THEN Rebuilt(s, NoResult, path, oldRoot) ELSE next(s, g)
    BY <1>7
  <1> HIDE DEF step
  <1>10. ASSUME NEW s \in D, NEW g \in [D -> V], NEW h \in [D -> V],
                \A y \in D : size[y] < size[s] => g[y] = h[y]
         PROVE  step[s][g] = step[s][h]
    <2>1. s.old # s.new => next(s, g) = next(s, h)
      BY <1>6, <1>8, <1>10
    <2> QED
      BY <1>9, <2>1
  <1>11. Recursion(D, V, size, step)
    BY <1>6, <1>9, <1>10 DEF Recursion
  <1>12. PICK g : Solves(g, D, V, step)
    <2>1. V # {}
      BY <1>2
    <2> QED
      BY <1>11, <2>1, RecursionDefines, Zenon
  <1>13. g \in [D -> V] /\ \A s \in D : g[s] = next(s, g)
    <2>1. g \in [D -> V] /\ \A s \in D : g[s] = step[s][g]
      BY <1>12 DEF Solves
    <2>2. ASSUME NEW s \in D PROVE g[s] = next(s, g)
      <3>1. g[s] = IF s.old = s.new THEN Rebuilt(s, NoResult, path, oldRoot) ELSE next(s, g)
        BY <1>9, <2>1
      <3>2. s.old = s.new => next(s, g) = Rebuilt(s, NoResult, path, oldRoot)
        BY <1>3 DEF next
      <3> QED
        BY <3>1, <3>2
    <2> QED
      BY <2>1, <2>2
  <1>14. Eq(g)
    BY <1>13
  <1>15. Eq(f)
    <2> HIDE DEF Eq
    <2> QED
      BY <1>5, <1>14, Zenon
  <1>16. f = [s \in D |-> f[s]] /\ \A s \in D : f[s] = next(s, f)
    BY <1>15
  <1> HIDE DEF Eq
  <1>17. \A s \in D : f[s] \in V
    <2> DEFINE Q == {s \in D : f[s] \in V}
    <2>1. ASSUME NEW s \in D, \A y \in D : size[y] < size[s] => y \in Q
          PROVE  s \in Q
      <3>1. CASE s.old = s.new
        BY <1>2, <1>3, <1>4, <1>16, <3>1 DEF next
      <3>2. CASE s.old # s.new
        <4>1. f[halfOf(s)] \in V
          BY <1>1, <1>6, <2>1, <3>2
        <4> QED
          BY <1>4, <1>16, <4>1 DEF next
      <3> QED
        BY <3>1, <3>2
    <2> HIDE DEF Q
    <2>2. \A s \in D : s \in Q
      BY <1>6, <2>1, SizeInduction
    <2> QED
      BY <2>2 DEF Q
  <1>18. f \in [D -> V]
    BY <1>16, <1>17
  <1> QED
    BY <1>16, <1>18 DEF f, D, V, next

\* What the verifier's result for a state is made of.
MadeOf(f, s, half, P, path, oldRoot) ==
    /\ f[s] \in Results(P)
    /\ s.old = s.new /\ f[s].cursor >= 0 => f[s].old = f[s].new
    /\ s.old = s.new /\ s.includeOldRoot =>
          f[s] = [cursor |-> 0, old |-> oldRoot, new |-> oldRoot]
    /\ s.old = s.new /\ ~ s.includeOldRoot /\ path # << >> =>
          f[s] = [cursor |-> 1, old |-> path[1], new |-> path[1]]
    /\ s.old # s.new /\ f[s].cursor >= 0 => half.cursor \in 0 .. Len(path) - 1
    /\ s.old # s.new /\ half.cursor \in 0 .. Len(path) - 1 =>
          /\ path[half.cursor + 1] \in Hashes(P)
          /\ f[s].cursor = half.cursor + 1
          /\ inLeft(s) =>
                /\ f[s].old = half.old
                /\ f[s].new = nodeHash(half.new, path[half.cursor + 1])
          /\ ~ inLeft(s) =>
                /\ f[s].old = nodeHash(path[half.cursor + 1], half.old)
                /\ f[s].new = nodeHash(path[half.cursor + 1], half.new)

\* The verifier's result for a state, from the result for its half.
LEMMA RebuiltCases ==
    ASSUME NEW P, NEW n \in Nat, NEW path \in Seq(Hashes(P)), NEW oldRoot \in Hashes(P),
           NEW f, f = verifyConsistencySubproof(n, path, oldRoot), NEW s \in States(n)
    PROVE  MadeOf(f, s, f[halfOf(s)], P, path, oldRoot)
  <1> DEFINE half == f[halfOf(s)]
  <1>1. f[s] \in Results(P) /\ f[s] = Rebuilt(s, half, path, oldRoot)
    BY VerifySubproof
  <1>2. NoResult.cursor = -1 /\ NoResult.old = NoResult.new
    BY DEF NoResult
  <1> HIDE DEF half
  <1>3. s.old = s.new => f[s] =
           IF s.includeOldRoot THEN [cursor |-> 0, old |-> oldRoot, new |-> oldRoot]
           ELSE IF path = << >> THEN NoResult
           ELSE [cursor |-> 1, old |-> path[1], new |-> path[1]]
    BY <1>1 DEF Rebuilt
  <1>4. s.old # s.new /\ half.cursor \notin 0 .. Len(path) - 1 => f[s] = NoResult
    BY <1>1 DEF Rebuilt
  <1> DEFINE other == path[half.cursor + 1]
  <1>5. s.old # s.new /\ half.cursor \in 0 .. Len(path) - 1 =>
           f[s] = [cursor |-> half.cursor + 1,
                   old |-> IF inLeft(s) THEN half.old ELSE nodeHash(other, half.old),
                   new |-> IF inLeft(s) THEN nodeHash(half.new, other)
                           ELSE nodeHash(other, half.new)]
    BY <1>1 DEF Rebuilt
  <1>6. half.cursor \in 0 .. Len(path) - 1 => other \in Hashes(P)
    OBVIOUS
  <1> HIDE DEF other
  <1>7. s.old # s.new /\ half.cursor \in 0 .. Len(path) - 1 =>
           /\ f[s].cursor = half.cursor + 1
           /\ inLeft(s) => f[s].old = half.old /\ f[s].new = nodeHash(half.new, other)
           /\ ~ inLeft(s) =>
                 f[s].old = nodeHash(other, half.old) /\ f[s].new = nodeHash(other, half.new)
    BY <1>5
  <1>8. s.old = s.new /\ f[s].cursor >= 0 => f[s].old = f[s].new
    BY <1>2, <1>3
  <1>9. s.old # s.new /\ f[s].cursor >= 0 => half.cursor \in 0 .. Len(path) - 1
    BY <1>2, <1>4
  <1> QED
    BY <1>1, <1>3, <1>6, <1>7, <1>8, <1>9 DEF half, other, MadeOf

\* What a state and a range of its new size have to do with each other.
LEMMA StateOfRange ==
    ASSUME NEW n \in Nat, NEW s \in States(n), NEW r \in ranges(n),
           sizeOf(r) = s.new, s.old # s.new
    PROVE  /\ r \in Forks(n) /\ leftOf(r) \in ranges(n) /\ rightOf(r) \in ranges(n)
           /\ leftOf(r)[1] = r[1] /\ rightOf(r)[1] = splitOf(r)
           /\ splitSize(s) = sizeOf(leftOf(r)) /\ splitOf(r) = r[1] + splitSize(s)
           /\ s.old \in Nat
           /\ inLeft(s) => halfOf(s).new = sizeOf(leftOf(r)) /\ halfOf(s).old = s.old
           /\ ~ inLeft(s) =>
                 /\ halfOf(s).new = sizeOf(rightOf(r))
                 /\ halfOf(s).old = s.old - sizeOf(leftOf(r))
                 /\ sizeOf(leftOf(r)) < s.old /\ s.old <= sizeOf(r)
  <1>1. /\ s.old \in 1 .. n /\ s.new \in 1 .. n /\ s.old <= s.new
        /\ splitSize(s) \in Nat
        /\ inLeft(s) => halfOf(s).old = s.old /\ halfOf(s).new = splitSize(s)
        /\ ~ inLeft(s) => halfOf(s).old = s.old - splitSize(s) /\ halfOf(s).new = s.new - splitSize(s)
    BY HalfState
  <1>2. sizeOf(r) # 1
    BY <1>1
  <1>3. /\ leftOf(r) \in ranges(n) /\ rightOf(r) \in ranges(n)
        /\ leftOf(r)[1] = r[1] /\ rightOf(r)[1] = splitOf(r)
        /\ sizeOf(leftOf(r)) = largestPowerOfTwoLessThan(sizeOf(r))
        /\ sizeOf(rightOf(r)) = sizeOf(r) - sizeOf(leftOf(r))
    BY <1>2, Halving
  <1>4. splitSize(s) = sizeOf(leftOf(r)) /\ splitOf(r) = r[1] + splitSize(s)
    BY <1>3 DEF splitSize, splitOf
  <1>5. ~ inLeft(s) => splitSize(s) < s.old
    BY <1>1 DEF inLeft
  <1>6. r \in Forks(n)
    BY <1>2 DEF Forks
  <1>7. s.old \in Nat
    BY <1>1
  <1> QED
    BY <1>1, <1>3, <1>4, <1>5, <1>6, <1>7

\* Where the reconstructed new root is the root of a range, the reconstructed
\* old root is that of the range's first leaves.
LEMMA RebuiltFromRoot ==
    ASSUME NEW P, NEW t \in Seq(P), NEW path \in Seq(Hashes(P)), NEW oldRoot \in Hashes(P),
           NEW f, f = verifyConsistencySubproof(Len(t), path, oldRoot)
    PROVE  \A s \in States(Len(t)), r \in ranges(Len(t)) :
              /\ sizeOf(r) = s.new
              /\ f[s].cursor >= 0
              /\ f[s].new = merkleRootForRange(t)[r]
              => f[s].old = merkleRootForRange(t)[<< r[1], r[1] + s.old >>]
  <1> DEFINE n == Len(t)
             root == merkleRootForRange(t)
             size == [s \in States(n) |-> s.new]
             Good(s, r) == sizeOf(r) = s.new /\ f[s].cursor >= 0 /\ f[s].new = root[r] =>
                              f[s].old = root[<< r[1], r[1] + s.old >>]
             Q == {s \in States(n) : \A r \in ranges(n) : Good(s, r)}
  <1>1. n \in Nat
    OBVIOUS
  <1>2. \A r \in ranges(n) : sizeOf(r) # 1 => root[r] = nodeHash(root[leftOf(r)], root[rightOf(r)])
    BY RootForRange
  <1>3. f = verifyConsistencySubproof(n, path, oldRoot)
    OBVIOUS
  <1> HIDE DEF n, root
  <1>4. \A s \in States(n) : s.new \in Nat
    <2>1. \A s \in States(n) : s.new \in 1 .. n
      BY <1>1, HalfState
    <2> QED
      BY <1>1, <2>1
  <1>5. size \in [States(n) -> Nat] /\ \A s \in States(n) : size[s] = s.new
    BY <1>4
  <1> HIDE DEF size
  <1>6. ASSUME NEW s \in States(n), NEW r \in ranges(n), s.old = s.new PROVE Good(s, r)
    <2>1. r[1] \in 0 .. n /\ r[2] \in 0 .. n /\ r = << r[1], r[2] >>
      BY <1>1, Halving
    <2>2. sizeOf(r) = s.new => r[1] + s.old = r[2]
      BY <1>1, <1>6, <2>1 DEF sizeOf
    <2>3. f[s].cursor >= 0 => f[s].old = f[s].new
      <3>1. MadeOf(f, s, f[halfOf(s)], P, path, oldRoot)
        BY <1>1, <1>3, RebuiltCases
      <3> QED
        BY <1>6, <3>1 DEF MadeOf
    <2> QED
      BY <2>1, <2>2, <2>3
  <1>7. ASSUME NEW s \in States(n), NEW r \in ranges(n), s.old # s.new,
               \A q \in ranges(n) : Good(halfOf(s), q)
        PROVE  Good(s, r)
    <2>1. SUFFICES ASSUME sizeOf(r) = s.new, f[s].cursor >= 0, f[s].new = root[r]
                   PROVE  f[s].old = root[<< r[1], r[1] + s.old >>]
      OBVIOUS
    <2> DEFINE half == f[halfOf(s)]
               other == path[half.cursor + 1]
    <2>2. /\ r \in Forks(n) /\ leftOf(r) \in ranges(n) /\ rightOf(r) \in ranges(n)
          /\ leftOf(r)[1] = r[1] /\ rightOf(r)[1] = splitOf(r)
          /\ s.old \in Nat
          /\ inLeft(s) => halfOf(s).new = sizeOf(leftOf(r)) /\ halfOf(s).old = s.old
          /\ ~ inLeft(s) =>
                /\ halfOf(s).new = sizeOf(rightOf(r))
                /\ halfOf(s).old = s.old - sizeOf(leftOf(r))
                /\ sizeOf(leftOf(r)) < s.old /\ s.old <= sizeOf(r)
      BY <1>1, <1>7, <2>1, StateOfRange
    <2>0. MadeOf(f, s, half, P, path, oldRoot)
      BY <1>1, <1>3, RebuiltCases
    <2> HIDE DEF half, Good
    <2>3. half.cursor \in 0 .. Len(path) - 1
      BY <1>7, <2>0, <2>1 DEF MadeOf
    <2>4. /\ inLeft(s) => f[s].old = half.old /\ f[s].new = nodeHash(half.new, other)
          /\ ~ inLeft(s) => f[s].old = nodeHash(other, half.old) /\ f[s].new = nodeHash(other, half.new)
      BY <1>7, <2>0, <2>3 DEF MadeOf
    <2>5. half.cursor >= 0
      BY <2>3
    <2>6. f[s].new = nodeHash(root[leftOf(r)], root[rightOf(r)])
      BY <1>2, <2>1, <2>2 DEF Forks
    <2> HIDE DEF other, half, Good
    <2>7. CASE inLeft(s)
      <3>1. nodeHash(half.new, other) = nodeHash(root[leftOf(r)], root[rightOf(r)])
        BY <2>4, <2>6, <2>7
      <3>2. half.new = root[leftOf(r)]
        BY <3>1, NodeParts
      <3>3. half.old = root[<< leftOf(r)[1], leftOf(r)[1] + halfOf(s).old >>]
        BY <1>7, <2>2, <2>5, <2>7, <3>2 DEF Good, half
      <3> QED
        BY <2>2, <2>4, <2>7, <3>3
    <2>8. CASE ~ inLeft(s)
      <3> DEFINE q == << r[1], r[1] + s.old >>
                 p == << splitOf(r), splitOf(r) + (s.old - sizeOf(leftOf(r))) >>
      <3>1. nodeHash(other, half.new) = nodeHash(root[leftOf(r)], root[rightOf(r)])
        BY <2>4, <2>6, <2>8
      <3>2. other = root[leftOf(r)] /\ half.new = root[rightOf(r)]
        BY <3>1, NodeParts
      <3>3. half.old = root[<< rightOf(r)[1], rightOf(r)[1] + halfOf(s).old >>]
        BY <1>7, <2>2, <2>5, <2>8, <3>2 DEF Good, half
      <3>4. half.old = root[p]
        BY <2>2, <2>8, <3>3
      <3>5. q \in Forks(n) /\ leftOf(q) = leftOf(r) /\ rightOf(q) = p
        BY <1>1, <2>2, <2>8, FirstOfRange
      <3> HIDE DEF p, q
      <3>6. root[q] = nodeHash(root[leftOf(r)], root[p])
        BY <1>2, <3>5 DEF Forks
      <3>7. f[s].old = root[q]
        BY <2>4, <2>8, <3>2, <3>4, <3>6
      <3> QED
        BY <3>7 DEF q
    <2> QED
      BY <2>7, <2>8
  <1> HIDE DEF Good
  <1>8. ASSUME NEW s \in States(n), \A y \in States(n) : size[y] < size[s] => y \in Q
        PROVE  s \in Q
    <2>1. CASE s.old = s.new
      BY <1>6, <2>1
    <2>2. CASE s.old # s.new
      <3>1. halfOf(s) \in States(n) /\ halfOf(s).new < s.new
        BY <1>1, <2>2, HalfState
      <3>2. halfOf(s) \in Q
        BY <1>5, <1>8, <3>1
      <3> QED
        BY <1>7, <2>2, <3>2
    <2> QED
      BY <2>1, <2>2
  <1> HIDE DEF Q
  <1>9. \A s \in States(n) : s \in Q
    BY <1>5, <1>8, SizeInduction
  <1> QED
    BY <1>9 DEF Q, Good, n, root

\* What the reconstructed new root opens to within the old tree, the
\* reconstructed old root opens to.
LEMMA OpeningsKept ==
    ASSUME NEW P, NEW n \in Nat, NEW path \in Seq(Hashes(P)), NEW oldRoot \in Hashes(P),
           NEW f, f = verifyConsistencySubproof(n, path, oldRoot),
           NEW i \in Nat, NEW l \in P
    PROVE  \A s \in States(n), r \in ranges(n) :
              /\ sizeOf(r) = s.new
              /\ f[s].cursor >= 0
              /\ r[1] <= i /\ i < r[1] + s.old
              /\ Opening(P, f[s].new, n, r, i, l)
              => Opening(P, f[s].old, n, << r[1], r[1] + s.old >>, i, l)
  <1> DEFINE size == [s \in States(n) |-> s.new]
             Good(s, r) == /\ sizeOf(r) = s.new
                           /\ f[s].cursor >= 0
                           /\ r[1] <= i /\ i < r[1] + s.old
                           /\ Opening(P, f[s].new, n, r, i, l)
                           => Opening(P, f[s].old, n, << r[1], r[1] + s.old >>, i, l)
             Q == {s \in States(n) : \A r \in ranges(n) : Good(s, r)}
  <1>4. \A s \in States(n) : s.new \in Nat
    <2>1. \A s \in States(n) : s.new \in 1 .. n
      BY HalfState
    <2> QED
      BY <2>1
  <1>5. size \in [States(n) -> Nat] /\ \A s \in States(n) : size[s] = s.new
    BY <1>4
  <1> HIDE DEF size
  <1>6. ASSUME NEW s \in States(n), NEW r \in ranges(n), s.old = s.new PROVE Good(s, r)
    <2>1. r[1] \in 0 .. n /\ r[2] \in 0 .. n /\ r = << r[1], r[2] >>
      BY Halving
    <2>2. sizeOf(r) = s.new => r[1] + s.old = r[2]
      BY <1>6, <2>1 DEF sizeOf
    <2>3. f[s].cursor >= 0 => f[s].old = f[s].new
      <3>1. MadeOf(f, s, f[halfOf(s)], P, path, oldRoot)
        BY RebuiltCases
      <3> QED
        BY <1>6, <3>1 DEF MadeOf
    <2> QED
      BY <2>1, <2>2, <2>3
  <1>7. ASSUME NEW s \in States(n), NEW r \in ranges(n), s.old # s.new,
               halfOf(s) \in States(n), \A q \in ranges(n) : Good(halfOf(s), q)
        PROVE  Good(s, r)
    <2>1. SUFFICES ASSUME sizeOf(r) = s.new, f[s].cursor >= 0, r[1] <= i, i < r[1] + s.old,
                          Opening(P, f[s].new, n, r, i, l)
                   PROVE  Opening(P, f[s].old, n, << r[1], r[1] + s.old >>, i, l)
      OBVIOUS
    <2> DEFINE half == f[halfOf(s)]
               other == path[half.cursor + 1]
    <2>2. /\ r \in Forks(n) /\ leftOf(r) \in ranges(n) /\ rightOf(r) \in ranges(n)
          /\ leftOf(r)[1] = r[1] /\ rightOf(r)[1] = splitOf(r)
          /\ splitSize(s) = sizeOf(leftOf(r)) /\ splitOf(r) = r[1] + splitSize(s)
          /\ s.old \in Nat
          /\ inLeft(s) => halfOf(s).new = sizeOf(leftOf(r)) /\ halfOf(s).old = s.old
          /\ ~ inLeft(s) =>
                /\ halfOf(s).new = sizeOf(rightOf(r))
                /\ halfOf(s).old = s.old - sizeOf(leftOf(r))
                /\ sizeOf(leftOf(r)) < s.old /\ s.old <= sizeOf(r)
      BY <1>7, <2>1, StateOfRange
    <2>0. MadeOf(f, s, half, P, path, oldRoot)
      BY RebuiltCases
    <2> HIDE DEF half, Good
    <2>3. half.cursor \in 0 .. Len(path) - 1
      BY <1>7, <2>0, <2>1 DEF MadeOf
    <2>4. /\ other \in Hashes(P)
          /\ inLeft(s) => f[s].old = half.old /\ f[s].new = nodeHash(half.new, other)
          /\ ~ inLeft(s) => f[s].old = nodeHash(other, half.old) /\ f[s].new = nodeHash(other, half.new)
      BY <1>7, <2>0, <2>3 DEF MadeOf
    <2>5. half.cursor >= 0
      BY <2>3
    <2>6. half \in Results(P)
      <3>1. MadeOf(f, halfOf(s), f[halfOf(halfOf(s))], P, path, oldRoot)
        BY <1>7, RebuiltCases
      <3> QED
        BY <3>1 DEF MadeOf, half
    <2>7. half.old \in Hashes(P) /\ half.new \in Hashes(P)
      BY <2>6 DEF Results
    <2>8. PICK a \in Hashes(P), b \in Hashes(P) :
             /\ f[s].new = nodeHash(a, b)
             /\ i < splitOf(r) => Opening(P, a, n, leftOf(r), i, l)
             /\ ~ (i < splitOf(r)) => Opening(P, b, n, rightOf(r), i, l)
      BY <2>1, <2>2, OpeningFork
    <2>9. splitSize(s) \in Nat /\ r[1] \in Nat
      <3>1. r[1] \in 0 .. n
        BY Halving
      <3>2. splitSize(s) \in Nat
        BY <1>7, HalfState
      <3> QED
        BY <3>1, <3>2
    <2> HIDE DEF other, half, Good
    <2>10. CASE inLeft(s)
      <3>1. nodeHash(half.new, other) = nodeHash(a, b)
        BY <2>4, <2>8, <2>10
      <3>2. half.new = a
        BY <3>1, NodeParts
      <3>3. i < splitOf(r)
        BY <2>1, <2>2, <2>9, <2>10 DEF inLeft
      <3>4. Opening(P, half.new, n, leftOf(r), i, l)
        BY <2>8, <3>2, <3>3
      <3>5. leftOf(r)[1] <= i /\ i < leftOf(r)[1] + halfOf(s).old
        BY <2>1, <2>2, <2>10
      <3>6. Opening(P, half.old, n, << leftOf(r)[1], leftOf(r)[1] + halfOf(s).old >>, i, l)
        BY <1>7, <2>2, <2>5, <2>10, <3>4, <3>5 DEF Good, half
      <3> QED
        BY <2>2, <2>4, <2>10, <3>6
    <2>11. CASE ~ inLeft(s)
      <3> DEFINE q == << r[1], r[1] + s.old >>
                 p == << splitOf(r), splitOf(r) + (s.old - sizeOf(leftOf(r))) >>
      <3>1. nodeHash(other, half.new) = nodeHash(a, b)
        BY <2>4, <2>8, <2>11
      <3>2. other = a /\ half.new = b
        BY <3>1, NodeParts
      <3>3. /\ q \in Forks(n) /\ splitOf(q) = splitOf(r)
            /\ leftOf(q) = leftOf(r) /\ rightOf(q) = p
        BY <2>2, <2>11, FirstOfRange
      <3>4. ~ (i < splitOf(r)) => Opening(P, half.old, n, p, i, l)
        <4>1. SUFFICES ASSUME ~ (i < splitOf(r)) PROVE Opening(P, half.old, n, p, i, l)
          OBVIOUS
        <4>2. Opening(P, half.new, n, rightOf(r), i, l)
          BY <2>8, <3>2, <4>1
        <4>3. rightOf(r)[1] <= i /\ i < rightOf(r)[1] + halfOf(s).old
          BY <2>1, <2>2, <2>9, <2>11, <4>1
        <4>4. Opening(P, half.old, n, << rightOf(r)[1], rightOf(r)[1] + halfOf(s).old >>, i, l)
          BY <1>7, <2>2, <2>5, <2>11, <4>2, <4>3 DEF Good, half
        <4> QED
          BY <2>2, <2>11, <4>4
      <3> HIDE DEF p, q
      <3>5. i < splitOf(r) => Opening(P, other, n, leftOf(r), i, l)
        BY <2>8, <3>2
      <3>6. Opening(P, nodeHash(other, half.old), n, q, i, l)
        BY <2>4, <2>7, <3>3, <3>4, <3>5, OpeningNode
      <3> QED
        BY <2>4, <2>11, <3>6 DEF q
    <2> QED
      BY <2>10, <2>11
  <1> HIDE DEF Good
  <1>8. ASSUME NEW s \in States(n), \A y \in States(n) : size[y] < size[s] => y \in Q
        PROVE  s \in Q
    <2>1. CASE s.old = s.new
      BY <1>6, <2>1
    <2>2. CASE s.old # s.new
      <3>1. halfOf(s) \in States(n) /\ halfOf(s).new < s.new
        BY <2>2, HalfState
      <3>2. halfOf(s) \in Q
        BY <1>5, <1>8, <3>1
      <3> QED
        BY <1>7, <2>2, <3>1, <3>2
    <2> QED
      BY <2>1, <2>2
  <1> HIDE DEF Q
  <1>9. \A s \in States(n) : s \in Q
    BY <1>5, <1>8, SizeInduction
  <1> QED
    BY <1>9 DEF Q, Good

-----------------------------------------------------------------------------
(* Generated consistency proofs.                                           *)

\* What a call of consistencySubproof descends to.
LEMMA InnerCall ==
    ASSUME NEW n \in Nat, NEW c \in Subproofs(n)
    PROVE  /\ c.range \in ranges(n) /\ c.old \in 1 .. n /\ c.old <= sizeOf(c.range)
           /\ c.includeOldRoot \in BOOLEAN
           /\ sizeOf(c.range) \in Nat
           /\ c.old # sizeOf(c.range) =>
                 /\ c.range \in Forks(n)
                 /\ inner(c) \in Subproofs(n) /\ outer(c) \in ranges(n)
                 /\ sizeOf(inner(c).range) < sizeOf(c.range)
                 /\ c.old <= sizeOf(leftOf(c.range)) =>
                       /\ inner(c).range = leftOf(c.range) /\ inner(c).old = c.old
                       /\ inner(c).includeOldRoot = c.includeOldRoot
                       /\ outer(c) = rightOf(c.range)
                 /\ ~ (c.old <= sizeOf(leftOf(c.range))) =>
                       /\ inner(c).range = rightOf(c.range)
                       /\ inner(c).old = c.old - sizeOf(leftOf(c.range))
                       /\ inner(c).includeOldRoot = FALSE
                       /\ outer(c) = leftOf(c.range)
  <1>1. /\ c \in [range : ranges(n), old : 1 .. n, includeOldRoot : BOOLEAN]
        /\ c.range \in ranges(n) /\ c.old \in 1 .. n /\ c.old <= sizeOf(c.range)
        /\ c.includeOldRoot \in BOOLEAN
    BY DEF Subproofs
  <1>2. sizeOf(c.range) \in Nat
    BY <1>1, Halving
  <1> SUFFICES ASSUME c.old # sizeOf(c.range)
               PROVE  /\ c.range \in Forks(n)
                      /\ inner(c) \in Subproofs(n) /\ outer(c) \in ranges(n)
                      /\ sizeOf(inner(c).range) < sizeOf(c.range)
                      /\ c.old <= sizeOf(leftOf(c.range)) =>
                            /\ inner(c).range = leftOf(c.range) /\ inner(c).old = c.old
                            /\ inner(c).includeOldRoot = c.includeOldRoot
                            /\ outer(c) = rightOf(c.range)
                      /\ ~ (c.old <= sizeOf(leftOf(c.range))) =>
                            /\ inner(c).range = rightOf(c.range)
                            /\ inner(c).old = c.old - sizeOf(leftOf(c.range))
                            /\ inner(c).includeOldRoot = FALSE
                            /\ outer(c) = leftOf(c.range)
    BY <1>1, <1>2
  <1> DEFINE L == leftOf(c.range)
             R == rightOf(c.range)
  <1>3. sizeOf(c.range) # 1
    BY <1>1, <1>2
  <1>4. /\ L \in ranges(n) /\ R \in ranges(n)
        /\ sizeOf(R) = sizeOf(c.range) - sizeOf(L)
        /\ sizeOf(L) \in Nat /\ sizeOf(R) \in Nat
        /\ sizeOf(L) < sizeOf(c.range) /\ sizeOf(R) < sizeOf(c.range)
    BY <1>1, <1>3, Halving
  <1>5. c.range \in Forks(n)
    BY <1>1, <1>3 DEF Forks
  <1> HIDE DEF L, R
  <1>6. CASE c.old <= sizeOf(L)
    <2>1. inner(c) = [c EXCEPT !.range = L] /\ outer(c) = R
      BY <1>6 DEF inner, outer, L, R
    <2>2. /\ inner(c) \in [range : ranges(n), old : 1 .. n, includeOldRoot : BOOLEAN]
          /\ inner(c).range = L /\ inner(c).old = c.old
          /\ inner(c).includeOldRoot = c.includeOldRoot
      BY <1>1, <1>4, <2>1
    <2>3. inner(c) \in Subproofs(n)
      BY <1>6, <2>2 DEF Subproofs
    <2> QED
      BY <1>4, <1>5, <1>6, <2>1, <2>2, <2>3 DEF L, R
  <1>7. CASE ~ (c.old <= sizeOf(L))
    <2> DEFINE o == c.old - sizeOf(L)
    <2>1. inner(c) = [range |-> R, old |-> o, includeOldRoot |-> FALSE] /\ outer(c) = L
      BY <1>7 DEF inner, outer, L, R
    <2>2. o \in 1 .. n /\ o <= sizeOf(R)
      BY <1>1, <1>2, <1>4, <1>7
    <2> HIDE DEF o
    <2>3. /\ inner(c) \in [range : ranges(n), old : 1 .. n, includeOldRoot : BOOLEAN]
          /\ inner(c).range = R /\ inner(c).old = o
          /\ inner(c).includeOldRoot = FALSE
      BY <1>4, <2>1, <2>2
    <2>4. inner(c) \in Subproofs(n)
      BY <2>2, <2>3 DEF Subproofs
    <2> QED
      BY <1>4, <1>5, <1>7, <2>1, <2>3, <2>4 DEF L, R, o
  <1> QED
    BY <1>6, <1>7

\* The recursion of consistencySubproof.
LEMMA SubproofOfCall ==
    ASSUME NEW P, NEW t \in Seq(P)
    PROVE  /\ consistencySubproof(t) \in [Subproofs(Len(t)) -> Seq(Hashes(P))]
           /\ \A c \in Subproofs(Len(t)) :
                 /\ c.old = sizeOf(c.range) /\ c.includeOldRoot =>
                       consistencySubproof(t)[c] = << >>
                 /\ c.old = sizeOf(c.range) /\ ~ c.includeOldRoot =>
                       consistencySubproof(t)[c] = << merkleRootForRange(t)[c.range] >>
                 /\ c.old # sizeOf(c.range) =>
                       consistencySubproof(t)[c] =
                          Append(consistencySubproof(t)[inner(c)],
                                 merkleRootForRange(t)[outer(c)])
  <1> DEFINE n == Len(t)
             D == Subproofs(n)
             V == Seq(Hashes(P))
             root == merkleRootForRange(t)
             base(c) == IF c.includeOldRoot THEN << >> ELSE << root[c.range] >>
             next(c, g) == IF c.old = sizeOf(c.range) THEN base(c)
                           ELSE Append(g[inner(c)], root[outer(c)])
             size == [c \in D |-> sizeOf(c.range)]
             step == [c \in D |-> [g \in [D -> V] |-> next(c, g)]]
             Eq(f) == f = [c \in D |-> next(c, f)]
             f == consistencySubproof(t)
  <1>0. n \in Nat
    OBVIOUS
  <1>1. \A c \in D : /\ c.range \in ranges(n) /\ sizeOf(c.range) \in Nat
                     /\ c.old # sizeOf(c.range) =>
                           /\ inner(c) \in D /\ outer(c) \in ranges(n)
                           /\ sizeOf(inner(c).range) < sizeOf(c.range)
    <2> HIDE DEF n
    <2> QED
      BY <1>0, InnerCall
  <1>2. root \in [ranges(n) -> Hashes(P)]
    BY RootForRange
  <1>3. f = CHOOSE g : Eq(g)
    BY DEF consistencySubproof
  <1> HIDE DEF n, D, root, f
  <1>4. size \in [D -> Nat] /\ \A c \in D : size[c] = sizeOf(c.range)
    BY <1>1
  <1>5. \A c \in D : base(c) \in V
    BY <1>1, <1>2
  <1> HIDE DEF base, size
  <1>6. ASSUME NEW c \in D, NEW g, c.old # sizeOf(c.range) => g[inner(c)] \in V
        PROVE  next(c, g) \in V
    <2>1. CASE c.old = sizeOf(c.range)
      BY <1>5, <2>1
    <2>2. CASE c.old # sizeOf(c.range)
      <3>1. g[inner(c)] \in Seq(Hashes(P)) /\ root[outer(c)] \in Hashes(P)
        BY <1>1, <1>2, <1>6, <2>2
      <3>2. Append(g[inner(c)], root[outer(c)]) \in V
        BY <3>1
      <3> QED
        BY <2>2, <3>2
    <2> QED
      BY <2>1, <2>2
  <1>7. ASSUME NEW c \in D, NEW g, NEW h,
               \A y \in D : size[y] < size[c] => g[y] = h[y]
        PROVE  next(c, g) = next(c, h)
    <2>1. c.old # sizeOf(c.range) => g[inner(c)] = h[inner(c)]
      BY <1>1, <1>4, <1>7
    <2> QED
      BY <2>1
  <1>8. V # {}
    <2>1. << >> \in V
      OBVIOUS
    <2> QED
      BY <2>1
  <1> HIDE DEF V, next
  <1>9. \A c \in D : \A g \in [D -> V] : next(c, g) \in V
    BY <1>1, <1>6
  <1>10. /\ step \in [D -> [[D -> V] -> V]]
         /\ \A c \in D : \A g \in [D -> V] : step[c][g] = next(c, g)
    BY <1>9
  <1> HIDE DEF step
  <1>11. Recursion(D, V, size, step)
    <2>1. ASSUME NEW c \in D, NEW g \in [D -> V], NEW h \in [D -> V],
                 \A y \in D : size[y] < size[c] => g[y] = h[y]
          PROVE  step[c][g] = step[c][h]
      <3>1. next(c, g) = next(c, h)
        BY <1>7, <2>1
      <3> QED
        BY <1>10, <3>1
    <2> QED
      BY <1>4, <1>10, <2>1 DEF Recursion
  <1>12. PICK g : Solves(g, D, V, step)
    BY <1>8, <1>11, RecursionDefines, Zenon
  <1>13. g \in [D -> V] /\ \A c \in D : g[c] = next(c, g)
    BY <1>10, <1>12 DEF Solves
  <1>14. Eq(g)
    BY <1>13
  <1>15. Eq(f)
    <2> HIDE DEF Eq
    <2> QED
      BY <1>3, <1>14, Zenon
  <1>16. f = [c \in D |-> f[c]] /\ \A c \in D : f[c] = next(c, f)
    BY <1>15
  <1> HIDE DEF Eq
  <1>17. \A c \in D : f[c] \in V
    <2> DEFINE Q == {c \in D : f[c] \in V}
    <2>1. ASSUME NEW c \in D, \A y \in D : size[y] < size[c] => y \in Q
          PROVE  c \in Q
      <3>1. c.old # sizeOf(c.range) => f[inner(c)] \in V
        BY <1>1, <1>4, <2>1
      <3> QED
        BY <1>6, <1>16, <3>1
    <2> HIDE DEF Q
    <2>2. \A c \in D : c \in Q
      BY <1>4, <2>1, SizeInduction
    <2> QED
      BY <2>2 DEF Q
  <1>18. f \in [D -> V]
    BY <1>16, <1>17
  <1>19. \A c \in D :
            /\ c.old = sizeOf(c.range) /\ c.includeOldRoot => f[c] = << >>
            /\ c.old = sizeOf(c.range) /\ ~ c.includeOldRoot => f[c] = << root[c.range] >>
            /\ c.old # sizeOf(c.range) => f[c] = Append(f[inner(c)], root[outer(c)])
    BY <1>16 DEF next, base
  <1> QED
    BY <1>18, <1>19 DEF f, D, V, n, root

\* path begins with p.
Begins(path, p) == Len(p) <= Len(path) /\ \A k \in 1 .. Len(p) : path[k] = p[k]

\* What begins with p and h begins with p, and goes on with h.
LEMMA BeginsStep ==
    ASSUME NEW H, NEW path \in Seq(H), NEW p \in Seq(H), NEW h \in H,
           Begins(path, Append(p, h))
    PROVE  /\ Begins(path, p)
           /\ Len(p) \in 0 .. Len(path) - 1
           /\ path[Len(p) + 1] = h
           /\ Len(Append(p, h)) = Len(p) + 1
  <1>1. /\ Len(Append(p, h)) = Len(p) + 1
        /\ Append(p, h)[Len(p) + 1] = h
        /\ \A k \in 1 .. Len(p) : Append(p, h)[k] = p[k]
    OBVIOUS
  <1> QED
    BY <1>1 DEF Begins

\* The verifier's state for a call of consistencySubproof.
stateOf(c) == [old |-> c.old, new |-> sizeOf(c.range), includeOldRoot |-> c.includeOldRoot]

\* The verifier descends as the proof's author does.
LEMMA StateOfCall ==
    ASSUME NEW n \in Nat, NEW c \in Subproofs(n)
    PROVE  /\ stateOf(c) \in States(n)
           /\ stateOf(c).old = c.old /\ stateOf(c).new = sizeOf(c.range)
           /\ stateOf(c).includeOldRoot = c.includeOldRoot
           /\ c.old # sizeOf(c.range) =>
                 /\ halfOf(stateOf(c)) = stateOf(inner(c))
                 /\ inLeft(stateOf(c)) <=> c.old <= sizeOf(leftOf(c.range))
  <1> DEFINE s == stateOf(c)
  <1>1. /\ c.range \in ranges(n) /\ c.old \in 1 .. n /\ c.old <= sizeOf(c.range)
        /\ c.includeOldRoot \in BOOLEAN /\ sizeOf(c.range) \in Nat
    BY InnerCall
  <1>2. s.old = c.old /\ s.new = sizeOf(c.range) /\ s.includeOldRoot = c.includeOldRoot
    BY DEF stateOf
  <1>3. sizeOf(c.range) \in 1 .. n
    <2>1. c.range[1] \in 0 .. n /\ c.range[2] \in 0 .. n
      BY <1>1, Halving
    <2> QED
      BY <1>1, <2>1 DEF sizeOf
  <1>4. s \in States(n)
    BY <1>1, <1>2, <1>3 DEF stateOf, States
  <1> HIDE DEF s
  <1>5. ASSUME c.old # sizeOf(c.range)
        PROVE  halfOf(s) = stateOf(inner(c)) /\ (inLeft(s) <=> c.old <= sizeOf(leftOf(c.range)))
    <2> DEFINE L == leftOf(c.range)
               R == rightOf(c.range)
    <2>1. /\ c.range \in Forks(n)
          /\ c.old <= sizeOf(L) =>
                /\ inner(c).range = L /\ inner(c).old = c.old
                /\ inner(c).includeOldRoot = c.includeOldRoot
          /\ ~ (c.old <= sizeOf(L)) =>
                /\ inner(c).range = R /\ inner(c).old = c.old - sizeOf(L)
                /\ inner(c).includeOldRoot = FALSE
      BY <1>5, InnerCall
    <2>2. /\ sizeOf(L) = largestPowerOfTwoLessThan(sizeOf(c.range))
          /\ sizeOf(R) = sizeOf(c.range) - sizeOf(L)
      BY <2>1, Halving DEF Forks
    <2> HIDE DEF L, R
    <2>3. splitSize(s) = sizeOf(L)
      BY <1>2, <2>2 DEF splitSize
    <2>4. inLeft(s) <=> c.old <= sizeOf(L)
      BY <1>2, <2>3 DEF inLeft
    <2>5. CASE c.old <= sizeOf(L)
      <3>1. halfOf(s) = [s EXCEPT !.new = sizeOf(L)]
        BY <2>3, <2>4, <2>5 DEF halfOf
      <3>2. s = [old |-> c.old, new |-> sizeOf(c.range), includeOldRoot |-> c.includeOldRoot]
        BY DEF s, stateOf
      <3>3. halfOf(s) = [old |-> c.old, new |-> sizeOf(L), includeOldRoot |-> c.includeOldRoot]
        BY <3>1, <3>2
      <3>4. stateOf(inner(c)) = halfOf(s)
        BY <2>1, <2>5, <3>3 DEF stateOf
      <3> QED
        BY <2>4, <3>4 DEF L
    <2>6. CASE ~ (c.old <= sizeOf(L))
      <3>1. halfOf(s) = [old |-> c.old - sizeOf(L), new |-> sizeOf(R), includeOldRoot |-> FALSE]
        BY <1>2, <2>2, <2>3, <2>4, <2>6 DEF halfOf
      <3>2. stateOf(inner(c)) = halfOf(s)
        BY <2>1, <2>6, <3>1 DEF stateOf
      <3> QED
        BY <2>4, <3>2 DEF L
    <2> QED
      BY <2>5, <2>6
  <1> QED
    BY <1>2, <1>4, <1>5 DEF s

\* The first leaves of a call's range are a range.
firstOf(c) == << c.range[1], c.range[1] + c.old >>

\* From a path that begins with the generated subproof the verifier rebuilds
\* both roots, and uses no more of the path.
LEMMA GeneratedSubproof ==
    ASSUME NEW P, NEW t \in Seq(P), NEW path \in Seq(Hashes(P)), NEW oldRoot \in Hashes(P),
           NEW f, f = verifyConsistencySubproof(Len(t), path, oldRoot)
    PROVE  \A c \in Subproofs(Len(t)) :
              /\ Begins(path, consistencySubproof(t)[c])
              /\ c.includeOldRoot => oldRoot = merkleRootForRange(t)[firstOf(c)]
              => /\ f[stateOf(c)].cursor = Len(consistencySubproof(t)[c])
                 /\ f[stateOf(c)].old = merkleRootForRange(t)[firstOf(c)]
                 /\ f[stateOf(c)].new = merkleRootForRange(t)[c.range]
  <1> DEFINE n == Len(t)
             D == Subproofs(n)
             root == merkleRootForRange(t)
             sub == consistencySubproof(t)
             size == [c \in D |-> sizeOf(c.range)]
             Fits(c) == Begins(path, sub[c]) /\ (c.includeOldRoot => oldRoot = root[firstOf(c)])
             Right(c) == /\ f[stateOf(c)].cursor = Len(sub[c])
                         /\ f[stateOf(c)].old = root[firstOf(c)]
                         /\ f[stateOf(c)].new = root[c.range]
             Q == {c \in D : Fits(c) => Right(c)}
  <1>1. n \in Nat
    OBVIOUS
  <1>2. f = verifyConsistencySubproof(n, path, oldRoot)
    OBVIOUS
  <1>3. /\ root \in [ranges(n) -> Hashes(P)]
        /\ \A r \in ranges(n) : sizeOf(r) # 1 =>
              root[r] = nodeHash(root[leftOf(r)], root[rightOf(r)])
    BY RootForRange
  <1>4. /\ sub \in [D -> Seq(Hashes(P))]
        /\ \A c \in D :
              /\ c.old = sizeOf(c.range) /\ c.includeOldRoot => sub[c] = << >>
              /\ c.old = sizeOf(c.range) /\ ~ c.includeOldRoot => sub[c] = << root[c.range] >>
              /\ c.old # sizeOf(c.range) => sub[c] = Append(sub[inner(c)], root[outer(c)])
    BY SubproofOfCall
  <1> HIDE DEF n, root, sub
  <1>5. size \in [D -> Nat] /\ \A c \in D : size[c] = sizeOf(c.range)
    <2>1. \A c \in D : sizeOf(c.range) \in Nat
      BY <1>1, InnerCall
    <2> QED
      BY <2>1
  <1> HIDE DEF size
  <1>6. ASSUME NEW c \in D, c.old = sizeOf(c.range), Fits(c) PROVE Right(c)
    <2> DEFINE s == stateOf(c)
    <2>1. firstOf(c) = c.range
      <3>1. c.range \in ranges(n)
        BY <1>1, InnerCall
      <3>2. c.range[1] \in 0 .. n /\ c.range[2] \in 0 .. n /\ c.range = << c.range[1], c.range[2] >>
        BY <1>1, <3>1, Halving
      <3>3. c.range[1] + c.old = c.range[2]
        BY <1>1, <1>6, <3>2 DEF sizeOf
      <3> QED
        BY <3>2, <3>3 DEF firstOf
    <2>2. /\ s \in States(n) /\ s.old = s.new
          /\ s.includeOldRoot = c.includeOldRoot /\ c.includeOldRoot \in BOOLEAN
      BY <1>1, <1>6, StateOfCall, InnerCall
    <2>3. MadeOf(f, s, f[halfOf(s)], P, path, oldRoot)
      BY <1>1, <1>2, <2>2, RebuiltCases
    <2> HIDE DEF s
    <2>4. CASE c.includeOldRoot
      <3>1. f[s] = [cursor |-> 0, old |-> oldRoot, new |-> oldRoot]
        BY <2>2, <2>3, <2>4 DEF MadeOf
      <3>2. Len(sub[c]) = 0
        BY <1>4, <1>6, <2>4
      <3>3. oldRoot = root[c.range]
        BY <1>6, <2>1, <2>4
      <3>4. f[s].cursor = 0 /\ f[s].old = oldRoot /\ f[s].new = oldRoot
        BY <3>1
      <3> QED
        BY <2>1, <3>2, <3>3, <3>4 DEF s
    <2>5. CASE ~ c.includeOldRoot
      <3>1. sub[c] = << root[c.range] >>
        BY <1>4, <1>6, <2>5
      <3>2. Len(sub[c]) = 1 /\ sub[c][1] = root[c.range]
        BY <3>1
      <3>3. Len(path) >= 1 /\ path[1] = root[c.range]
        BY <1>6, <3>2 DEF Begins
      <3>4. path # << >>
        BY <3>3
      <3>5. f[s] = [cursor |-> 1, old |-> path[1], new |-> path[1]]
        BY <2>2, <2>3, <2>5, <3>4 DEF MadeOf
      <3>6. f[s].cursor = 1 /\ f[s].old = path[1] /\ f[s].new = path[1]
        BY <3>5
      <3> QED
        BY <2>1, <3>2, <3>3, <3>6 DEF s
    <2> QED
      BY <2>4, <2>5
  <1>7. ASSUME NEW c \in D, c.old # sizeOf(c.range), Fits(c), Fits(inner(c)) => Right(inner(c))
        PROVE  Right(c)
    <2> DEFINE s == stateOf(c)
               L == leftOf(c.range)
               R == rightOf(c.range)
               d == inner(c)
    <2>1. /\ c.range \in ranges(n) /\ c.old \in 1 .. n /\ c.old <= sizeOf(c.range)
          /\ c.range \in Forks(n) /\ d \in D /\ outer(c) \in ranges(n)
      BY <1>1, <1>7, InnerCall
    <2>2. /\ c.old <= sizeOf(L) =>
                /\ d.range = L /\ d.old = c.old /\ d.includeOldRoot = c.includeOldRoot
                /\ outer(c) = R
          /\ ~ (c.old <= sizeOf(L)) =>
                /\ d.range = R /\ d.old = c.old - sizeOf(L) /\ d.includeOldRoot = FALSE
                /\ outer(c) = L
      BY <1>1, <1>7, InnerCall
    <2>3. /\ s \in States(n) /\ s.old # s.new
          /\ halfOf(s) = stateOf(d)
          /\ inLeft(s) <=> c.old <= sizeOf(L)
      BY <1>1, <1>7, StateOfCall
    <2>4. MadeOf(f, s, f[stateOf(d)], P, path, oldRoot)
      <3>1. MadeOf(f, s, f[halfOf(s)], P, path, oldRoot)
        BY <1>1, <1>2, <2>3, RebuiltCases
      <3> QED
        BY <2>3, <3>1
    <2>5. /\ L \in ranges(n) /\ R \in ranges(n) /\ L[1] = c.range[1] /\ R[1] = splitOf(c.range)
          /\ sizeOf(L) \in Nat
          /\ root[c.range] = nodeHash(root[L], root[R])
      BY <1>1, <1>3, <2>1, Halving DEF Forks
    <2> HIDE DEF s, L, R, d, D
    <2>6. sub[d] \in Seq(Hashes(P)) /\ root[outer(c)] \in Hashes(P)
      BY <1>3, <1>4, <2>1
    <2>7. sub[c] = Append(sub[d], root[outer(c)])
      BY <1>4, <1>7 DEF d
    <2>8. /\ Begins(path, sub[d])
          /\ Len(sub[d]) \in 0 .. Len(path) - 1
          /\ path[Len(sub[d]) + 1] = root[outer(c)]
          /\ Len(sub[c]) = Len(sub[d]) + 1
      BY <1>7, <2>6, <2>7, BeginsStep
    <2>9. c.old <= sizeOf(L) => firstOf(d) = firstOf(c)
      BY <2>2, <2>5 DEF firstOf
    <2>10. Right(d)
      <3>1. d.includeOldRoot => oldRoot = root[firstOf(d)]
        BY <1>7, <2>2, <2>9
      <3> QED
        BY <1>7, <2>8, <3>1 DEF d
    <2> DEFINE half == f[stateOf(d)]
    <2>11. half.cursor = Len(sub[d]) /\ half.old = root[firstOf(d)] /\ half.new = root[d.range]
      BY <2>10
    <2>12. /\ half.cursor \in 0 .. Len(path) - 1
           /\ path[half.cursor + 1] = root[outer(c)]
      BY <2>8, <2>11
    <2> HIDE DEF half
    <2>13. /\ f[s].cursor = half.cursor + 1
           /\ inLeft(s) => f[s].old = half.old /\ f[s].new = nodeHash(half.new, root[outer(c)])
           /\ ~ inLeft(s) =>
                 /\ f[s].old = nodeHash(root[outer(c)], half.old)
                 /\ f[s].new = nodeHash(root[outer(c)], half.new)
      BY <2>3, <2>4, <2>12 DEF MadeOf, half
    <2>14. f[s].cursor = Len(sub[c])
      BY <2>8, <2>11, <2>13
    <2>15. CASE c.old <= sizeOf(L)
      <3>1. f[s].old = root[firstOf(c)]
        BY <2>3, <2>9, <2>11, <2>13, <2>15
      <3>2. f[s].new = root[c.range]
        BY <2>2, <2>3, <2>5, <2>11, <2>13, <2>15
      <3> QED
        BY <2>14, <3>1, <3>2 DEF s
    <2>16. CASE ~ (c.old <= sizeOf(L))
      <3>1. f[s].new = root[c.range]
        BY <2>2, <2>3, <2>5, <2>11, <2>13, <2>16
      <3> DEFINE q == firstOf(c)
      <3>2. q \in Forks(n) /\ leftOf(q) = L /\ rightOf(q) = firstOf(d)
        <4>1. c.old \in Nat /\ sizeOf(L) < c.old
          BY <1>1, <2>1, <2>5, <2>16
        <4>2. /\ << c.range[1], c.range[1] + c.old >> \in Forks(n)
              /\ leftOf(<< c.range[1], c.range[1] + c.old >>) = L
              /\ rightOf(<< c.range[1], c.range[1] + c.old >>) =
                    << splitOf(c.range), splitOf(c.range) + (c.old - sizeOf(L)) >>
          BY <1>1, <2>1, <4>1, FirstOfRange DEF L
        <4>3. firstOf(d) = << splitOf(c.range), splitOf(c.range) + (c.old - sizeOf(L)) >>
          BY <2>2, <2>5, <2>16 DEF firstOf
        <4> QED
          BY <4>2, <4>3 DEF firstOf
      <3> HIDE DEF q
      <3>3. root[q] = nodeHash(root[L], root[firstOf(d)])
        BY <1>3, <3>2 DEF Forks
      <3>4. f[s].old = root[q]
        BY <2>2, <2>3, <2>11, <2>13, <2>16, <3>3
      <3> QED
        BY <2>14, <3>1, <3>4 DEF s, q
    <2> QED
      BY <2>15, <2>16
  <1> HIDE DEF Fits, Right
  <1>8. ASSUME NEW c \in D, \A y \in D : size[y] < size[c] => y \in Q
        PROVE  c \in Q
    <2>1. CASE c.old = sizeOf(c.range)
      BY <1>6, <2>1
    <2>2. CASE c.old # sizeOf(c.range)
      <3>1. inner(c) \in D /\ sizeOf(inner(c).range) < sizeOf(c.range)
        BY <1>1, <2>2, InnerCall
      <3>2. inner(c) \in Q
        BY <1>5, <1>8, <3>1
      <3> QED
        BY <1>7, <2>2, <3>2
    <2> QED
      BY <2>1, <2>2
  <1> HIDE DEF Q, D
  <1>9. \A c \in D : c \in Q
    BY <1>5, <1>8, SizeInduction
  <1> QED
    BY <1>9 DEF Q, D, Fits, Right, n, root, sub

-----------------------------------------------------------------------------
(* Whole trees.                                                            *)

\* The root of a tree's first n leaves is that of the range they make up.
LEMMA RootOfFirst ==
    ASSUME NEW P, NEW t \in Seq(P), NEW n \in 1 .. Len(t)
    PROVE  /\ << 0, n >> \in ranges(Len(t)) /\ << 0, n >> \in ranges(n)
           /\ computeMerkleRoot(SubSeq(t, 1, n)) = merkleRootForRange(t)[<< 0, n >>]
           /\ computeMerkleRoot(SubSeq(t, 1, n)) \in Hashes(P)
  <1> DEFINE u == SubSeq(t, 1, n)
  <1>1. /\ u \in Seq(P) /\ Len(u) = n /\ \A k \in 1 .. Len(u) : u[k] = t[k]
        /\ n \in Nat /\ Len(t) \in Nat /\ n <= Len(t)
    OBVIOUS
  <1> HIDE DEF u
  <1>2. u # << >>
    BY <1>1
  <1>3. << 0, n >> \in ranges(n)
    BY <1>1 DEF ranges
  <1>4. << 0, n >> \in ranges(Len(t))
    BY <1>1, <1>3, RangesGrow
  <1>5. merkleRootForRange(u)[<< 0, n >>] = merkleRootForRange(t)[<< 0, n >>]
    BY <1>1, <1>3, RootWithin
  <1>6. merkleRootForRange(t)[<< 0, n >>] \in Hashes(P)
    BY <1>4, RootForRange
  <1>7. computeMerkleRoot(u) = merkleRootForRange(u)[<< 0, n >>]
    BY <1>1, <1>2 DEF computeMerkleRoot
  <1> QED
    BY <1>3, <1>4, <1>5, <1>6, <1>7 DEF u

\* The root of a tree that is not empty, and of an empty one.
LEMMA RootOfTree ==
    ASSUME NEW P, NEW t \in Seq(P)
    PROVE  /\ computeMerkleRoot(<< >>) = EMPTY_TREE_ROOT
           /\ computeMerkleRoot(t) \in Hashes(P)
           /\ Len(t) > 0 =>
                 /\ << 0, Len(t) >> \in ranges(Len(t))
                 /\ computeMerkleRoot(t) = merkleRootForRange(t)[<< 0, Len(t) >>]
  <1>1. computeMerkleRoot(<< >>) = EMPTY_TREE_ROOT
    BY DEF computeMerkleRoot
  <1>2. CASE Len(t) = 0
    <2>1. t = << >>
      BY <1>2
    <2> QED
      BY <1>1, <1>2, <2>1, HashesClosed
  <1>3. CASE Len(t) > 0
    <2>1. Len(t) \in 1 .. Len(t) /\ SubSeq(t, 1, Len(t)) = t
      BY <1>3
    <2> QED
      BY <1>1, <1>3, <2>1, RootOfFirst
  <1> QED
    BY <1>2, <1>3

\* verifyInclusionProof accepts what getInclusionProof returns.
LEMMA GeneratedInclusionVerifies ==
    ASSUME NEW P, NEW t \in Seq(P), NEW i \in Nat, i < Len(t)
    PROVE  verifyInclusionProof(t[i + 1], getInclusionProof(i, t), computeMerkleRoot(t))
  <1> DEFINE n == Len(t)
             proof == getInclusionProof(i, t)
             path == inclusionPathForRange(i, t)[<< 0, n >>]
             positions == inclusionPathPositionsForRange(i, n)[<< 0, n >>]
  <1>1. n \in Nat /\ n > 0 /\ i \in 0 .. n - 1
    OBVIOUS
  <1>2. << 0, n >> \in ranges(n) /\ computeMerkleRoot(t) = merkleRootForRange(t)[<< 0, n >>]
    BY <1>1, RootOfTree
  <1>3. Holds(<< 0, n >>, i)
    BY <1>1 DEF Holds
  <1>4. Matches(path, positions) /\ Reached(leafHash(t[i + 1]), path) = computeMerkleRoot(t)
    BY <1>2, <1>3, GeneratedPath
  <1>5. /\ proof.tree_size = n /\ proof.leaf_index = i
        /\ proof.leaf_hash = leafHash(t[i + 1]) /\ proof.audit_path = path
    BY DEF getInclusionProof
  <1> HIDE DEF proof, path, n
  <1>6. Len(positions) = Len(path) /\ \A k \in 1 .. Len(path) : path[k].position = positions[k]
    BY <1>4 DEF Matches
  <1>7. climb(leafHash(t[i + 1]), path)[Len(path)] = computeMerkleRoot(t)
    BY <1>4 DEF Reached
  <1>8. verifyInclusionProof(t[i + 1], proof, computeMerkleRoot(t))
    BY <1>1, <1>5, <1>6, <1>7 DEF verifyInclusionProof
  <1> QED
    BY <1>8 DEF proof

\* verifyConsistencyProof accepts what getConsistencyProof returns.
LEMMA GeneratedConsistencyVerifies ==
    ASSUME NEW P, NEW t \in Seq(P), NEW n \in 0 .. Len(t)
    PROVE  verifyConsistencyProof(computeMerkleRoot(SubSeq(t, 1, n)), computeMerkleRoot(t),
                                  getConsistencyProof(n, t))
  <1> DEFINE N == Len(t)
             old == computeMerkleRoot(SubSeq(t, 1, n))
             proof == getConsistencyProof(n, t)
  <1>1. N \in Nat /\ n \in Nat /\ n <= N
    OBVIOUS
  <1>2. proof.old_tree_size = n /\ proof.new_tree_size = N
    BY DEF getConsistencyProof
  <1>3. n = 0 \/ n = N => proof.audit_path = << >>
    BY DEF getConsistencyProof
  <1>4. CASE n = 0
    <2>1. old = EMPTY_TREE_ROOT
      <3>1. SubSeq(t, 1, n) = << >>
        BY <1>4
      <3> QED
        BY <3>1, RootOfTree
    <2>2. N > 0 \/ computeMerkleRoot(t) = EMPTY_TREE_ROOT
      <3>1. N = 0 => t = << >>
        OBVIOUS
      <3>2. computeMerkleRoot(<< >>) = EMPTY_TREE_ROOT
        BY RootOfTree
      <3> HIDE DEF N
      <3>3. CASE N = 0
        BY <3>1, <3>2, <3>3
      <3> QED
        BY <1>1, <3>3
    <2> HIDE DEF N, old, proof
    <2>3. verifyConsistencyProof(old, computeMerkleRoot(t), proof)
      BY <1>1, <1>2, <1>3, <1>4, <2>1, <2>2 DEF verifyConsistencyProof
    <2> QED
      BY <2>3 DEF old, proof
  <1>5. CASE n # 0 /\ n = N
    <2>1. SubSeq(t, 1, n) = t
      BY <1>5
    <2>2. old = computeMerkleRoot(t)
      BY <2>1
    <2> HIDE DEF N, old, proof
    <2>3. verifyConsistencyProof(old, computeMerkleRoot(t), proof)
      BY <1>1, <1>2, <1>3, <1>5, <2>2 DEF verifyConsistencyProof
    <2> QED
      BY <2>3 DEF old, proof
  <1>6. CASE n # 0 /\ n # N
    <2> DEFINE c == [range |-> << 0, N >>, old |-> n, includeOldRoot |-> TRUE]
               path == consistencySubproof(t)[c]
               f == verifyConsistencySubproof(N, path, old)
    <2>1. n \in 1 .. N /\ N > 0 /\ n \in 1 .. Len(t)
      BY <1>1, <1>6
    <2>2. /\ << 0, N >> \in ranges(N) /\ old = merkleRootForRange(t)[<< 0, n >>]
          /\ old \in Hashes(P)
          /\ computeMerkleRoot(t) = merkleRootForRange(t)[<< 0, N >>]
      BY <2>1, RootOfFirst, RootOfTree
    <2>3. proof.audit_path = path
      BY <1>6 DEF getConsistencyProof
    <2>4. c.range = << 0, N >> /\ c.old = n /\ c.includeOldRoot = TRUE
      OBVIOUS
    <2>5. c \in Subproofs(N)
      <3>1. sizeOf(<< 0, N >>) = N
        BY <1>1 DEF sizeOf
      <3>2. c \in [range : ranges(N), old : 1 .. N, includeOldRoot : BOOLEAN]
        BY <2>1, <2>2
      <3> HIDE DEF c, N
      <3> QED
        BY <1>1, <2>4, <3>1, <3>2 DEF Subproofs
    <2>6. path \in Seq(Hashes(P))
      <3> HIDE DEF c
      <3> QED
        BY <2>5, SubproofOfCall
    <2>7. firstOf(c) = << 0, n >>
      <3> HIDE DEF c
      <3>1. c.range[1] = 0
        BY <2>4
      <3> QED
        BY <1>1, <2>4, <3>1 DEF firstOf
    <2>8. stateOf(c) = [old |-> n, new |-> N, includeOldRoot |-> TRUE]
      <3>1. sizeOf(<< 0, N >>) = N
        BY <1>1 DEF sizeOf
      <3> QED
        BY <3>1 DEF stateOf
    <2>9. Begins(path, path)
      <3> HIDE DEF path
      <3> QED
        BY <2>6 DEF Begins
    <2> HIDE DEF c, old
    <2>10. /\ f[stateOf(c)].cursor = Len(path)
           /\ f[stateOf(c)].old = merkleRootForRange(t)[firstOf(c)]
           /\ f[stateOf(c)].new = merkleRootForRange(t)[c.range]
      <3>1. f = verifyConsistencySubproof(Len(t), path, old)
        OBVIOUS
      <3> HIDE DEF f
      <3>2. c \in Subproofs(Len(t))
        BY <2>5
      <3>3. Begins(path, consistencySubproof(t)[c])
        BY <2>9
      <3>4. old = merkleRootForRange(t)[firstOf(c)]
        BY <2>2, <2>7
      <3> HIDE DEF path
      <3>5. \A d \in Subproofs(Len(t)) :
               /\ Begins(path, consistencySubproof(t)[d])
               /\ d.includeOldRoot => old = merkleRootForRange(t)[firstOf(d)]
               => /\ f[stateOf(d)].cursor = Len(consistencySubproof(t)[d])
                  /\ f[stateOf(d)].old = merkleRootForRange(t)[firstOf(d)]
                  /\ f[stateOf(d)].new = merkleRootForRange(t)[d.range]
        BY <2>2, <2>6, <3>1, GeneratedSubproof
      <3> QED
        BY <3>2, <3>3, <3>4, <3>5 DEF path
    <2> DEFINE result == f[[old |-> n, new |-> N, includeOldRoot |-> TRUE]]
    <2>11. /\ result.cursor = Len(path) /\ result.old = old
           /\ result.new = computeMerkleRoot(t)
      <3> HIDE DEF f, path
      <3> QED
        BY <2>2, <2>4, <2>7, <2>8, <2>10
    <2>12. result = verifyConsistencySubproof(N, path, old)[
                       [old |-> n, new |-> N, includeOldRoot |-> TRUE]]
      OBVIOUS
    <2> HIDE DEF result, f, path, proof, N
    <2>13. verifyConsistencyProof(old, computeMerkleRoot(t), proof)
      BY <1>1, <1>2, <1>6, <2>3, <2>11, <2>12 DEF verifyConsistencyProof
    <2> QED
      BY <2>13 DEF old, proof
  <1> QED
    BY <1>4, <1>5, <1>6

-----------------------------------------------------------------------------
(* What the verifiers accept, whatever audit path they are shown.          *)

\* Some audit path makes payload the leaf at index i of a tree of the given
\* size and root.
SomePathOpens(P, root, size, i, payload) ==
    \E path \in Seq(Steps(P)) :
        verifyInclusionProof(payload,
            [tree_size |-> size, leaf_index |-> i, leaf_hash |-> leafHash(payload),
             root_hash |-> root, audit_path |-> path],
            root)

\* Some audit path shows the tree of the first m payloads to be a prefix of
\* that of n.
SomePathLinks(P, old, m, new, n) ==
    \E path \in Seq(Hashes(P)) :
        verifyConsistencyProof(old, new,
            [old_tree_size |-> m, new_tree_size |-> n, audit_path |-> path])

\* An accepted inclusion proof is an opening of the whole tree.
LEMMA AcceptedOpening ==
    ASSUME NEW P, NEW root, NEW n \in Nat, NEW i \in Nat, NEW l \in P,
           SomePathOpens(P, root, n, i, l)
    PROVE  /\ i < n /\ << 0, n >> \in ranges(n) /\ Holds(<< 0, n >>, i)
           /\ Opening(P, root, n, << 0, n >>, i, l)
  <1> DEFINE proof(path) == [tree_size |-> n, leaf_index |-> i, leaf_hash |-> leafHash(l),
                             root_hash |-> root, audit_path |-> path]
             positions == inclusionPathPositionsForRange(i, n)[<< 0, n >>]
  <1>1. PICK path \in Seq(Steps(P)) : verifyInclusionProof(l, proof(path), root)
    BY DEF SomePathOpens
  <1>2. /\ proof(path).tree_size = n /\ proof(path).leaf_index = i
        /\ proof(path).leaf_hash = leafHash(l) /\ proof(path).audit_path = path
    OBVIOUS
  <1> HIDE DEF proof
  <1>3. /\ i \in 0 .. n - 1
        /\ Len(positions) = Len(path)
        /\ \A k \in 1 .. Len(path) : path[k].position = positions[k]
        /\ climb(leafHash(l), path)[Len(path)] = root
    BY <1>1, <1>2 DEF verifyInclusionProof
  <1>4. Matches(path, positions) /\ Reached(leafHash(l), path) = root
    BY <1>3 DEF Matches, Reached
  <1>5. Opening(P, root, n, << 0, n >>, i, l)
    BY <1>4 DEF Opening
  <1>6. i < n /\ Holds(<< 0, n >>, i) /\ << 0, n >> \in ranges(n)
    BY <1>3 DEF Holds, ranges
  <1> QED
    BY <1>5, <1>6

\* The verifier rebuilds both roots from the path.
Rebuilds(path, old, m, new, n) ==
    LET s == [old |-> m, new |-> n, includeOldRoot |-> TRUE]
        result == verifyConsistencySubproof(n, path, old)[s]
    IN  /\ s \in States(n) /\ s.old = m /\ s.new = n
        /\ result.cursor >= 0 /\ result.old = old /\ result.new = new

\* What an accepted consistency proof rebuilds.
LEMMA AcceptedLink ==
    ASSUME NEW P, NEW old, NEW new, NEW m \in Nat, NEW n \in Nat,
           SomePathLinks(P, old, m, new, n)
    PROVE  /\ m <= n
           /\ m = 0 => old = EMPTY_TREE_ROOT
           /\ m # 0 /\ m = n => old = new
           /\ m # 0 /\ m # n =>
                 \E path \in Seq(Hashes(P)) : Rebuilds(path, old, m, new, n)
  <1> DEFINE proof(path) == [old_tree_size |-> m, new_tree_size |-> n, audit_path |-> path]
             s == [old |-> m, new |-> n, includeOldRoot |-> TRUE]
  <1>1. PICK path \in Seq(Hashes(P)) : verifyConsistencyProof(old, new, proof(path))
    BY DEF SomePathLinks
  <1>2. proof(path).old_tree_size = m /\ proof(path).new_tree_size = n /\ proof(path).audit_path = path
    OBVIOUS
  <1> HIDE DEF proof
  <1> DEFINE result == verifyConsistencySubproof(n, path, old)[s]
  <1>3. /\ m <= n
        /\ m = 0 => old = EMPTY_TREE_ROOT
        /\ m # 0 /\ m = n => old = new
        /\ m # 0 /\ m # n => result.cursor = Len(path) /\ result.old = old /\ result.new = new
    BY <1>1, <1>2 DEF verifyConsistencyProof
  <1>4. m # 0 /\ m # n => s \in States(n) /\ s.old = m /\ s.new = n
    BY <1>3 DEF States
  <1>5. Len(path) >= 0
    OBVIOUS
  <1> HIDE DEF result
  <1>6. m # 0 /\ m # n => result.cursor >= 0
    BY <1>3, <1>5
  <1> QED
    BY <1>3, <1>4, <1>6 DEF result, Rebuilds

\* A root opens only to the leaves of the log it is the root of.
LEMMA OpensToItsLeaves ==
    ASSUME NEW P, NEW t \in Seq(P), NEW i \in Nat, NEW l \in P,
           SomePathOpens(P, computeMerkleRoot(t), Len(t), i, l)
    PROVE  i < Len(t) /\ t[i + 1] = l
  <1> DEFINE n == Len(t)
  <1>1. n \in Nat
    OBVIOUS
  <1>2. /\ i < n /\ << 0, n >> \in ranges(n) /\ Holds(<< 0, n >>, i)
        /\ Opening(P, computeMerkleRoot(t), n, << 0, n >>, i, l)
    BY <1>1, AcceptedOpening
  <1>3. computeMerkleRoot(t) = merkleRootForRange(t)[<< 0, n >>]
    <2>1. Len(t) > 0
      BY <1>1, <1>2
    <2> QED
      BY <2>1, RootOfTree
  <1> QED
    BY <1>2, <1>3, OpeningOfRoot

\* Under any size a root opens only to leaves of the log it is the root of.
LEMMA OpensToSomeLeaf ==
    ASSUME NEW P, NEW t \in Seq(P), NEW n \in Nat, NEW i \in Nat, NEW l \in P,
           SomePathOpens(P, computeMerkleRoot(t), n, i, l)
    PROVE  \E j \in 1 .. Len(t) : t[j] = l
  <1> DEFINE all == << 0, n >>
  <1>1. all \in ranges(n) /\ Opening(P, computeMerkleRoot(t), n, all, i, l)
    BY AcceptedOpening
  <1> HIDE DEF all
  <1>2. CASE Len(t) > 0
    <2>1. computeMerkleRoot(t) = merkleRootForRange(t)[<< 0, Len(t) >>]
      BY <1>2, RootOfTree
    <2>2. << 0, Len(t) >> \in ranges(Len(t))
      BY <1>2 DEF ranges
    <2> QED
      BY <1>1, <2>1, <2>2, OpeningAtAnySize
  <1>3. CASE Len(t) = 0
    <2>1. computeMerkleRoot(t) = EMPTY_TREE_ROOT
      BY <1>3 DEF computeMerkleRoot
    <2>2. CASE sizeOf(all) = 1
      <3>1. EMPTY_TREE_ROOT = leafHash(l)
        BY <1>1, <2>1, <2>2, OpeningLeaf
      <3> QED
        BY <3>1, HashTerms
    <2>3. CASE sizeOf(all) # 1
      <3>1. all \in Forks(n)
        BY <1>1, <2>3 DEF Forks
      <3>2. PICK a \in Hashes(P), b \in Hashes(P) : EMPTY_TREE_ROOT = nodeHash(a, b)
        BY <1>1, <2>1, <3>1, OpeningFork
      <3> QED
        BY <3>2, HashTerms
    <2> QED
      BY <2>2, <2>3
  <1>4. Len(t) \in Nat
    OBVIOUS
  <1> QED
    BY <1>2, <1>3, <1>4

\* Only a log's own prefixes precede it.
LEMMA LinksToItsPrefixes ==
    ASSUME NEW P, NEW t \in Seq(P), NEW root \in Hashes(P), NEW m \in 0 .. Len(t),
           SomePathLinks(P, root, m, computeMerkleRoot(t), Len(t))
    PROVE  root = computeMerkleRoot(SubSeq(t, 1, m))
  <1> DEFINE n == Len(t)
             new == computeMerkleRoot(t)
  <1>0. SomePathLinks(P, root, m, new, n)
    OBVIOUS
  <1>1. n \in Nat /\ m \in Nat
    OBVIOUS
  <1>2. CASE m = 0
    <2>1. SubSeq(t, 1, m) = << >>
      BY <1>2
    <2>2. root = EMPTY_TREE_ROOT
      BY <1>1, <1>2, AcceptedLink
    <2> QED
      BY <2>1, <2>2, RootOfTree
  <1>3. CASE m # 0 /\ m = n
    <2>1. SubSeq(t, 1, m) = t
      BY <1>3
    <2> HIDE DEF n, new
    <2>2. root = new
      BY <1>0, <1>1, <1>3, AcceptedLink
    <2> QED
      BY <2>1, <2>2 DEF new
  <1>4. CASE m # 0 /\ m # n
    <2> DEFINE s == [old |-> m, new |-> n, includeOldRoot |-> TRUE]
    <2>1. PICK path \in Seq(Hashes(P)) : Rebuilds(path, root, m, new, n)
      BY <1>0, <1>1, <1>4, AcceptedLink
    <2>2. m \in 1 .. n /\ n > 0
      BY <1>1, <1>4
    <2>3. << 0, n >> \in ranges(n) /\ new = merkleRootForRange(t)[<< 0, n >>]
      BY <2>2, RootOfTree
    <2>4. computeMerkleRoot(SubSeq(t, 1, m)) = merkleRootForRange(t)[<< 0, m >>]
      BY <2>2, RootOfFirst
    <2> DEFINE g == verifyConsistencySubproof(n, path, root)
    <2>5. g = verifyConsistencySubproof(Len(t), path, root)
      OBVIOUS
    <2>6. /\ s \in States(Len(t)) /\ s.old = m /\ s.new = n
          /\ g[s].cursor >= 0 /\ g[s].old = root /\ g[s].new = new
      BY <2>1 DEF Rebuilds
    <2> HIDE DEF g, s, new
    <2>7. \A q \in States(Len(t)), r \in ranges(Len(t)) :
             /\ sizeOf(r) = q.new /\ g[q].cursor >= 0 /\ g[q].new = merkleRootForRange(t)[r]
             => g[q].old = merkleRootForRange(t)[<< r[1], r[1] + q.old >>]
      BY <2>5, RebuiltFromRoot
    <2> DEFINE r == << 0, n >>
    <2>8. sizeOf(r) = n /\ r[1] = 0 /\ r[1] + m = m
      BY <1>1 DEF sizeOf
    <2> HIDE DEF r
    <2>9. r \in ranges(Len(t)) /\ sizeOf(r) = s.new /\ g[s].new = merkleRootForRange(t)[r]
      BY <2>3, <2>6, <2>8 DEF r
    <2>10. g[s].old = merkleRootForRange(t)[<< r[1], r[1] + s.old >>]
      BY <2>6, <2>7, <2>9
    <2> QED
      BY <2>4, <2>6, <2>8, <2>10
  <1> QED
    BY <1>2, <1>3, <1>4

\* A later root opens a log's positions to the log's leaves.
LEMMA LaterOpensToItsLeaves ==
    ASSUME NEW P, NEW t \in Seq(P), NEW root \in Hashes(P), NEW n \in Nat,
           NEW i \in Nat, NEW l \in P, i < Len(t),
           SomePathLinks(P, computeMerkleRoot(t), Len(t), root, n),
           SomePathOpens(P, root, n, i, l)
    PROVE  t[i + 1] = l
  <1> DEFINE m == Len(t)
             old == computeMerkleRoot(t)
  <1>0. SomePathLinks(P, old, m, root, n)
    OBVIOUS
  <1>1. m \in Nat /\ m # 0 /\ m > 0
    OBVIOUS
  <1>2. CASE m = n
    <2>1. root = old
      <3> HIDE DEF m, old
      <3> QED
        BY <1>0, <1>1, <1>2, AcceptedLink
    <2> QED
      BY <1>2, <2>1, OpensToItsLeaves
  <1>3. CASE m # n
    <2> DEFINE s == [old |-> m, new |-> n, includeOldRoot |-> TRUE]
    <2>1. PICK path \in Seq(Hashes(P)) : Rebuilds(path, old, m, root, n)
      BY <1>0, <1>1, <1>3, AcceptedLink
    <2>2. m <= n
      BY <1>1, AcceptedLink
    <2>3. << 0, n >> \in ranges(n) /\ Opening(P, root, n, << 0, n >>, i, l)
      BY AcceptedOpening
    <2>4. << 0, m >> \in ranges(m) /\ old = merkleRootForRange(t)[<< 0, m >>] /\ old \in Hashes(P)
      <3>1. Len(t) > 0
        BY <1>1
      <3> QED
        BY <3>1, RootOfTree
    <2> DEFINE g == verifyConsistencySubproof(n, path, old)
    <2>5. g = verifyConsistencySubproof(n, path, old)
      OBVIOUS
    <2>6. /\ s \in States(n) /\ s.old = m /\ s.new = n
          /\ g[s].cursor >= 0 /\ g[s].old = old /\ g[s].new = root
      BY <2>1 DEF Rebuilds
    <2> HIDE DEF g, s, old
    <2>7. \A q \in States(n), r \in ranges(n) :
             /\ sizeOf(r) = q.new /\ g[q].cursor >= 0 /\ r[1] <= i /\ i < r[1] + q.old
             /\ Opening(P, g[q].new, n, r, i, l)
             => Opening(P, g[q].old, n, << r[1], r[1] + q.old >>, i, l)
      BY <2>4, <2>5, OpeningsKept
    <2> DEFINE r == << 0, n >>
    <2>8. sizeOf(r) = n /\ r[1] = 0 /\ r[1] + m = m /\ r[1] <= i /\ i < r[1] + m
      BY <1>1 DEF sizeOf
    <2> HIDE DEF r, m
    <2>9. /\ r \in ranges(n) /\ sizeOf(r) = s.new /\ Opening(P, g[s].new, n, r, i, l)
          /\ r[1] <= i /\ i < r[1] + s.old
      BY <2>3, <2>6, <2>8 DEF r
    <2>10. Opening(P, g[s].old, n, << r[1], r[1] + s.old >>, i, l)
      BY <2>6, <2>7, <2>9
    <2>11. Opening(P, old, n, << 0, m >>, i, l)
      BY <2>6, <2>8, <2>10
    <2>12. inclusionPathPositionsForRange(i, m)[<< 0, m >>] =
              inclusionPathPositionsForRange(i, n)[<< 0, m >>]
      BY <1>1, <2>2, <2>4, PositionsWithin
    <2>13. Opening(P, old, m, << 0, m >>, i, l)
      BY <2>11, <2>12 DEF Opening
    <2>14. Holds(<< 0, m >>, i)
      BY <1>1 DEF Holds, m
    <2> QED
      BY <2>4, <2>13, <2>14, OpeningOfRoot DEF m
  <1> QED
    BY <1>2, <1>3

\* merkle.ts is an accumulator of the kind the decision relies on, for logs
\* and audit paths of any length: the assumption TreeAssumption of WitnessLog
\* with Root, Opens and Consistent those of MerkleLog.  Under its own size a
\* root opens each position to its log's leaf there, and under any other to
\* some leaf of its log (verifyInclusionProof); only its log's prefixes
\* precede it, and every successor opens the log's positions to the log's
\* leaves (verifyConsistencyProof).
THEOREM MerkleTreeSound ==
    /\ \A t \in Seq(Leaf), i \in Nat, l \in Leaf :
          SomePathOpens(Leaf, computeMerkleRoot(t), Len(t), i, l) =>
              i < Len(t) /\ t[i + 1] = l
    /\ \A t \in Seq(Leaf), n, i \in Nat, l \in Leaf :
          SomePathOpens(Leaf, computeMerkleRoot(t), n, i, l) =>
              \E j \in 1 .. Len(t) : t[j] = l
    /\ \A t \in Seq(Leaf), root \in Hashes(Leaf), n \in Nat :
          n <= Len(t) /\ SomePathLinks(Leaf, root, n, computeMerkleRoot(t), Len(t)) =>
              root = computeMerkleRoot(Prefix(t, n))
    /\ \A t \in Seq(Leaf), root \in Hashes(Leaf), n, i \in Nat, l \in Leaf :
          /\ SomePathLinks(Leaf, computeMerkleRoot(t), Len(t), root, n)
          /\ i < Len(t)
          /\ SomePathOpens(Leaf, root, n, i, l)
          => t[i + 1] = l
  <1>1. ASSUME NEW t \in Seq(Leaf), NEW i \in Nat, NEW l \in Leaf,
               SomePathOpens(Leaf, computeMerkleRoot(t), Len(t), i, l)
        PROVE  i < Len(t) /\ t[i + 1] = l
    BY <1>1, OpensToItsLeaves
  <1>2. ASSUME NEW t \in Seq(Leaf), NEW root \in Hashes(Leaf), NEW n \in Nat, n <= Len(t),
               SomePathLinks(Leaf, root, n, computeMerkleRoot(t), Len(t))
        PROVE  root = computeMerkleRoot(Prefix(t, n))
    <2>1. n \in 0 .. Len(t)
      BY <1>2
    <2> QED
      BY <1>2, <2>1, LinksToItsPrefixes DEF Prefix
  <1>3. ASSUME NEW t \in Seq(Leaf), NEW root \in Hashes(Leaf), NEW n \in Nat, NEW i \in Nat,
               NEW l \in Leaf, i < Len(t),
               SomePathLinks(Leaf, computeMerkleRoot(t), Len(t), root, n),
               SomePathOpens(Leaf, root, n, i, l)
        PROVE  t[i + 1] = l
    BY <1>3, LaterOpensToItsLeaves
  <1>4. ASSUME NEW t \in Seq(Leaf), NEW n \in Nat, NEW i \in Nat, NEW l \in Leaf,
               SomePathOpens(Leaf, computeMerkleRoot(t), n, i, l)
        PROVE  \E j \in 1 .. Len(t) : t[j] = l
    BY <1>4, OpensToSomeLeaf
  <1> QED
    BY <1>1, <1>2, <1>3, <1>4

-----------------------------------------------------------------------------
(* The log and its witnesses.                                              *)

USE WitnessAssumption DEF Time, Sizes

\* The head is the log's own at its size.
OfTheLog(h) == h.size <= Len(log) /\ h.root = Root(Prefix(log, h.size))

\* An honest witness's signature stays true of the log as the log grows.
SignedPrefixes == \A h \in heads : h.sigs \ Faulty # {} => OfTheLog(h)

IInv == TypeOK /\ SignedPrefixes

-----------------------------------------------------------------------------
(* Trees and prefixes.                                                     *)

\* A log is a sequence of leaves of bounded length.
LEMMA TreeIsSeq ==
    ASSUME NEW t \in Trees
    PROVE  t \in Seq(Leaf) /\ Len(t) \in 0 .. MaxLog /\ t \in [1 .. Len(t) -> Leaf]
BY DEF Trees

\* A sequence of bounded length is a log.
LEMMA SeqIsTree ==
    ASSUME NEW t \in Seq(Leaf), Len(t) <= MaxLog
    PROVE  t \in Trees
<1>1. t \in [1 .. Len(t) -> Leaf] /\ Len(t) \in 0 .. MaxLog
    OBVIOUS
<1> QED BY <1>1 DEF Trees

\* A prefix of a log is a log, with the leaves of the log.
LEMMA PrefixOfTree ==
    ASSUME NEW t \in Trees, NEW n \in 0 .. Len(t)
    PROVE  /\ Prefix(t, n) \in Trees
           /\ Len(Prefix(t, n)) = n
           /\ \A i \in 1 .. n : Prefix(t, n)[i] = t[i]
<1>1. t \in Seq(Leaf) /\ Len(t) \in 0 .. MaxLog
    BY TreeIsSeq
<1>2. /\ SubSeq(t, 1, n) \in Seq(Leaf)
      /\ Len(SubSeq(t, 1, n)) = n
      /\ \A i \in 1 .. n : SubSeq(t, 1, n)[i] = t[i]
    BY <1>1
<1>3. Len(SubSeq(t, 1, n)) <= MaxLog
    BY <1>1, <1>2
<1>4. SubSeq(t, 1, n) \in Trees
    BY <1>2, <1>3, SeqIsTree, Zenon
<1> QED BY <1>2, <1>4 DEF Prefix

\* Appending keeps the prefixes a log already has.
LEMMA AppendKeepsPrefix ==
    ASSUME NEW t \in Trees, NEW l \in Leaf, NEW n \in 0 .. Len(t)
    PROVE  Prefix(Append(t, l), n) = Prefix(t, n)
<1>1. t \in Seq(Leaf)
    BY TreeIsSeq
<1> QED BY <1>1 DEF Prefix

-----------------------------------------------------------------------------
(* Type correctness and what an honest signature means.                    *)

\* Every head a witness is asked to sign is a root with a size.
LEMMA OfferedIsView ==
    ASSUME TypeOK, NEW v \in Offered
    PROVE  v.root \in Roots /\ v.size \in Sizes
<1>1. CASE v \in Forgeable
    BY <1>1 DEF View
<1>2. CASE \E n \in 0 .. Len(log) : v = [root |-> Root(Prefix(log, n)), size |-> n]
    <2>1. PICK n \in 0 .. Len(log) : v = [root |-> Root(Prefix(log, n)), size |-> n]
        BY <1>2
    <2>2. log \in Trees /\ Len(log) \in 0 .. MaxLog
        BY TreeIsSeq DEF TypeOK
    <2>3. Prefix(log, n) \in Trees
        BY <2>2, PrefixOfTree
    <2> QED BY <2>1, <2>2, <2>3 DEF Roots
<1> QED BY <1>1, <1>2 DEF Offered

\* Every initial state satisfies the invariant.
LEMMA InitIInv == Init => IInv
<1>1. SUFFICES ASSUME Init PROVE IInv
    OBVIOUS
<1>2. << >> \in Seq(Leaf) /\ Len(<< >>) <= MaxLog
    OBVIOUS
<1>3. << >> \in Trees
    BY <1>2, SeqIsTree, Zenon
<1> QED BY <1>1, <1>3 DEF Init, IInv, TypeOK, SignedPrefixes

\* Every step preserves the invariant.
LEMMA NextIInv == IInv /\ [Next]_vars => IInv'
<1>1. SUFFICES ASSUME IInv, [Next]_vars PROVE IInv'
    OBVIOUS
<1> USE <1>1
<1>2. log \in Trees /\ log \in Seq(Leaf) /\ Len(log) \in 0 .. MaxLog
    BY TreeIsSeq DEF IInv, TypeOK
<1>3. CASE \E l \in Leaf : AppendLeaf(l)
    <2>1. PICK l \in Leaf : AppendLeaf(l)
        BY <1>3
    <2>2. log' \in Seq(Leaf) /\ Len(log') = Len(log) + 1 /\ heads' = heads /\ now' = now
        BY <1>2, <2>1 DEF AppendLeaf
    <2>3. log' \in Trees
        <3>1. Len(log') <= MaxLog
            BY <1>2, <2>1, <2>2 DEF AppendLeaf
        <3> QED BY <2>2, <3>1, SeqIsTree, Zenon
    <2>4. TypeOK'
        BY <2>2, <2>3 DEF IInv, TypeOK
    <2>5. ASSUME NEW h \in heads, h.sigs \ Faulty # {}
          PROVE  h.size <= Len(log') /\ h.root = Root(Prefix(log', h.size))
        <3>1. h.size <= Len(log) /\ h.root = Root(Prefix(log, h.size))
            BY <2>5 DEF IInv, SignedPrefixes, OfTheLog
        <3>2. h.size \in 0 .. Len(log)
            BY <1>2, <3>1 DEF IInv, TypeOK, Checkpoint
        <3>3. Prefix(log', h.size) = Prefix(log, h.size)
            BY <1>2, <2>1, <3>2, AppendKeepsPrefix DEF AppendLeaf
        <3> QED BY <1>2, <2>2, <3>1, <3>2, <3>3
    <2> QED BY <2>2, <2>4, <2>5 DEF IInv, SignedPrefixes, OfTheLog
<1>4. CASE \E w \in Witnesses, v \in Offered, time \in Time :
               createWitnessCheckpoint(w, v, time)
    <2>1. PICK w \in Witnesses, v \in Offered, time \in Time :
               createWitnessCheckpoint(w, v, time)
        BY <1>4
    <2> DEFINE g == [root |-> v.root, size |-> v.size, time |-> time, sigs |-> {w},
                     shadowed |-> {}]
    <2>2. heads' = heads \cup {g} /\ log' = log /\ now' = now /\ MaySign(w, v, time)
        BY <2>1 DEF createWitnessCheckpoint
    <2>3. g \in Checkpoint
        BY OfferedIsView DEF IInv, Checkpoint
    <2>4. g.sigs \ Faulty # {} => g.size <= Len(log) /\ g.root = Root(Prefix(log, g.size))
        BY <2>2 DEF MaySign
    <2>5. TypeOK'
        BY <2>2, <2>3 DEF IInv, TypeOK
    <2> QED BY <2>2, <2>4, <2>5 DEF IInv, SignedPrefixes, OfTheLog
<1>5. CASE \E w \in Witnesses, h \in heads : Cosign(w, h)
    <2>1. PICK w \in Witnesses, h \in heads : Cosign(w, h)
        BY <1>5
    <2> DEFINE g == [h EXCEPT !.sigs = @ \cup {w}]
    <2>2. /\ heads' = (heads \ {h}) \cup {g}
          /\ log' = log
          /\ now' = now
          /\ MaySign(w, [root |-> h.root, size |-> h.size], h.time)
        BY <2>1 DEF Cosign
    <2>3. h \in Checkpoint
        BY DEF IInv, TypeOK
    <2>4. /\ g \in Checkpoint
          /\ g.root = h.root /\ g.size = h.size /\ g.sigs = h.sigs \cup {w}
        BY <2>3 DEF Checkpoint
    <2> HIDE DEF g
    <2>5. ASSUME g.sigs \ Faulty # {}
          PROVE  g.size <= Len(log) /\ g.root = Root(Prefix(log, g.size))
        <3>1. CASE h.sigs \ Faulty # {}
            BY <2>4, <3>1 DEF IInv, SignedPrefixes, OfTheLog
        <3>2. CASE w \notin Faulty
            BY <2>2, <2>4, <3>2 DEF MaySign
        <3> QED BY <2>4, <2>5, <3>1, <3>2
    <2>6. TypeOK'
        BY <2>2, <2>4 DEF IInv, TypeOK
    <2> QED BY <2>2, <2>5, <2>6 DEF IInv, SignedPrefixes, OfTheLog
<1>8. CASE \E w \in Witnesses, h \in heads : Shadow(w, h)
    <2>1. PICK w \in Witnesses, h \in heads : Shadow(w, h)
        BY <1>8
    <2> DEFINE g == [h EXCEPT !.shadowed = @ \cup {w}]
    <2>2. heads' = (heads \ {h}) \cup {g} /\ log' = log /\ now' = now
        BY <2>1 DEF Shadow
    <2>3. h \in Checkpoint
        BY DEF IInv, TypeOK
    <2>4. /\ g \in Checkpoint
          /\ g.root = h.root /\ g.size = h.size /\ g.sigs = h.sigs
        BY <2>3 DEF Checkpoint
    <2> HIDE DEF g
    <2>5. TypeOK'
        BY <2>2, <2>4 DEF IInv, TypeOK
    <2> QED BY <2>2, <2>4, <2>5 DEF IInv, SignedPrefixes, OfTheLog
<1>6. CASE Tick
    BY <1>6 DEF Tick, IInv, TypeOK, SignedPrefixes, OfTheLog
<1>7. CASE UNCHANGED vars
    BY <1>7 DEF vars, IInv, TypeOK, SignedPrefixes, OfTheLog
<1> QED BY <1>3, <1>4, <1>5, <1>6, <1>7, <1>8 DEF Next

\* The log, the clock and the heads in circulation keep their types, and an
\* honest signature stays true of the log.
THEOREM TypeCorrect == Spec => []TypeOK
<1>1. IInv => TypeOK
    BY DEF IInv
<1> QED BY <1>1, InitIInv, NextIInv, PTL DEF Spec

\* However the log grows, the proofs merkle.ts generates for it are accepted:
\* the inclusion of each payload and the consistency with each prefix.
THEOREM GeneratedProofsVerifyAlways == Spec => []GeneratedProofsVerify
<1>1. TypeOK => GeneratedProofsVerify
    <2>1. SUFFICES ASSUME TypeOK, NEW n \in 0 .. Len(log)
                   PROVE  /\ verifyConsistencyProof(
                                 computeMerkleRoot(Prefix(log, n)),
                                 computeMerkleRoot(log), getConsistencyProof(n, log))
                          /\ n > 0 => verifyInclusionProof(
                                 log[n], getInclusionProof(n - 1, log),
                                 computeMerkleRoot(log))
        BY DEF GeneratedProofsVerify
    <2>2. log \in Seq(Leaf)
        BY <2>1, TreeIsSeq DEF TypeOK
    <2>3. verifyConsistencyProof(computeMerkleRoot(Prefix(log, n)),
              computeMerkleRoot(log), getConsistencyProof(n, log))
        BY <2>2, GeneratedConsistencyVerifies DEF Prefix
    <2>4. ASSUME n > 0
          PROVE  verifyInclusionProof(log[n], getInclusionProof(n - 1, log),
                                      computeMerkleRoot(log))
        <3>1. n - 1 \in Nat /\ n - 1 < Len(log) /\ (n - 1) + 1 = n
            BY <2>2, <2>4
        <3>2. verifyInclusionProof(log[(n - 1) + 1], getInclusionProof(n - 1, log),
                                   computeMerkleRoot(log))
            BY <2>2, <3>1, GeneratedInclusionVerifies
        <3> QED BY <3>1, <3>2
    <2> QED BY <2>3, <2>4
<1> QED BY <1>1, TypeCorrect, PTL

-----------------------------------------------------------------------------
(* Fraud proofs.                                                           *)

\* A witness whose signature is valid signed the head.
LEMMA ValidSigned ==
    ASSUME NEW h, NEW w \in validWitnesses(h)
    PROVE  w \in h.sigs
BY DEF validWitnesses

\* In the invariant's states only faulty witnesses are accused.
LEMMA InvNoFalseAccusation == IInv => NoFalseAccusation
<1>1. SUFFICES ASSUME IInv, NEW w \in Witnesses, NEW a \in heads, NEW b \in heads,
                      verifySplitViewFraudProof(w, a, b), w \notin Faulty
               PROVE  FALSE
    BY DEF NoFalseAccusation
<1>2. w \in a.sigs /\ w \in b.sigs
    BY <1>1, ValidSigned DEF verifySplitViewFraudProof, witnessSignatureVerifies
<1>3. OfTheLog(a) /\ OfTheLog(b)
    BY <1>1, <1>2 DEF IInv, SignedPrefixes
<1> QED BY <1>1, <1>3 DEF OfTheLog, verifySplitViewFraudProof

\* No fraud proof ever verifies against a witness that signs only the log.
THEOREM NoFalseAccusationAlways == Spec => []NoFalseAccusation
BY InitIInv, NextIInv, InvNoFalseAccusation, PTL DEF Spec

\* The valid witnesses of a head are finitely many of the witnesses.
LEMMA ValidFinite ==
    ASSUME NEW h \in Checkpoint
    PROVE  /\ validWitnesses(h) \subseteq Witnesses
           /\ IsFiniteSet(validWitnesses(h))
           /\ Cardinality(validWitnesses(h)) \in Nat
<1>1. validWitnesses(h) \subseteq Witnesses
    BY DEF validWitnesses, Checkpoint
<1>2. IsFiniteSet(validWitnesses(h))
    BY <1>1, FS_Subset
<1> QED BY <1>1, <1>2, FS_CardinalityType

\* Two majorities of the witnesses share one.
LEMMA MajoritiesMeet ==
    ASSUME 2 * Quorum > Cardinality(Witnesses),
           NEW A \in SUBSET Witnesses, NEW B \in SUBSET Witnesses,
           Cardinality(A) >= Quorum, Cardinality(B) >= Quorum
    PROVE  A \cap B # {}
<1>1. SUFFICES ASSUME A \cap B = {} PROVE FALSE
    OBVIOUS
<1>2. IsFiniteSet(A) /\ IsFiniteSet(B)
    BY FS_Subset
<1>3. /\ Cardinality(A) \in Nat
      /\ Cardinality(B) \in Nat
      /\ Cardinality(Witnesses) \in Nat
      /\ Cardinality(A \cup B) \in Nat
    BY <1>2, FS_CardinalityType, FS_Union
<1>4. Cardinality(A \cup B) = Cardinality(A) + Cardinality(B) - Cardinality(A \cap B)
    BY <1>2, FS_Union
<1>5. Cardinality(A \cap B) = 0
    BY <1>1, FS_EmptySet
<1>6. Cardinality(A \cup B) <= Cardinality(Witnesses)
    <2>1. A \cup B \in SUBSET Witnesses
        OBVIOUS
    <2> QED BY <2>1, FS_Subset
<1> QED BY <1>3, <1>4, <1>5, <1>6

\* In the invariant's states every federation fork has a culprit.
LEMMA InvForksAreAttributed == IInv => ForksAreAttributed
<1>1. SUFFICES ASSUME IInv, 2 * Quorum > Cardinality(Witnesses),
                      NEW a \in heads, NEW b \in heads,
                      verifyFederationSplitViewProof(a, b)
               PROVE  \E w \in Faulty : verifySplitViewFraudProof(w, a, b)
    BY DEF ForksAreAttributed
<1>2. a \in Checkpoint /\ b \in Checkpoint
    BY <1>1 DEF IInv, TypeOK
<1> DEFINE Signers(h) == {w \in h.sigs : witnessSignatureVerifies(h, w)}
<1>3. Signers(a) \in SUBSET Witnesses /\ Signers(b) \in SUBSET Witnesses
    BY <1>2 DEF Checkpoint
<1>4. PICK w \in Witnesses : witnessSignatureVerifies(a, w) /\ witnessSignatureVerifies(b, w)
    <2>1. /\ Cardinality(Signers(a)) >= Quorum
          /\ Cardinality(Signers(b)) >= Quorum
        BY <1>1 DEF verifyFederationSplitViewProof, countValidWitnesses
    <2>2. Signers(a) \cap Signers(b) # {}
        <3> HIDE DEF Signers
        <3> QED BY <1>1, <1>3, <2>1, MajoritiesMeet, Zenon
    <2> QED BY <1>3, <2>2
<1>5. verifySplitViewFraudProof(w, a, b)
    BY <1>1, <1>4 DEF verifyFederationSplitViewProof, verifySplitViewFraudProof
<1>6. w \in Faulty
    BY <1>1, <1>5, InvNoFalseAccusation DEF NoFalseAccusation
<1> QED BY <1>5, <1>6

\* With majority quorums a fork always convicts a faulty witness by itself.
THEOREM ForksAreAttributedAlways == Spec => []ForksAreAttributed
BY InitIInv, NextIInv, InvForksAreAttributed, PTL DEF Spec

-----------------------------------------------------------------------------
(* The ordering verdict.                                                   *)

\* One checkpoint is shown to be a prefix of the other.
Tied(a, b) ==
    \/ b.size <= a.size /\ Consistent(b.root, b.size, a.root, a.size)
    \/ a.size <= b.size /\ Consistent(a.root, a.size, b.root, b.size)

\* A head of the log opens to the log's leaves, and the other head opens to
\* them at every position up to one the first opens.
LEMMA HonestSide ==
    ASSUME IInv, NEW a \in Checkpoint, NEW b \in Checkpoint, OfTheLog(a),
           NEW i \in Sizes, NEW j \in Sizes, NEW x \in Leaf, NEW y \in Leaf,
           Opens(a.root, a.size, i, x), Opens(b.root, b.size, j, y), Tied(a, b)
    PROVE  Commits(x, i) /\ (j <= i => Commits(y, j))
<1> DEFINE t == Prefix(log, a.size)
<1>1. log \in Trees /\ Len(log) \in 0 .. MaxLog
    BY TreeIsSeq DEF IInv, TypeOK
<1>2. /\ a.size \in Sizes /\ b.size \in Sizes
      /\ a.root \in Roots /\ b.root \in Roots
    BY DEF Checkpoint
<1>3. a.size \in 0 .. Len(log) /\ a.root = Root(t)
    BY <1>1, <1>2 DEF OfTheLog
<1>4. /\ t \in Trees
      /\ Len(t) = a.size
      /\ \A n \in 1 .. a.size : t[n] = log[n]
    BY <1>1, <1>3, PrefixOfTree
<1> HIDE DEF t
<1>5. i < a.size /\ t[i + 1] = x
    BY <1>3, <1>4, TreeAssumption
<1>6. Commits(x, i)
    BY <1>1, <1>3, <1>4, <1>5 DEF Commits
<1>7. ASSUME j <= i PROVE Commits(y, j)
    <2>1. CASE b.size <= a.size /\ Consistent(b.root, b.size, a.root, a.size)
        <3> DEFINE u == Prefix(t, b.size)
        <3>1. b.root = Root(u)
            BY <1>2, <1>3, <1>4, <2>1, TreeAssumption
        <3>2. b.size \in 0 .. Len(t)
            BY <1>2, <1>4, <2>1
        <3>3. /\ u \in Trees
              /\ Len(u) = b.size
              /\ \A n \in 1 .. b.size : u[n] = t[n]
            BY <1>4, <3>2, PrefixOfTree
        <3> HIDE DEF u
        <3>4. j < b.size /\ u[j + 1] = y
            BY <3>1, <3>3, TreeAssumption
        <3> QED BY <1>1, <1>2, <1>3, <1>4, <2>1, <3>3, <3>4 DEF Commits
    <2>2. CASE a.size <= b.size /\ Consistent(a.root, a.size, b.root, b.size)
        <3>1. j < a.size
            BY <1>2, <1>5, <1>7
        <3>2. t[j + 1] = y
            BY <1>2, <1>3, <1>4, <2>2, <3>1, TreeAssumption
        <3> QED BY <1>1, <1>3, <1>4, <3>1, <3>2 DEF Commits
    <2> QED BY <2>1, <2>2 DEF Tied
<1> QED BY <1>6, <1>7

\* A head of the log opens to payloads of the log only, under any size.
LEMMA HonestMember ==
    ASSUME IInv, NEW a \in Checkpoint, OfTheLog(a),
           NEW n \in Sizes, NEW i \in Sizes, NEW x \in Leaf, Opens(a.root, n, i, x)
    PROVE  Committed(x)
<1> DEFINE t == Prefix(log, a.size)
<1>1. log \in Trees /\ Len(log) \in 0 .. MaxLog
    BY TreeIsSeq DEF IInv, TypeOK
<1>2. a.size \in 0 .. Len(log) /\ a.root = Root(t)
    BY <1>1 DEF OfTheLog, Checkpoint
<1>3. /\ t \in Trees
      /\ Len(t) = a.size
      /\ \A m \in 1 .. a.size : t[m] = log[m]
    BY <1>1, <1>2, PrefixOfTree
<1> HIDE DEF t
<1>4. PICK m \in 1 .. Len(t) : t[m] = x
    BY <1>2, <1>3, TreeAssumption
<1>5. m \in 1 .. Len(log) /\ log[m] = x
    BY <1>1, <1>2, <1>3, <1>4
<1> QED BY <1>5 DEF Committed

\* What a proof under a checkpoint shows.
LEMMA ProofMeans ==
    ASSUME NEW h, NEW x \in proofsUnder(h)
    PROVE  /\ x.checkpoint = h
           /\ x.payload \in Leaf /\ x.size \in Sizes /\ x.index \in Sizes
           /\ included(x)
           /\ Opens(h.root, x.size, x.index, x.payload)
BY DEF proofsUnder, included

\* What an ordering verdict has checked.
LEMMA VerdictMeans ==
    ASSUME NEW a, NEW b, NEW x \in proofsUnder(a), NEW y \in proofsUnder(b),
           NEW k \in Keys, NEW rk \in Keys,
           standing(k, x, y, rk, {}) \in OrderVerdicts
    PROVE  /\ ~(countQuorumWitnesses(a) < Quorum)
           /\ ~(countQuorumWitnesses(b) < Quorum)
           /\ y.payload \in RecordsOf[k]
           /\ bound(a, b)
           /\ standing(k, x, y, rk, {}) = "valid_pre_revocation" => x.index < y.index
<1>1. x.checkpoint = a /\ y.checkpoint = b
    BY ProofMeans
<1>2. standing(k, x, y, rk, {}) \in {"valid_pre_revocation", "rejected_post_revocation"}
    BY DEF OrderVerdicts
<1>3. /\ ~(countQuorumWitnesses(a) < Quorum)
      /\ ~(countQuorumWitnesses(b) < Quorum)
      /\ isRevocationRecord(y.payload, k)
      /\ bound(a, b)
      /\ standing(k, x, y, rk, {}) = "valid_pre_revocation" => x.index < y.index
    BY <1>1, <1>2 DEF standing
<1> QED BY <1>3 DEF isRevocationRecord

\* Whichever way the verdict tied them, one head is a prefix of the other.
LEMMA BoundTies ==
    ASSUME NEW a \in Checkpoint, NEW b \in Checkpoint, bound(a, b)
    PROVE  Tied(a, b) /\ Tied(b, a)
<1>1. a.size \in Int /\ b.size \in Int
    BY DEF Checkpoint
<1> QED BY <1>1 DEF bound, Tied

\* A head with a valid honest signature is the log's.
LEMMA HonestIsOfTheLog ==
    ASSUME IInv, NEW h \in heads, honestlySigned(h)
    PROVE  OfTheLog(h)
<1>1. PICK w : w \in validWitnesses(h) /\ w \notin Faulty
    BY DEF honestlySigned
<1>2. w \in h.sigs
    BY <1>1, ValidSigned
<1> QED BY <1>1, <1>2 DEF IInv, SignedPrefixes

\* What the honest signatures on two tied heads say of a leaf under each.
Vouched(a, b, x, y) ==
    /\ honestlySigned(a) => Committed(x.payload)
    /\ honestlySigned(b) => Committed(y.payload)
    /\ x.size = a.size /\ y.size = b.size =>
          /\ honestlySigned(a) =>
                /\ Commits(x.payload, x.index)
                /\ y.index <= x.index => Commits(y.payload, y.index)
          /\ honestlySigned(b) =>
                /\ Commits(y.payload, y.index)
                /\ x.index <= y.index => Commits(x.payload, x.index)

\* In the invariant's states an ordering verdict is vouched for.
LEMMA VerdictVouched ==
    ASSUME IInv, NEW a \in heads, NEW b \in heads,
           NEW x \in proofsUnder(a), NEW y \in proofsUnder(b), bound(a, b)
    PROVE  Vouched(a, b, x, y)
<1>1. a \in Checkpoint /\ b \in Checkpoint
    BY DEF IInv, TypeOK
<1>2. /\ x.payload \in Leaf /\ x.size \in Sizes /\ x.index \in Sizes
      /\ y.payload \in Leaf /\ y.size \in Sizes /\ y.index \in Sizes
      /\ Opens(a.root, x.size, x.index, x.payload)
      /\ Opens(b.root, y.size, y.index, y.payload)
    BY ProofMeans
<1>3. Tied(a, b) /\ Tied(b, a)
    BY <1>1, BoundTies
<1>4. ASSUME honestlySigned(a)
      PROVE  /\ Committed(x.payload)
             /\ x.size = a.size /\ y.size = b.size =>
                   /\ Commits(x.payload, x.index)
                   /\ y.index <= x.index => Commits(y.payload, y.index)
    <2>1. OfTheLog(a)
        BY <1>4, HonestIsOfTheLog
    <2>2. Committed(x.payload)
        BY <1>1, <1>2, <2>1, HonestMember
    <2>3. ASSUME x.size = a.size, y.size = b.size
          PROVE  /\ Commits(x.payload, x.index)
                 /\ y.index <= x.index => Commits(y.payload, y.index)
        <3>1. Opens(a.root, a.size, x.index, x.payload) /\ Opens(b.root, b.size, y.index, y.payload)
            BY <1>2, <2>3
        <3> QED BY <1>1, <1>2, <1>3, <2>1, <3>1, HonestSide, Zenon
    <2> QED BY <2>2, <2>3
<1>5. ASSUME honestlySigned(b)
      PROVE  /\ Committed(y.payload)
             /\ x.size = a.size /\ y.size = b.size =>
                   /\ Commits(y.payload, y.index)
                   /\ x.index <= y.index => Commits(x.payload, x.index)
    <2>1. OfTheLog(b)
        BY <1>5, HonestIsOfTheLog
    <2>2. Committed(y.payload)
        BY <1>1, <1>2, <2>1, HonestMember
    <2>3. ASSUME x.size = a.size, y.size = b.size
          PROVE  /\ Commits(y.payload, y.index)
                 /\ x.index <= y.index => Commits(x.payload, x.index)
        <3>1. Opens(a.root, a.size, x.index, x.payload) /\ Opens(b.root, b.size, y.index, y.payload)
            BY <1>2, <2>3
        <3> QED BY <1>1, <1>2, <1>3, <2>1, <3>1, HonestSide, Zenon
    <2> QED BY <2>2, <2>3
<1> QED BY <1>4, <1>5, Zenon DEF Vouched

\* In the invariant's states the ordering verdicts are the log's.
LEMMA InvVerdictsFollowTheLog == IInv => VerdictsFollowTheLog
<1>1. SUFFICES ASSUME IInv, NEW a \in authenticated, NEW b \in authenticated,
                      NEW x \in proofsUnder(a), NEW y \in proofsUnder(b),
                      NEW k \in Keys, NEW rk \in Keys,
                      standing(k, x, y, rk, {}) \in OrderVerdicts
               PROVE  Vouched(a, b, x, y)
    BY Zenon DEF VerdictsFollowTheLog, Vouched
<1>2. a \in heads /\ b \in heads
    BY DEF authenticated
<1>3. bound(a, b)
    BY <1>1, VerdictMeans
<1> QED BY <1>1, <1>2, <1>3, VerdictVouched

\* Whatever size and index a proof names, an honest signature vouches that the
\* leaf behind an ordering verdict is in the log; where both proofs name their
\* checkpoints' sizes, one on the checkpoint of the later position vouches for
\* both positions, whatever the other witnesses sign.
THEOREM VerdictsFollowTheLogAlways == Spec => []VerdictsFollowTheLog
BY InitIInv, NextIInv, InvVerdictsFollowTheLog, PTL DEF Spec

\* A verdict for the receipt rests on leaves of the log: the receipt's and a
\* revocation record of its key.  Where the proofs name the sizes of their
\* checkpoints, both are where the proofs say, the receipt first.
ValidRestsOnTheLog ==
    \A a, b \in heads : \A x \in proofsUnder(a), y \in proofsUnder(b), k, rk \in Keys :
        standing(k, x, y, rk, {}) = "valid_pre_revocation" =>
            /\ Committed(x.payload)
            /\ Committed(y.payload) /\ y.payload \in RecordsOf[k]
            /\ x.size = a.size /\ y.size = b.size =>
                  /\ x.index < y.index
                  /\ Commits(x.payload, x.index)
                  /\ Commits(y.payload, y.index)

\* A quorum larger than the faulty witnesses has an honest one.
LEMMA QuorumHasHonest ==
    ASSUME Quorum > Cardinality(Faulty), NEW h \in Checkpoint,
           ~(countQuorumWitnesses(h) < Quorum)
    PROVE  honestlySigned(h)
<1>1. SUFFICES ASSUME validWitnesses(h) \subseteq Faulty PROVE FALSE
    BY DEF honestlySigned
<1>2. IsFiniteSet(Faulty)
    BY FS_Subset
<1>3. Cardinality(validWitnesses(h)) <= Cardinality(Faulty)
    BY <1>1, <1>2, FS_Subset
<1>4. Cardinality(validWitnesses(h)) \in Nat /\ Cardinality(Faulty) \in Nat
    BY <1>2, ValidFinite, FS_CardinalityType
<1> QED BY <1>3, <1>4 DEF countQuorumWitnesses

\* With a quorum above the number of faulty witnesses, the receipt judged valid
\* and a revocation record of its key are both in the log, whatever sizes and
\* indices their proofs name.  The receipt is the earlier one where the proofs
\* name the sizes the witnesses signed; enforceAuthenticatedLedgerRevocation
\* does not compare them, and without that the order is not the log's
\* (ValidPrecedesRevocation fails).
THEOREM HonestQuorumDecides ==
    Quorum > Cardinality(Faulty) => (Spec => []ValidRestsOnTheLog)
<1>1. SUFFICES ASSUME Quorum > Cardinality(Faulty) PROVE Spec => []ValidRestsOnTheLog
    OBVIOUS
<1>2. IInv => ValidRestsOnTheLog
    <2>1. SUFFICES ASSUME IInv, NEW a \in heads, NEW b \in heads,
                          NEW x \in proofsUnder(a), NEW y \in proofsUnder(b),
                          NEW k \in Keys, NEW rk \in Keys,
                          standing(k, x, y, rk, {}) = "valid_pre_revocation"
                   PROVE  /\ Committed(x.payload)
                          /\ Committed(y.payload) /\ y.payload \in RecordsOf[k]
                          /\ x.size = a.size /\ y.size = b.size =>
                                /\ x.index < y.index
                                /\ Commits(x.payload, x.index)
                                /\ Commits(y.payload, y.index)
        BY Zenon DEF ValidRestsOnTheLog
    <2>2. a \in Checkpoint /\ b \in Checkpoint
        BY <2>1 DEF IInv, TypeOK
    <2>3. standing(k, x, y, rk, {}) \in OrderVerdicts
        BY <2>1 DEF OrderVerdicts
    <2>4. /\ ~(countQuorumWitnesses(a) < Quorum)
          /\ ~(countQuorumWitnesses(b) < Quorum)
          /\ y.payload \in RecordsOf[k] /\ bound(a, b) /\ x.index < y.index
        BY <2>1, <2>3, VerdictMeans, Zenon
    <2>5. honestlySigned(a) /\ honestlySigned(b)
        BY <1>1, <2>2, <2>4, QuorumHasHonest, Zenon
    <2>6. Vouched(a, b, x, y)
        BY <2>1, <2>4, VerdictVouched, Zenon
    <2> QED BY <2>4, <2>5, <2>6, Zenon DEF Vouched
<1> QED BY <1>2, InitIInv, NextIInv, PTL DEF Spec

=============================================================================
