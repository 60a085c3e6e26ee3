----------------------- MODULE EpochCheckpointProofs -----------------------
(***************************************************************************)
(* Proofs about EpochCheckpoint, for any set of invocations and tenants,   *)
(* any order of the partitions, any page size and any bound, and about     *)
(* CheckpointTree, for any lists of heads.                                 *)
(***************************************************************************)
EXTENDS EpochCheckpoint, CheckpointTree, TLAPS, FiniteSetTheorems,
        FunctionTheorems, WellFoundedInduction

-----------------------------------------------------------------------------
(* Induction over the naturals, with a set in the place of the predicate.  *)

\* Every set of naturals that is not empty has a least element.
LEMMA LeastNat ==
    ASSUME NEW T \in SUBSET Nat, T # {}
    PROVE  \E m \in T : \A k \in T : m <= k
  <1> DEFINE R == OpToRel(<, Nat)
  <1>1. IsWellFoundedOn(R, Nat)
    BY NatLessThanWellFounded
  <1>2. \A x, y \in Nat : x < y => << x, y >> \in R
    BY DEF OpToRel
  <1> HIDE DEF R
  <1>3. PICK x \in T : \A y \in T : ~ (<< y, x >> \in R)
    BY <1>1, WFMin
  <1>4. ASSUME NEW k \in T PROVE x <= k
    <2>1. ~ (k < x)
      BY <1>2, <1>3
    <2> QED
      BY <2>1
  <1> QED
    BY <1>4

\* A set of naturals that has 0 and is closed under successor has them all.
LEMMA NatSetInduction ==
    ASSUME NEW T \in SUBSET Nat, 0 \in T, \A n \in T : n + 1 \in T
    PROVE  \A n \in Nat : n \in T
  <1>1. SUFFICES ASSUME Nat \ T # {} PROVE FALSE
    OBVIOUS
  <1>2. PICK m \in Nat \ T : \A k \in Nat \ T : m <= k
    BY <1>1, LeastNat
  <1> QED
    BY <1>2

-----------------------------------------------------------------------------
(* The items in front of a partition.                                      *)

\* g gives the partial sums of p up to m.
Sums(g, p, m) ==
    /\ g \in [0 .. m -> Nat]
    /\ g[0] = 0
    /\ \A n \in 1 .. m : g[n] = g[n - 1] + p[n]

\* Partial sums exist, up to any length.
LEMMA SumsExist ==
    ASSUME NEW p \in [Nat -> Nat]
    PROVE  \A m \in Nat : \E g : Sums(g, p, m)
  <1> DEFINE T == {m \in Nat : \E g : Sums(g, p, m)}
  <1>1. 0 \in T
    <2>1. Sums([n \in 0 .. 0 |-> 0], p, 0)
      BY DEF Sums
    <2> QED
      BY <2>1
  <1>2. ASSUME NEW m \in Nat, NEW g, Sums(g, p, m)
        PROVE  \E h : Sums(h, p, m + 1)
    <2> DEFINE h == [n \in 0 .. m + 1 |-> IF n = m + 1 THEN g[m] + p[m + 1] ELSE g[n]]
    <2>1. /\ h \in [0 .. m + 1 -> Nat]
          /\ \A n \in 0 .. m : h[n] = g[n]
          /\ h[m + 1] = g[m] + p[m + 1]
      <3>0. g \in [0 .. m -> Nat]
        BY <1>2 DEF Sums
      <3>1. /\ \A n \in 0 .. m : g[n] \in Nat
            /\ m \in 0 .. m /\ p[m + 1] \in Nat
        <4>1. \A n \in 0 .. m : g[n] \in Nat
          BY <3>0
        <4>2. m \in 0 .. m /\ m + 1 \in Nat
          OBVIOUS
        <4>3. p[m + 1] \in Nat
          BY <4>2
        <4> QED
          BY <4>1, <4>2, <4>3
      <3>2. g[m] + p[m + 1] \in Nat
        BY <3>1
      <3>3. \A n \in 0 .. m + 1 : n = m + 1 \/ n \in 0 .. m
        OBVIOUS
      <3>4. h \in [0 .. m + 1 -> Nat]
        BY <3>1, <3>2, <3>3
      <3>5. \A n \in 0 .. m : n \in 0 .. m + 1 /\ n # m + 1
        OBVIOUS
      <3>6. m + 1 \in 0 .. m + 1
        OBVIOUS
      <3> QED
        BY <3>4, <3>5, <3>6
    <2> HIDE DEF h
    <2>2. ASSUME NEW n \in 1 .. m + 1 PROVE h[n] = h[n - 1] + p[n]
      <3>1. CASE n = m + 1
        BY <2>1, <3>1
      <3>2. CASE n \in 1 .. m
        <4>1. g[n] = g[n - 1] + p[n]
          BY <1>2, <3>2 DEF Sums
        <4>2. n \in 0 .. m /\ n - 1 \in 0 .. m
          BY <3>2
        <4> QED
          BY <2>1, <4>1, <4>2
      <3> QED
        BY <3>1, <3>2
    <2>3. h[0] = 0
      BY <1>2, <2>1 DEF Sums
    <2>4. Sums(h, p, m + 1)
      BY <2>1, <2>2, <2>3 DEF Sums
    <2> QED
      BY <2>4
  <1>3. \A m \in T : m + 1 \in T
    BY <1>2
  <1> HIDE DEF T
  <1>4. T \in SUBSET Nat
    BY DEF T
  <1>5. \A m \in Nat : m \in T
    BY <1>1, <1>3, <1>4, NatSetInduction
  <1> QED
    BY <1>5 DEF T

\* The recursion of itemsUpTo.
LEMMA ItemsUpTo ==
    ASSUME NEW lengths \in Chains
    PROVE  /\ itemsUpTo(lengths) \in [0 .. Len(ScanOrder) -> Nat]
           /\ itemsUpTo(lengths)[0] = 0
           /\ \A n \in 1 .. Len(ScanOrder) :
                 /\ partitionItems(lengths[ScanOrder[n]]) \in Nat
                 /\ itemsUpTo(lengths)[n] =
                       itemsUpTo(lengths)[n - 1] + partitionItems(lengths[ScanOrder[n]])
  <1> DEFINE L == Len(ScanOrder)
             items(n) == partitionItems(lengths[ScanOrder[n]])
             p == [n \in Nat |-> IF n \in 1 .. L THEN items(n) ELSE 0]
             Eq(g) == g = [n \in 0 .. L |-> IF n = 0 THEN 0 ELSE g[n - 1] + items(n)]
  <1>1. L \in Nat
    BY CheckpointAssumption
  <1>2. \A n \in 1 .. L : items(n) \in Nat
    <2> SUFFICES ASSUME NEW n \in 1 .. L PROVE items(n) \in Nat
      OBVIOUS
    <2>1. ScanOrder[n] \in Tenants
      BY CheckpointAssumption
    <2>2. lengths[ScanOrder[n]] \in Nat
      BY <2>1 DEF Chains
    <2> QED
      BY <2>2 DEF partitionItems
  <1> HIDE DEF items
  <1>3. p \in [Nat -> Nat]
    BY <1>2
  <1>4. \A n \in 1 .. L : p[n] = items(n)
    BY <1>1
  <1> HIDE DEF p
  <1>5. PICK g : Sums(g, p, L)
    BY <1>1, <1>3, SumsExist
  <1>6. Eq(g)
    <2>1. \A n \in 0 .. L : g[n] = IF n = 0 THEN 0 ELSE g[n - 1] + items(n)
      BY <1>1, <1>4, <1>5 DEF Sums
    <2> QED
      BY <1>5, <2>1 DEF Sums
  <1>7. itemsUpTo(lengths) = CHOOSE f : Eq(f)
    BY DEF itemsUpTo, items
  <1> DEFINE f == itemsUpTo(lengths)
  <1>8. Eq(f)
    <2> HIDE DEF Eq
    <2> QED
      BY <1>6, <1>7, Zenon
  <1> HIDE DEF f
  <1>9. /\ DOMAIN f = 0 .. L
        /\ f[0] = 0
        /\ \A n \in 1 .. L : f[n] = f[n - 1] + items(n)
    BY <1>1, <1>8
  <1>10. \A n \in 0 .. L : f[n] \in Nat
    <2> DEFINE T == {n \in Nat : n \in 0 .. L => f[n] \in Nat}
    <2>1. 0 \in T
      BY <1>9
    <2>2. ASSUME NEW n \in T PROVE n + 1 \in T
      <3>1. CASE n + 1 \in 1 .. L
        <4>1. n \in 0 .. L /\ (n + 1) - 1 = n
          BY <1>1, <3>1
        <4>2. f[n + 1] = f[n] + items(n + 1)
          BY <1>9, <3>1, <4>1
        <4> QED
          BY <1>2, <2>2, <3>1, <4>1, <4>2
      <3>2. CASE n + 1 \notin 1 .. L
        BY <3>2
      <3> QED
        BY <3>1, <3>2
    <2> HIDE DEF T
    <2>3. \A n \in Nat : n \in T
      <3>1. T \in SUBSET Nat
        BY DEF T
      <3> QED
        BY <2>1, <2>2, <3>1, NatSetInduction
    <2> QED
      BY <1>1, <2>3 DEF T
  <1>11. f \in [0 .. L -> Nat]
    BY <1>8, <1>9, <1>10
  <1> QED
    BY <1>2, <1>9, <1>11 DEF f, items

\* More partitions hold no fewer items.
LEMMA ItemsMonotone ==
    ASSUME NEW lengths \in Chains,
           NEW i \in 0 .. Len(ScanOrder), NEW j \in 0 .. Len(ScanOrder), i <= j
    PROVE  itemsUpTo(lengths)[i] <= itemsUpTo(lengths)[j]
  <1> DEFINE L == Len(ScanOrder)
             f == itemsUpTo(lengths)
             T == {k \in Nat : i + k <= L => f[i] <= f[i + k]}
  <1>1. L \in Nat
    BY CheckpointAssumption
  <1>2. /\ \A n \in 0 .. L : f[n] \in Nat
        /\ \A n \in 1 .. L : f[n - 1] <= f[n]
    <2>1. \A n \in 0 .. L : f[n] \in Nat
      BY ItemsUpTo
    <2>2. ASSUME NEW n \in 1 .. L PROVE f[n - 1] <= f[n]
      <3>1. n - 1 \in 0 .. L
        BY <1>1
      <3> QED
        BY <2>1, <3>1, ItemsUpTo
    <2> QED
      BY <2>1, <2>2
  <1> HIDE DEF f
  <1>3. 0 \in T
    BY <1>2
  <1>4. ASSUME NEW k \in Nat, i + k <= L => f[i] <= f[i + k],
               i + (k + 1) <= L
        PROVE  f[i] <= f[i + (k + 1)]
    <2>1. /\ i + (k + 1) \in 1 .. L
          /\ i + (k + 1) - 1 = i + k
          /\ i + k \in 0 .. L
      BY <1>1, <1>4
    <2>2. f[i + k] <= f[i + (k + 1)]
      BY <1>2, <2>1
    <2>3. f[i] \in Nat /\ f[i + k] \in Nat /\ f[i + (k + 1)] \in Nat
      BY <1>1, <1>2, <2>1
    <2> QED
      BY <1>1, <1>4, <2>1, <2>2, <2>3
  <1>5. \A k \in T : k + 1 \in T
    BY <1>4
  <1>6. T \in SUBSET Nat
    OBVIOUS
  <1> HIDE DEF T
  <1>7. \A k \in Nat : k \in T
    BY <1>3, <1>5, <1>6, NatSetInduction
  <1>8. j - i \in Nat /\ i + (j - i) = j
    BY <1>1
  <1> QED
    BY <1>1, <1>7, <1>8 DEF T, f

\* Longer chains hold no fewer items.
LEMMA ItemsGrow ==
    ASSUME NEW a \in Chains, NEW b \in Chains,
           \A t \in Tenants : a[t] <= b[t]
    PROVE  \A n \in 0 .. Len(ScanOrder) : itemsUpTo(a)[n] <= itemsUpTo(b)[n]
  <1> DEFINE L == Len(ScanOrder)
             f == itemsUpTo(a)
             g == itemsUpTo(b)
             T == {n \in Nat : n <= L => f[n] <= g[n]}
  <1>1. L \in Nat
    BY CheckpointAssumption
  <1>2. /\ \A n \in 0 .. L : f[n] \in Nat /\ g[n] \in Nat
        /\ f[0] = 0 /\ g[0] = 0
    BY ItemsUpTo
  <1>3. \A n \in 1 .. L : f[n] - f[n - 1] <= g[n] - g[n - 1]
    <2> SUFFICES ASSUME NEW n \in 1 .. L PROVE f[n] - f[n - 1] <= g[n] - g[n - 1]
      OBVIOUS
    <2> DEFINE x == a[ScanOrder[n]]
               y == b[ScanOrder[n]]
    <2>1. ScanOrder[n] \in Tenants
      BY CheckpointAssumption
    <2>2. x \in Nat /\ y \in Nat /\ x <= y
      BY <2>1 DEF Chains
    <2>3. partitionItems(x) <= partitionItems(y)
      BY <2>2 DEF partitionItems
    <2>4. n - 1 \in 0 .. L /\ n \in 0 .. L
      BY <1>1
    <2>5. /\ f[n] = f[n - 1] + partitionItems(x) /\ partitionItems(x) \in Nat
          /\ g[n] = g[n - 1] + partitionItems(y) /\ partitionItems(y) \in Nat
      BY ItemsUpTo
    <2> HIDE DEF f, g, x, y
    <2> QED
      BY <1>2, <2>3, <2>4, <2>5
  <1> HIDE DEF f, g
  <1>4. 0 \in T
    BY <1>2
  <1>5. ASSUME NEW n \in Nat, n <= L => f[n] <= g[n], n + 1 <= L
        PROVE  f[n + 1] <= g[n + 1]
    <2>1. n + 1 \in 1 .. L /\ (n + 1) - 1 = n /\ n \in 0 .. L /\ n + 1 \in 0 .. L
      BY <1>1, <1>5
    <2>2. f[n + 1] - f[n] <= g[n + 1] - g[n]
      BY <1>3, <2>1
    <2> QED
      BY <1>1, <1>2, <1>5, <2>1, <2>2
  <1>6. \A n \in T : n + 1 \in T
    BY <1>5
  <1>7. T \in SUBSET Nat
    OBVIOUS
  <1> HIDE DEF T
  <1>8. \A n \in Nat : n \in T
    BY <1>4, <1>6, <1>7, NatSetInduction
  <1> QED
    BY <1>1, <1>8 DEF T, f, g

-----------------------------------------------------------------------------
(* The handler.                                                            *)

\* The epoch an invocation names is the clock's or the environment's (epochId).
LEMMA EpochOfClock ==
    ASSUME TypeOK, NEW w \in Workers
    PROVE  epochId(w) \in Epoch
  BY DEF TypeOK, epochId, Epoch

\* What is stored for an epoch is the checkpoint of a worker.
LEMMA StoredAreWorkers == TypeOK => Stored \subseteq Workers
  BY DEF TypeOK, Stored

\* Every initial state satisfies the invariant.
LEMMA InitInv == Init => Inv
  <1> SUFFICES ASSUME Init PROVE Inv
    OBVIOUS
  <1>1. /\ 0 \in Time
        /\ Len(ScanOrder) \in Nat
    BY CheckpointAssumption DEF Time
  <1>2. [t \in Tenants |-> 0] \in Chains
    BY DEF Chains
  <1>3. TypeOK
    <2>1. 1 \in 1 .. Len(ScanOrder) + 1
      BY <1>1
    <2>2. PageItems \in Int
      BY CheckpointAssumption
    <2>3. atStart \in [Workers -> [chain : Chains, stored : SUBSET Workers]]
      BY <1>2 DEF Init
    <2> QED
      BY <1>1, <1>2, <2>1, <2>2, <2>3 DEF Init, TypeOK, Place
  <1>4. OwnersHold
    BY <1>3, EpochOfClock DEF Init, OwnersHold
  <1>5. LeavesBetween /\ StoredThenBelow
    BY DEF Init, LeavesBetween, StoredThenBelow
  <1> QED
    BY <1>3, <1>4, <1>5 DEF Inv

\* A step that only moves an invocation on, to a place from which it holds
\* no more than before.
LEMMA MoveKeeps ==
    ASSUME Inv, NEW w \in Workers, NEW place \in Place \ {"idle"},
           Goto(w, place),
           pc[w] # "idle",
           pc[w] \in Past => place \in Past,
           place \in {"resend", "publish", "done"} => table[epochId(w)] = w,
           place = "done" => bucket[epochId(w)] = w,
           at' \in [Workers -> 1 .. Len(ScanOrder) + 1],
           room' \in [Workers -> Int],
           UNCHANGED << chain, now, createdAt, leaves, stores, atStart >>
    PROVE  Inv'
  <1>1. TypeOK'
    BY DEF Inv, TypeOK, Goto, stores
  <1>2. OwnersHold'
    BY <1>1 DEF Inv, TypeOK, OwnersHold, Goto, stores, epochId
  <1>3. LeavesBetween'
    BY DEF Inv, TypeOK, LeavesBetween, Goto
  <1>4. StoredThenBelow'
    BY DEF Inv, TypeOK, StoredThenBelow, Goto
  <1> QED
    BY <1>1, <1>2, <1>3, <1>4 DEF Inv

\* A committed receipt preserves the invariant.
LEMMA CommitStep ==
    ASSUME Inv, NEW t \in Tenants, Commit(t)
    PROVE  Inv'
  <1>1. /\ chain' \in Chains
        /\ \A u \in Tenants : chain[u] <= chain'[u]
    BY DEF Inv, TypeOK, Commit, Chains
  <1>2. TypeOK'
    BY <1>1 DEF Inv, TypeOK, Commit, scanning, stores
  <1>3. OwnersHold'
    BY DEF Inv, OwnersHold, Commit, stores, epochId
  <1>4. LeavesBetween'
    <2> SUFFICES ASSUME NEW w \in Workers, NEW u \in Tenants
                 PROVE  /\ leaves[w][u] <= chain'[u]
                        /\ atStart[w].chain[u] <= chain'[u]
      BY DEF Inv, LeavesBetween, Commit, scanning
    <2>1. /\ leaves[w][u] \in Nat
          /\ atStart[w].chain[u] \in Nat
          /\ chain[u] \in Nat
          /\ chain'[u] \in Nat
      BY <1>1 DEF Inv, TypeOK, Chains
    <2> QED
      BY <1>1, <2>1 DEF Inv, LeavesBetween
  <1>5. StoredThenBelow'
    BY DEF Inv, StoredThenBelow, Commit, scanning
  <1> QED
    BY <1>2, <1>3, <1>4, <1>5 DEF Inv

\* The start of a checkpoint preserves the invariant.
LEMMA StartStep ==
    ASSUME Inv, NEW w \in Workers, Start(w)
    PROVE  Inv'
  <1>1. TypeOK'
    BY StoredAreWorkers DEF Inv, TypeOK, Start, Goto, Place, scanning, stores
  <1>2. OwnersHold'
    <2>1. \A v \in Workers : v # w => epochId(v)' = epochId(v)
      BY DEF Start, Inv, TypeOK, epochId
    <2>2. \A e \in Epoch : table[e] # None => table[e] \in Workers /\ table[e] # w
      BY DEF Start, Inv, TypeOK, OwnersHold, Past
    <2> QED
      BY <2>1, <2>2 DEF Start, Goto, Inv, TypeOK, OwnersHold, stores, Past
  <1>3. /\ \A v \in Workers : v # w => atStart'[v] = atStart[v]
        /\ atStart'[w].chain = chain
        /\ atStart'[w].stored = Stored
        /\ UNCHANGED << chain, leaves >>
        /\ pc' = [pc EXCEPT ![w] = "scan"]
        /\ pc[w] = "idle"
    BY DEF Start, Goto, Inv, TypeOK, scanning
  <1>4. LeavesBetween'
    BY <1>3 DEF Inv, TypeOK, Chains, LeavesBetween
  <1>5. StoredThenBelow'
    <2> SUFFICES ASSUME NEW u \in Workers, NEW v \in Workers,
                        v \in atStart'[u].stored
                 PROVE  /\ pc'[v] \in Past
                        /\ \A t \in Tenants : leaves[v][t] <= atStart'[u].chain[t]
      BY <1>3 DEF StoredThenBelow
    <2>1. pc[v] \in Past /\ \A t \in Tenants : leaves[v][t] <= atStart'[u].chain[t]
      <3>1. CASE u = w
        <4>1. v \in Stored
          BY <1>3, <3>1
        <4>2. pc[v] \in Past
          BY <4>1 DEF Stored, Inv, OwnersHold
        <4> QED
          BY <1>3, <3>1, <4>2 DEF Inv, LeavesBetween
      <3>2. CASE u # w
        BY <1>3, <3>2 DEF Inv, StoredThenBelow
      <3> QED
        BY <3>1, <3>2
    <2>2. v # w
      BY <1>3, <2>1 DEF Past
    <2> QED
      BY <1>3, <2>1, <2>2 DEF Inv, TypeOK
  <1> QED
    BY <1>1, <1>2, <1>4, <1>5 DEF Inv

\* The scan of a partition preserves the invariant.
LEMMA ScanPartitionStep ==
    ASSUME Inv, NEW w \in Workers, ScanPartition(w)
    PROVE  Inv'
  <1> DEFINE u == ScanOrder[at[w]]
  <1>1. /\ at[w] \in 1 .. Len(ScanOrder)
        /\ Len(ScanOrder) \in Nat
        /\ u \in Tenants
    <2>1. at[w] \in 1 .. Len(ScanOrder) + 1 /\ at[w] <= Len(ScanOrder)
      BY DEF Inv, TypeOK, ScanPartition
    <2>2. Len(ScanOrder) \in Nat
      BY CheckpointAssumption
    <2>3. at[w] \in 1 .. Len(ScanOrder)
      BY <2>1, <2>2
    <2>4. u \in Tenants
      BY <2>3, CheckpointAssumption
    <2> QED
      BY <2>2, <2>3, <2>4
  <1>2. /\ chain[u] \in Nat
        /\ partitionItems(chain[u]) \in Int
    <2>1. chain[u] \in Nat
      BY <1>1 DEF Inv, TypeOK, Chains
    <2> QED
      BY <2>1 DEF partitionItems
  <1>3. /\ leaves' = [leaves EXCEPT ![w] = [leaves[w] EXCEPT ![u] = chain[u]]]
        /\ leaves[w] \in Chains
    BY DEF ScanPartition, Inv, TypeOK
  <1>4. leaves' \in [Workers -> Chains]
    BY <1>1, <1>2, <1>3 DEF Inv, TypeOK, Chains
  <1>5. /\ at' \in [Workers -> 1 .. Len(ScanOrder) + 1]
        /\ room' \in [Workers -> Int]
    BY <1>1, <1>2 DEF ScanPartition, Inv, TypeOK
  <1> HIDE DEF u
  <1>6. TypeOK'
    BY <1>4, <1>5 DEF ScanPartition, Inv, TypeOK, stores
  <1>7. OwnersHold'
    BY DEF ScanPartition, Inv, OwnersHold, stores, epochId
  <1>8. /\ \A v \in Workers : v # w => leaves'[v] = leaves[v]
        /\ \A t \in Tenants : t # u => leaves'[w][t] = leaves[w][t]
        /\ leaves'[w][u] = chain[u]
        /\ pc[w] = "scan"
        /\ UNCHANGED << chain, pc, atStart >>
    BY <1>1, <1>3 DEF ScanPartition, Inv, TypeOK, Chains
  <1>9. LeavesBetween'
    <2> SUFFICES ASSUME NEW v \in Workers, NEW t \in Tenants
                 PROVE  /\ leaves'[v][t] <= chain[t]
                        /\ atStart[v].chain[t] <= chain[t]
                        /\ leaves'[v][t] # 0 =>
                              atStart[v].chain[t] <= leaves'[v][t]
                        /\ pc[v] = "idle" => leaves'[v][t] = 0
      BY <1>8 DEF LeavesBetween
    <2>1. CASE v = w /\ t = u
      BY <1>2, <1>8, <2>1 DEF Inv, LeavesBetween
    <2>2. CASE ~(v = w /\ t = u)
      BY <1>8, <2>2 DEF Inv, LeavesBetween
    <2> QED
      BY <2>1, <2>2
  <1>10. StoredThenBelow'
    BY <1>8 DEF Inv, StoredThenBelow, Past
  <1> QED
    BY <1>6, <1>7, <1>9, <1>10 DEF Inv

\* Dropping the cursor of the Scan.
LEMMA EndScanType ==
    ASSUME TypeOK, NEW w \in Workers, EndScan(w)
    PROVE  /\ at' \in [Workers -> 1 .. Len(ScanOrder) + 1]
           /\ room' \in [Workers -> Int]
  BY CheckpointAssumption DEF TypeOK, EndScan

\* Storing a checkpoint preserves the invariant.
LEMMA PutStep ==
    ASSUME Inv, NEW w \in Workers, Put(w)
    PROVE  Inv'
  <1> DEFINE e == epochId(w)
  <1>1. e \in Epoch
    BY EpochOfClock DEF Inv
  <1> HIDE DEF e
  <1>2. PICK place \in {"publish", "resend"} : Goto(w, place)
    BY DEF Put
  <1>3. /\ pc[w] = "put"
        /\ pc' = [pc EXCEPT ![w] = place]
        /\ table[e] = None
        /\ table' = [table EXCEPT ![e] = w]
        /\ UNCHANGED << chain, now, createdAt, at, room, leaves, bucket, atStart >>
        /\ \A v \in Workers : epochId(v)' = epochId(v)
    BY <1>2 DEF Put, Goto, epochIsFree, scanning, e, epochId
  <1>4. TypeOK'
    BY <1>1, <1>2, <1>3 DEF Inv, TypeOK, Place
  <1>5. OwnersHold'
    <2>1. \A v \in Workers :
             pc'[v] \in {"resend", "publish", "done"} => table'[epochId(v)] = v
      <3> SUFFICES ASSUME NEW v \in Workers,
                          pc'[v] \in {"resend", "publish", "done"}
                   PROVE  table'[epochId(v)] = v
        OBVIOUS
      <3>1. CASE v = w
        BY <1>1, <1>3, <3>1 DEF e, Inv, TypeOK
      <3>2. CASE v # w
        <4>1. table[epochId(v)] = v
          BY <1>3, <3>2 DEF Inv, TypeOK, OwnersHold
        <4>2. epochId(v) # e
          BY <1>3, <4>1, CheckpointAssumption
        <4>3. epochId(v) \in Epoch
          BY EpochOfClock DEF Inv
        <4> QED
          BY <1>1, <1>3, <4>1, <4>2, <4>3 DEF Inv, TypeOK
      <3> QED
        BY <3>1, <3>2
    <2>2. \A v \in Workers : pc'[v] = "done" => bucket[epochId(v)] = v
      BY <1>2, <1>3 DEF Inv, TypeOK, OwnersHold
    <2>3. bucket[e] = None
      BY <1>1, <1>3 DEF Inv, OwnersHold
    <2>4. \A f \in Epoch : bucket[f] # None => bucket[f] = table'[f]
      BY <1>1, <1>3, <2>3 DEF Inv, TypeOK, OwnersHold
    <2>5. \A f \in Epoch : table'[f] # None => pc'[table'[f]] \in Past
      BY <1>1, <1>2, <1>3 DEF Inv, TypeOK, OwnersHold, Past
    <2> QED
      BY <1>3, <2>1, <2>2, <2>4, <2>5 DEF OwnersHold
  <1>6. LeavesBetween'
    BY <1>2, <1>3 DEF Inv, TypeOK, LeavesBetween
  <1>7. StoredThenBelow'
    BY <1>2, <1>3 DEF Inv, TypeOK, StoredThenBelow, Past
  <1> QED
    BY <1>4, <1>5, <1>6, <1>7 DEF Inv

\* Publishing a stored checkpoint preserves the invariant.
LEMMA PublishStep ==
    ASSUME Inv, NEW w \in Workers, Publish(w)
    PROVE  Inv'
  <1> DEFINE e == epochId(w)
  <1>1. e \in Epoch
    BY EpochOfClock DEF Inv
  <1> HIDE DEF e
  <1>2. PICK place \in {"done", "failed"} : Goto(w, place)
    BY DEF Publish
  <1>3. /\ pc[w] = "publish"
        /\ pc' = [pc EXCEPT ![w] = place]
        /\ table[e] = w
        /\ bucket' = [bucket EXCEPT ![e] = w]
        /\ UNCHANGED << chain, now, createdAt, at, room, leaves, table, atStart >>
        /\ \A v \in Workers : epochId(v)' = epochId(v)
    BY <1>2 DEF Publish, Goto, scanning, e, epochId, Inv, OwnersHold
  <1>4. TypeOK'
    BY <1>1, <1>2, <1>3 DEF Inv, TypeOK, Place
  <1>5. OwnersHold'
    <2>1. \A v \in Workers :
             pc'[v] \in {"resend", "publish", "done"} => table[epochId(v)] = v
      BY <1>3 DEF Inv, TypeOK, OwnersHold, e
    <2>2. \A v \in Workers : pc'[v] = "done" => bucket'[epochId(v)] = v
      <3> SUFFICES ASSUME NEW v \in Workers, pc'[v] = "done"
                   PROVE  bucket'[epochId(v)] = v
        OBVIOUS
      <3>1. epochId(v) \in Epoch
        BY EpochOfClock DEF Inv
      <3>2. table[epochId(v)] = v
        BY <2>1
      <3>3. CASE epochId(v) = e
        BY <1>1, <1>3, <3>2, <3>3 DEF Inv, TypeOK
      <3>4. CASE epochId(v) # e
        <4>1. v # w
          BY <3>4 DEF e
        <4> QED
          BY <1>1, <1>3, <3>1, <3>4, <4>1 DEF Inv, TypeOK, OwnersHold
      <3> QED
        BY <3>3, <3>4
    <2>3. \A f \in Epoch : bucket'[f] # None => bucket'[f] = table[f]
      BY <1>1, <1>3 DEF Inv, TypeOK, OwnersHold
    <2>4. \A f \in Epoch : table[f] # None => pc'[table[f]] \in Past
      BY <1>2, <1>3 DEF Inv, TypeOK, OwnersHold, Past
    <2> QED
      BY <1>3, <2>1, <2>2, <2>3, <2>4 DEF OwnersHold
  <1>6. LeavesBetween'
    BY <1>2, <1>3 DEF Inv, TypeOK, LeavesBetween
  <1>7. StoredThenBelow'
    BY <1>2, <1>3 DEF Inv, TypeOK, StoredThenBelow, Past
  <1> QED
    BY <1>4, <1>5, <1>6, <1>7 DEF Inv

\* Every step preserves the invariant.
LEMMA StepInv == Inv /\ [Next]_vars => Inv'
  <1> SUFFICES ASSUME Inv, [Next]_vars PROVE Inv'
    OBVIOUS
  <1>1. ASSUME NEW t \in Tenants, Commit(t) PROVE Inv'
    BY <1>1, CommitStep
  <1>2. ASSUME NEW w \in Workers, Start(w) PROVE Inv'
    BY <1>2, StartStep
  <1>3. ASSUME NEW w \in Workers, ScanPartition(w) PROVE Inv'
    BY <1>3, ScanPartitionStep
  <1>4. ASSUME NEW w \in Workers, ScanReturns(w) PROVE Inv'
    BY <1>4, MoveKeeps, EndScanType DEF ScanReturns, Inv, Place, Past
  <1>5. ASSUME NEW w \in Workers, Sign(w) PROVE Inv'
    BY <1>5, MoveKeeps DEF Sign, Inv, TypeOK, Place, Past, scanning
  <1>6. ASSUME NEW w \in Workers, Put(w) PROVE Inv'
    BY <1>6, PutStep
  <1>7. ASSUME NEW w \in Workers, PutRefused(w) PROVE Inv'
    BY <1>7, MoveKeeps DEF PutRefused, Inv, TypeOK, Place, Past, scanning
  <1>8. ASSUME NEW w \in Workers, Resend(w) PROVE Inv'
    BY <1>8, MoveKeeps DEF Resend, Inv, TypeOK, Place, Past, scanning
  <1>9. ASSUME NEW w \in Workers, Publish(w) PROVE Inv'
    BY <1>9, PublishStep
  <1>10. ASSUME NEW w \in Workers, Fail(w) PROVE Inv'
    BY <1>10, MoveKeeps, EndScanType DEF Fail, Inv, Place, Past, Ended
  <1>11. ASSUME Tick PROVE Inv'
    BY <1>11, CheckpointAssumption DEF Tick, Inv, TypeOK, OwnersHold, LeavesBetween, StoredThenBelow,
       Time, scanning, stores, epochId
  <1>12. ASSUME UNCHANGED vars PROVE Inv'
    BY <1>12 DEF vars, Inv, TypeOK, OwnersHold, LeavesBetween, StoredThenBelow,
       epochId
  <1> QED
    BY <1>1, <1>2, <1>3, <1>4, <1>5, <1>6, <1>7, <1>8, <1>9, <1>10, <1>11,
       <1>12 DEF Next, Step

\* The invariant holds in every reachable state.
LEMMA Invariance == Spec => []Inv
  BY InitInv, StepInv, PTL DEF Spec

-----------------------------------------------------------------------------
(* What a Scan covers.                                                     *)

\* What a step does to an invocation: nothing, but perhaps for longer chains;
\* a step of its Scan; or a step after it, with the leaves left alone.
LEMMA InvocationStep ==
    ASSUME Inv, [Next]_vars, NEW w \in Workers
    PROVE  /\ chain' \in Chains
           /\ \A t \in Tenants : chain[t] <= chain'[t]
           /\ w \in Stored' => w \in Stored \/ pc[w] = "put"
           /\ \/ /\ pc'[w] = pc[w] /\ at'[w] = at[w] /\ room'[w] = room[w]
                 /\ leaves'[w] = leaves[w] /\ atStart'[w] = atStart[w]
              \/ Start(w)
              \/ ScanPartition(w)
              \/ ScanReturns(w)
              \/ /\ pc'[w] \notin {"idle", "scan", "sign"}
                 /\ pc'[w] = "put" => pc[w] = "sign"
                 /\ leaves'[w] = leaves[w] /\ atStart'[w] = atStart[w]
                 /\ chain' = chain
  <1> DEFINE Rest == /\ pc'[w] = pc[w] /\ at'[w] = at[w] /\ room'[w] = room[w]
                     /\ leaves'[w] = leaves[w] /\ atStart'[w] = atStart[w]
             After == /\ pc'[w] \notin {"idle", "scan", "sign"}
                      /\ pc'[w] = "put" => pc[w] = "sign"
                      /\ leaves'[w] = leaves[w] /\ atStart'[w] = atStart[w]
                      /\ chain' = chain
             Own == Rest \/ Start(w) \/ ScanPartition(w) \/ ScanReturns(w) \/ After
             Same == chain' = chain /\ (w \in Stored' => w \in Stored)
  <1>1. \A t \in Tenants : chain[t] \in Nat
    BY DEF Inv, TypeOK, Chains
  <1>2. ASSUME chain' = chain
        PROVE  chain' \in Chains /\ \A t \in Tenants : chain[t] <= chain'[t]
    BY <1>1, <1>2 DEF Inv, TypeOK
  <1>3. ASSUME NEW t \in Tenants, Commit(t)
        PROVE  /\ chain' \in Chains
               /\ \A u \in Tenants : chain[u] <= chain'[u]
               /\ w \in Stored' => w \in Stored
               /\ Rest
    <2>1. chain' \in Chains /\ \A u \in Tenants : chain[u] <= chain'[u]
      BY <1>3 DEF Inv, TypeOK, Commit, Chains
    <2> QED
      BY <1>3, <2>1 DEF Commit, Stored, scanning, stores
  <1>4. ASSUME NEW v \in Workers, Start(v) PROVE Same /\ Own
    BY <1>4 DEF Start, Goto, Stored, Inv, TypeOK, scanning, stores
  <1>5. ASSUME NEW v \in Workers, ScanPartition(v) PROVE Same /\ Own
    BY <1>5 DEF ScanPartition, Stored, Inv, TypeOK, stores
  <1>6. ASSUME NEW v \in Workers, ScanReturns(v) PROVE Same /\ Own
    BY <1>6 DEF ScanReturns, EndScan, Goto, Stored, Inv, TypeOK, stores
  <1>7. ASSUME NEW v \in Workers,
               Sign(v) \/ PutRefused(v) \/ Resend(v)
        PROVE  Same /\ Own
    BY <1>7 DEF Sign, PutRefused, Resend, Goto, Stored, Inv, TypeOK, scanning,
       stores
  <1>8. ASSUME NEW v \in Workers, Fail(v) PROVE Same /\ Own
    BY <1>8 DEF Fail, EndScan, Goto, Stored, Inv, TypeOK, stores
  <1>9. ASSUME NEW v \in Workers, Publish(v) PROVE Same /\ Own
    BY <1>9 DEF Publish, Goto, Stored, Inv, TypeOK, scanning
  <1>10. ASSUME NEW v \in Workers, Put(v)
         PROVE  chain' = chain /\ Own /\ (w \in Stored' => w \in Stored \/ pc[w] = "put")
    <2>1. chain' = chain /\ Own
      BY <1>10 DEF Put, Goto, Inv, TypeOK, scanning
    <2>2. w \in Stored' => w \in Stored \/ w = v
      BY <1>10 DEF Put, Stored, Inv, TypeOK
    <2> QED
      BY <1>10, <2>1, <2>2 DEF Put
  <1>11. ASSUME Tick \/ UNCHANGED vars PROVE Same /\ Rest
    BY <1>11 DEF Tick, vars, Stored, scanning, stores
  <1> HIDE DEF Rest, After
  <1>12. CASE \E t \in Tenants : Commit(t)
    BY <1>3, <1>12 DEF Rest
  <1>13. CASE \E v \in Workers : Start(v) \/ Step(v) \/ Fail(v)
    <2>1. chain' = chain /\ Own /\ (w \in Stored' => w \in Stored \/ pc[w] = "put")
      BY <1>4, <1>5, <1>6, <1>7, <1>8, <1>9, <1>10, <1>13 DEF Step
    <2> QED
      BY <1>2, <2>1 DEF Rest, After
  <1>14. CASE Tick \/ UNCHANGED vars
    BY <1>2, <1>11, <1>14 DEF Rest
  <1> QED
    BY <1>12, <1>13, <1>14 DEF Next

\* No scan has seen anything initially.
LEMMA InitScanInv == Init => ScanInv
  <1> SUFFICES ASSUME Init PROVE ScanInv
    OBVIOUS
  <1>1. Inv
    BY InitInv
  <1>2. Stored = {}
    BY DEF Init, Stored
  <1>3. ScanProgress /\ ScanComplete
    BY <1>2 DEF Init, ScanProgress, ScanComplete
  <1> QED
    BY <1>1, <1>3 DEF ScanInv

\* The cursor of a Scan stays within the partitions.
LEMMA CursorRange ==
    ASSUME TypeOK, NEW w \in Workers
    PROVE  /\ Len(ScanOrder) \in Nat
           /\ at[w] \in 1 .. Len(ScanOrder) + 1
           /\ at[w] - 1 \in 0 .. Len(ScanOrder)
           /\ room[w] \in Int
           /\ PageItems \in Nat
  <1>1. Len(ScanOrder) \in Nat /\ PageItems \in Nat
    BY CheckpointAssumption
  <1>2. at[w] \in 1 .. Len(ScanOrder) + 1 /\ room[w] \in Int
    BY DEF TypeOK
  <1> QED
    BY <1>1, <1>2

\* An invocation whose Scan ends has every head that fits in the page.
LEMMA ScanReturnsCovers ==
    ASSUME ScanInv, NEW w \in Workers, ScanReturns(w),
           NEW i \in 1 .. Len(ScanOrder), itemsUpTo(chain)[i - 1] < PageItems
    PROVE  Covers(w, i)
  <1> DEFINE f == itemsUpTo(chain)
  <1>1. /\ Len(ScanOrder) \in Nat
        /\ at[w] \in 1 .. Len(ScanOrder) + 1
        /\ at[w] - 1 \in 0 .. Len(ScanOrder)
        /\ room[w] \in Int
        /\ PageItems \in Nat
    BY CursorRange DEF ScanInv, Inv
  <1>2. /\ at[w] > Len(ScanOrder) \/ room[w] <= 0
        /\ PageItems <= room[w] + f[at[w] - 1]
        /\ \A j \in 1 .. at[w] - 1 : Covers(w, j)
    BY DEF ScanReturns, ScanInv, ScanProgress
  <1>3. chain \in Chains
    BY DEF ScanInv, Inv, TypeOK
  <1>4. \A n \in 0 .. Len(ScanOrder) : f[n] \in Nat
    BY <1>3, ItemsUpTo
  <1>5. i - 1 \in 0 .. Len(ScanOrder)
    BY <1>1
  <1>6. CASE at[w] > Len(ScanOrder)
    <2>1. i \in 1 .. at[w] - 1
      BY <1>1, <1>6
    <2> QED
      BY <1>2, <2>1
  <1>7. CASE room[w] <= 0
    <2>1. f[i - 1] < f[at[w] - 1]
      <3> HIDE DEF f
      <3>1. f[i - 1] < PageItems
        BY DEF f
      <3>2. f[i - 1] \in Nat /\ f[at[w] - 1] \in Nat
        BY <1>1, <1>4, <1>5
      <3>3. PageItems <= f[at[w] - 1]
        BY <1>1, <1>2, <1>7, <3>2
      <3> QED
        BY <1>1, <3>1, <3>2, <3>3
    <2>2. ~ (at[w] - 1 <= i - 1)
      <3>1. SUFFICES ASSUME at[w] - 1 <= i - 1 PROVE FALSE
        OBVIOUS
      <3>2. f[at[w] - 1] <= f[i - 1]
        BY <1>1, <1>3, <1>5, <3>1, ItemsMonotone
      <3> HIDE DEF f
      <3> QED
        BY <1>1, <1>4, <1>5, <2>1, <3>2
    <2>3. i \in 1 .. at[w] - 1
      BY <1>1, <2>2
    <2> QED
      BY <1>2, <2>3
  <1> QED
    BY <1>2, <1>6, <1>7

\* Every step preserves what a scan in progress has seen.
LEMMA StepScanInv == ScanInv /\ [Next]_vars => ScanInv'
  <1> SUFFICES ASSUME ScanInv, [Next]_vars PROVE ScanInv'
    OBVIOUS
  <1>1. Inv /\ Inv'
    BY StepInv DEF ScanInv
  <1> DEFINE L == Len(ScanOrder)
             f == itemsUpTo(chain)
             g == itemsUpTo(chain')
  <1>2. L \in Nat /\ chain \in Chains
    BY <1>1, CheckpointAssumption DEF Inv, TypeOK
  <1>3. ASSUME NEW w \in Workers
        PROVE  /\ chain' \in Chains
               /\ \A n \in 0 .. L : f[n] \in Nat /\ g[n] \in Nat /\ f[n] <= g[n]
    <2>1. chain' \in Chains /\ \A t \in Tenants : chain[t] <= chain'[t]
      BY <1>1, InvocationStep
    <2> QED
      BY <1>2, <2>1, ItemsUpTo, ItemsGrow
  <1>4. ASSUME NEW w \in Workers, leaves'[w] = leaves[w], atStart'[w] = atStart[w],
               NEW i \in 1 .. L, Covers(w, i)
        PROVE  Covers(w, i)'
    BY <1>4 DEF Covers
  <1>5. ScanProgress'
    <2> SUFFICES ASSUME NEW w \in Workers
                 PROVE  /\ pc'[w] = "idle" => at'[w] = 1 /\ room'[w] = PageItems
                        /\ pc'[w] = "scan" =>
                              /\ PageItems <= room'[w] + g[at'[w] - 1]
                              /\ \A i \in 1 .. at'[w] - 1 : Covers(w, i)'
      BY DEF ScanProgress
    <2>1. /\ at[w] \in 1 .. L + 1 /\ at[w] - 1 \in 0 .. L
          /\ room[w] \in Int /\ PageItems \in Nat
      BY <1>1, CursorRange DEF Inv
    <2>2. CASE /\ pc'[w] = pc[w] /\ at'[w] = at[w] /\ room'[w] = room[w]
               /\ leaves'[w] = leaves[w] /\ atStart'[w] = atStart[w]
      <3>1. pc[w] = "scan" => PageItems <= room[w] + g[at[w] - 1]
        <4>1. pc[w] = "scan" => PageItems <= room[w] + f[at[w] - 1]
          BY DEF ScanInv, ScanProgress
        <4>2. /\ f[at[w] - 1] \in Nat /\ g[at[w] - 1] \in Nat
              /\ f[at[w] - 1] <= g[at[w] - 1]
          BY <1>3, <2>1
        <4> HIDE DEF f, g
        <4> QED
          BY <2>1, <4>1, <4>2
      <3>2. pc[w] = "scan" => \A i \in 1 .. at[w] - 1 : Covers(w, i)'
        <4>1. SUFFICES ASSUME pc[w] = "scan", NEW i \in 1 .. at[w] - 1
                       PROVE  Covers(w, i)'
          OBVIOUS
        <4>2. i \in 1 .. L
          BY <1>2, <2>1
        <4>3. Covers(w, i)
          BY <4>1 DEF ScanInv, ScanProgress
        <4> QED
          BY <1>4, <2>2, <4>2, <4>3
      <3>3. pc[w] = "idle" => at[w] = 1 /\ room[w] = PageItems
        BY DEF ScanInv, ScanProgress
      <3> QED
        BY <2>2, <3>1, <3>2, <3>3
    <2>3. CASE Start(w)
      <3>1. pc'[w] = "scan" /\ at'[w] = 1 /\ room'[w] = PageItems
        BY <1>1, <2>3 DEF Start, Goto, scanning, ScanInv, Inv, TypeOK, ScanProgress
      <3>2. g[0] = 0
        BY <1>3, ItemsUpTo
      <3> HIDE DEF g
      <3> QED
        BY <2>1, <3>1, <3>2
    <2>4. CASE ScanPartition(w)
      <3> DEFINE n == at[w]
                 u == ScanOrder[n]
      <3>1. /\ pc[w] = "scan" /\ pc'[w] = "scan"
            /\ n \in 1 .. L
            /\ at'[w] = n + 1
            /\ room'[w] = room[w] - partitionItems(chain[u])
            /\ chain' = chain /\ atStart' = atStart
            /\ leaves'[w] = [leaves[w] EXCEPT ![u] = chain[u]]
        BY <1>1, <1>2, <2>1, <2>4 DEF ScanPartition, Inv, TypeOK
      <3>2. u \in Tenants
        BY <3>1, CheckpointAssumption
      <3>3. PageItems <= room'[w] + f[n]
        <4>1. PageItems <= room[w] + f[n - 1]
          BY <3>1 DEF ScanInv, ScanProgress
        <4>2. /\ f[n] = f[n - 1] + partitionItems(chain[u])
              /\ partitionItems(chain[u]) \in Nat
          BY <1>2, <3>1, ItemsUpTo
        <4>3. f[n] \in Nat /\ f[n - 1] \in Nat
          BY <1>3, <2>1, <3>1, <1>2
        <4> HIDE DEF f, u
        <4> QED
          BY <2>1, <3>1, <4>1, <4>2, <4>3
      <3>4. ASSUME NEW i \in 1 .. n PROVE Covers(w, i)'
        <4>0. i \in 1 .. L /\ ScanOrder[i] \in Tenants
          <5>1. i \in 1 .. L
            BY <1>2, <3>1
          <5> QED
            BY <5>1, CheckpointAssumption
        <4>1. CASE ScanOrder[i] = u
          <5>1. leaves'[w][u] = chain[u]
            BY <1>1, <3>1, <3>2 DEF Inv, TypeOK, Chains
          <5>2. atStart[w].chain[u] <= chain[u]
            BY <1>1, <3>2 DEF Inv, LeavesBetween
          <5>3. atStart[w].chain[u] \in Nat /\ chain[u] \in Nat
            BY <1>1, <3>2 DEF Inv, TypeOK, Chains
          <5>4. atStart[w].chain[u] > 0 => chain[u] > 0
            BY <5>2, <5>3
          <5> QED
            BY <3>1, <4>1, <5>1, <5>4 DEF Covers
        <4>2. CASE ScanOrder[i] # u
          <5>1. i \in 1 .. n - 1
            BY <3>1, <4>2
          <5>2. Covers(w, i)
            BY <3>1, <5>1 DEF ScanInv, ScanProgress
          <5>3. leaves'[w][ScanOrder[i]] = leaves[w][ScanOrder[i]]
            BY <1>1, <3>1, <4>0, <4>2 DEF Inv, TypeOK, Chains
          <5> QED
            BY <3>1, <5>2, <5>3 DEF Covers
        <4> QED
          BY <4>1, <4>2
      <3>5. at'[w] - 1 = n
        BY <2>1, <3>1
      <3>6. PageItems <= room'[w] + g[n]
        BY <3>1, <3>3
      <3> QED
        BY <3>1, <3>4, <3>5, <3>6
    <2>5. CASE ScanReturns(w)
      BY <1>1, <2>5 DEF ScanReturns, Goto, Inv, TypeOK
    <2>6. CASE pc'[w] \notin {"idle", "scan", "sign"}
      BY <2>6
    <2> QED
      BY <1>1, <2>2, <2>3, <2>4, <2>5, <2>6, InvocationStep
  <1>6. ScanComplete'
    <2> SUFFICES ASSUME NEW w \in Workers,
                        pc'[w] \in {"sign", "put"} \/ w \in Stored',
                        NEW i \in 1 .. L, g[i - 1] < PageItems
                 PROVE  Covers(w, i)'
      BY DEF ScanComplete
    <2>1. f[i - 1] < PageItems
      <3>1. i - 1 \in 0 .. L
        BY <1>2
      <3>2. f[i - 1] \in Nat /\ g[i - 1] \in Nat /\ f[i - 1] <= g[i - 1]
        BY <1>3, <3>1
      <3>3. PageItems \in Nat
        BY CheckpointAssumption
      <3> HIDE DEF f, g
      <3> QED
        BY <3>2, <3>3
    <2>2. w \in Stored => pc[w] \in Past
      BY <1>1 DEF Stored, Inv, OwnersHold
    <2>3. w \in Stored' => w \in Stored \/ pc[w] = "put"
      BY <1>1, InvocationStep
    <2>4. CASE ScanReturns(w)
      <3>1. Covers(w, i)
        BY <2>1, <2>4, ScanReturnsCovers
      <3> QED
        BY <1>4, <2>4, <3>1 DEF ScanReturns
    <2>5. CASE Start(w) \/ ScanPartition(w)
      <3>1. pc[w] \in {"idle", "scan"} /\ pc'[w] = "scan"
        BY <1>1, <2>5 DEF Start, ScanPartition, Goto, Inv, TypeOK
      <3> QED
        BY <2>2, <2>3, <3>1 DEF Past
    <2>6. CASE /\ leaves'[w] = leaves[w] /\ atStart'[w] = atStart[w]
               /\ \/ pc'[w] = pc[w]
                  \/ /\ pc'[w] \notin {"idle", "scan", "sign"}
                     /\ pc'[w] = "put" => pc[w] = "sign"
      <3>1. pc[w] \in {"sign", "put"} \/ w \in Stored
        BY <2>3, <2>6
      <3>2. Covers(w, i)
        BY <2>1, <3>1 DEF ScanInv, ScanComplete
      <3> QED
        BY <1>4, <2>6, <3>2
    <2> QED
      BY <1>1, <2>4, <2>5, <2>6, InvocationStep
  <1> QED
    BY <1>1, <1>5, <1>6 DEF ScanInv

-----------------------------------------------------------------------------

\* The checkpoint worker's state is well-formed.
THEOREM TypeCorrect == Spec => []TypeOK
  <1>1. Inv => TypeOK
    BY DEF Inv
  <1> QED
    BY <1>1, Invariance, PTL

\* However many invocations of the handler overlap, crash or are repeated in
\* an epoch, the published object is the stored checkpoint.
THEOREM PublishedIsStoredAlways == Spec => []PublishedIsStored
  <1>1. Inv => PublishedIsStored
    BY DEF Inv, OwnersHold, PublishedIsStored
  <1> QED
    BY <1>1, Invariance, PTL

\* A checkpoint extends, tenant by tenant, every checkpoint that was stored
\* when its invocation began.
THEOREM SnapshotsExtendAlways == Spec => []SnapshotsExtend
  <1>1. Inv => SnapshotsExtend
    <2> SUFFICES ASSUME Inv, NEW w \in Stored, NEW v \in Workers,
                        v \in atStart[w].stored, NEW t \in Tenants,
                        leaves[w][t] # 0
                 PROVE  leaves[v][t] <= leaves[w][t]
      BY DEF SnapshotsExtend
    <2>1. w \in Workers
      BY StoredAreWorkers DEF Inv
    <2>2. /\ leaves[v][t] \in Nat
          /\ leaves[w][t] \in Nat
          /\ atStart[w].chain[t] \in Nat
      BY <2>1 DEF Inv, TypeOK, Chains
    <2>3. /\ leaves[v][t] <= atStart[w].chain[t]
          /\ atStart[w].chain[t] <= leaves[w][t]
      BY <2>1 DEF Inv, StoredThenBelow, LeavesBetween
    <2> QED
      BY <2>2, <2>3
  <1> QED
    BY <1>1, Invariance, PTL

\* What is stored or published for epoch e stays, and so does its content.
Final(e) ==
    /\ table[e] # None => /\ table'[e] = table[e]
                          /\ leaves'[table[e]] = leaves[table[e]]
                          /\ createdAt'[table[e]] = createdAt[table[e]]
    /\ bucket[e] # None => bucket'[e] = bucket[e]

\* A step of one invocation leaves every stored checkpoint as it is.
LEMMA FinalStep ==
    ASSUME Inv, NEW w \in Workers, Start(w) \/ Step(w) \/ Fail(w), NEW e \in Epoch
    PROVE  Final(e)
  <1>1. /\ table \in [Epoch -> Workers \cup {None}]
        /\ bucket \in [Epoch -> Workers \cup {None}]
        /\ leaves \in [Workers -> Chains] /\ createdAt \in [Workers -> Time]
        /\ epochId(w) \in Epoch
    BY EpochOfClock DEF Inv, TypeOK
  <1>2. ASSUME table[e] # None
        PROVE  /\ leaves'[table[e]] = leaves[table[e]]
               /\ createdAt'[table[e]] = createdAt[table[e]]
    <2>1. table[e] \in Workers /\ pc[table[e]] \in Past
      BY <1>1, <1>2 DEF Inv, OwnersHold
    <2>2. CASE Start(w) \/ ScanPartition(w)
      <3>1. pc[w] \notin Past
        BY <2>2 DEF Start, ScanPartition, Past
      <3>2. table[e] # w
        BY <2>1, <3>1
      <3> QED
        BY <1>1, <2>1, <2>2, <3>2 DEF Start, ScanPartition, scanning
    <2>3. CASE ~ (Start(w) \/ ScanPartition(w))
      <3>1. leaves' = leaves /\ createdAt' = createdAt
        BY <2>3 DEF Step, ScanReturns, Sign, Put, PutRefused, Resend, Publish,
           Fail, scanning
      <3> QED
        BY <3>1
    <2> QED
      BY <2>2, <2>3
  <1>3. ASSUME table[e] # None PROVE table'[e] = table[e]
    <2>1. CASE Put(w)
      <3>1. table[epochId(w)] = None /\ table' = [table EXCEPT ![epochId(w)] = w]
        BY <2>1 DEF Put, epochIsFree
      <3> QED
        BY <1>1, <1>3, <3>1
    <2>2. CASE ~Put(w)
      BY <2>2 DEF Step, Start, ScanPartition, ScanReturns, Sign, PutRefused,
         Resend, Publish, Fail, stores
    <2> QED
      BY <2>1, <2>2
  <1>4. ASSUME bucket[e] # None PROVE bucket'[e] = bucket[e]
    <2>1. CASE Publish(w)
      <3>1. table[epochId(w)] = w /\ bucket[e] = table[e]
        BY <1>4, <2>1 DEF Publish, Inv, OwnersHold
      <3>2. bucket' = [bucket EXCEPT ![epochId(w)] = w]
        BY <2>1 DEF Publish
      <3> QED
        BY <1>1, <3>1, <3>2
    <2>2. CASE ~Publish(w)
      BY <2>2 DEF Step, Start, ScanPartition, ScanReturns, Sign, Put, PutRefused,
         Resend, Fail, stores
    <2> QED
      BY <2>1, <2>2
  <1> QED
    BY <1>2, <1>3, <1>4 DEF Final

\* Though PutObject has no condition and invocations of an epoch overlap,
\* are repeated and fail halfway, the checkpoint stored or published for an
\* epoch is never replaced and its leaves never change.
THEOREM CheckpointsAreFinal == Spec => [][\A e \in Epoch : Final(e)]_vars
  <1>1. Inv /\ [Next]_vars => [\A e \in Epoch : Final(e)]_vars
    <2> SUFFICES ASSUME Inv, Next PROVE \A e \in Epoch : Final(e)
      OBVIOUS
    <2>1. CASE \E w \in Workers : Start(w) \/ Step(w) \/ Fail(w)
      BY <2>1, FinalStep
    <2>2. CASE Tick \/ \E t \in Tenants : Commit(t)
      <3>1. UNCHANGED << createdAt, scanning, stores >>
        BY <2>2 DEF Tick, Commit
      <3> QED
        BY <3>1 DEF Final, scanning, stores
    <2> QED
      BY <2>1, <2>2 DEF Next
  <1> QED
    BY <1>1, Invariance, PTL DEF Spec

\* Whatever is appended during the Scan, a stored checkpoint covers every
\* tenant whose chain was there when its invocation began, up to the page's
\* end (listChainHeads).
THEOREM CoversWhatFitsAlways == Spec => []CoversWhatFits
  <1>1. ScanInv => CoversWhatFits
    BY StoredAreWorkers DEF ScanInv, Inv, ScanComplete, CoversWhatFits
  <1> QED
    BY <1>1, InitScanInv, StepScanInv, PTL DEF Spec

-----------------------------------------------------------------------------
(* The layers of the checkpoint's tree.                                    *)

\* The length of a list is that of its domain.
LEMMA ListLength ==
    ASSUME NEW f, NEW n \in Nat, f = [i \in 1 .. n |-> f[i]]
    PROVE  Len(f) = n /\ DOMAIN f = 1 .. n
  <1> DEFINE S == {f[i] : i \in 1 .. n}
  <1>1. f \in [1 .. n -> S]
    OBVIOUS
  <1> HIDE DEF S
  <1>2. f \in Seq(S)
    BY <1>1
  <1>3. DOMAIN f = 1 .. n /\ DOMAIN f = 1 .. Len(f) /\ Len(f) \in Nat
    BY <1>1, <1>2
  <1> QED
    BY <1>3

\* A list without repetition, the shape of every layer.
Distinct(f) ==
    /\ \E n \in Nat \ {0} : f = [i \in 1 .. n |-> f[i]]
    /\ \A i, j \in DOMAIN f : f[i] = f[j] => i = j

\* A list of distinct hashes is a sequence that is not empty.
LEMMA DistinctLength ==
    ASSUME NEW f, Distinct(f)
    PROVE  Len(f) \in Nat \ {0} /\ DOMAIN f = 1 .. Len(f) /\ f = [i \in 1 .. Len(f) |-> f[i]]
  <1>1. PICK n \in Nat \ {0} : f = [i \in 1 .. n |-> f[i]]
    BY DEF Distinct
  <1> QED
    BY <1>1, ListLength

\* Halving, rounded up.
LEMMA Halves ==
    ASSUME NEW n \in Nat
    PROVE  /\ (n + 1) \div 2 \in Nat
           /\ n = 2 * ((n + 1) \div 2) \/ n = 2 * ((n + 1) \div 2) - 1
  OBVIOUS

\* The layer above one of distinct hashes has half as many, again distinct.
LEMMA LayerAbove ==
    ASSUME NEW f, Distinct(f)
    PROVE  /\ Distinct(layerAbove(f))
           /\ Len(layerAbove(f)) = (Len(f) + 1) \div 2
           /\ Len(layerAbove(f)) \in Nat \ {0}
           /\ \A i \in 1 .. Len(layerAbove(f)) :
                 /\ 2 * i - 1 \in 1 .. Len(f)
                 /\ layerAbove(f)[i] = merkleParentHash(f[2 * i - 1],
                       IF 2 * i \in 1 .. Len(f) THEN f[2 * i] ELSE f[2 * i - 1])
  <1> DEFINE n == Len(f)
             m == (n + 1) \div 2
             g == layerAbove(f)
  <1>1. n \in Nat \ {0} /\ DOMAIN f = 1 .. n
    BY DistinctLength
  <1> HIDE DEF n
  <1>2. m \in Nat \ {0}
    BY <1>1
  <1>3. g = [i \in 1 .. m |-> merkleParentHash(f[2 * i - 1], sibling(f, 2 * i - 1))]
    BY DEF layerAbove, n
  <1> HIDE DEF g
  <1>4. g = [i \in 1 .. m |-> g[i]]
    BY <1>3
  <1>5. Len(g) = m /\ DOMAIN g = 1 .. m
    BY <1>2, <1>4, ListLength
  <1>6. ASSUME NEW i \in 1 .. m
        PROVE  /\ 2 * i - 1 \in 1 .. n
               /\ g[i] = merkleParentHash(f[2 * i - 1],
                       IF 2 * i \in 1 .. n THEN f[2 * i] ELSE f[2 * i - 1])
    <2>1. 2 * i - 1 \in 1 .. n /\ (2 * i - 1) % 2 = 1 /\ 2 * i - 1 + 1 = 2 * i
      BY <1>1
    <2>2. sibling(f, 2 * i - 1) = IF 2 * i \in 1 .. n THEN f[2 * i] ELSE f[2 * i - 1]
      BY <1>1, <2>1 DEF sibling
    <2> QED
      BY <1>3, <2>1, <2>2
  <1>7. ASSUME NEW i \in 1 .. m, NEW j \in 1 .. m, g[i] = g[j]
        PROVE  i = j
    <2>1. f[2 * i - 1] = f[2 * j - 1]
      BY <1>6, <1>7 DEF merkleParentHash
    <2>2. 2 * i - 1 \in DOMAIN f /\ 2 * j - 1 \in DOMAIN f
      BY <1>1, <1>6
    <2>3. 2 * i - 1 = 2 * j - 1
      BY <2>1, <2>2 DEF Distinct
    <2> QED
      BY <2>3
  <1>8. Distinct(g)
    BY <1>2, <1>4, <1>5, <1>7 DEF Distinct
  <1> QED
    BY <1>2, <1>5, <1>6, <1>8 DEF g, n

\* The layer above determines a layer without repetition: an odd layer that
\* repeats its last hash is told apart from an even one.
LEMMA LayerAboveBinds ==
    ASSUME NEW f, NEW g, Distinct(f), Distinct(g), layerAbove(f) = layerAbove(g)
    PROVE  f = g
  <1> DEFINE n == Len(f)
             k == Len(g)
             m == Len(layerAbove(f))
  <1>1. /\ n \in Nat \ {0} /\ DOMAIN f = 1 .. n /\ f = [i \in 1 .. n |-> f[i]]
        /\ k \in Nat \ {0} /\ DOMAIN g = 1 .. k /\ g = [i \in 1 .. k |-> g[i]]
    BY DistinctLength
  <1>2. m = (n + 1) \div 2 /\ m = (k + 1) \div 2 /\ m \in Nat \ {0}
    BY LayerAbove
  <1>3. ASSUME NEW i \in 1 .. m
        PROVE  /\ 2 * i - 1 \in 1 .. n /\ 2 * i - 1 \in 1 .. k
               /\ f[2 * i - 1] = g[2 * i - 1]
               /\ (IF 2 * i \in 1 .. n THEN f[2 * i] ELSE f[2 * i - 1]) =
                  (IF 2 * i \in 1 .. k THEN g[2 * i] ELSE g[2 * i - 1])
    <2> DEFINE rf == IF 2 * i \in 1 .. n THEN f[2 * i] ELSE f[2 * i - 1]
               rg == IF 2 * i \in 1 .. k THEN g[2 * i] ELSE g[2 * i - 1]
    <2>1. /\ 2 * i - 1 \in 1 .. n
          /\ layerAbove(f)[i] = merkleParentHash(f[2 * i - 1], rf)
      BY LayerAbove
    <2>2. /\ 2 * i - 1 \in 1 .. k
          /\ layerAbove(g)[i] = merkleParentHash(g[2 * i - 1], rg)
      BY LayerAbove
    <2> HIDE DEF rf, rg, n, k
    <2>3. merkleParentHash(f[2 * i - 1], rf) = merkleParentHash(g[2 * i - 1], rg)
      BY <2>1, <2>2
    <2>4. f[2 * i - 1] = g[2 * i - 1] /\ rf = rg
      BY <2>3 DEF merkleParentHash
    <2> QED
      BY <2>1, <2>2, <2>4 DEF rf, rg
  <1> HIDE DEF n, k, m
  <1>4. ASSUME NEW i \in 1 .. m PROVE 2 * i \in 1 .. n <=> 2 * i \in 1 .. k
    <2>1. CASE 2 * i \in 1 .. n /\ 2 * i \notin 1 .. k
      <3>1. f[2 * i] = f[2 * i - 1]
        BY <1>3, <2>1
      <3>2. 2 * i = 2 * i - 1
        BY <1>1, <1>3, <2>1, <3>1 DEF Distinct
      <3> QED
        BY <3>2
    <2>2. CASE 2 * i \notin 1 .. n /\ 2 * i \in 1 .. k
      <3>1. g[2 * i] = g[2 * i - 1]
        BY <1>3, <2>2
      <3>2. 2 * i = 2 * i - 1
        BY <1>1, <1>3, <2>2, <3>1 DEF Distinct
      <3> QED
        BY <3>2
    <2> QED
      BY <2>1, <2>2
  <1>5. n = k
    <2>1. 2 * m \in 1 .. n <=> 2 * m \in 1 .. k
      BY <1>2, <1>4
    <2>2. n \in Nat \ {0} /\ k \in Nat \ {0}
      BY <1>1
    <2>3. (n = 2 * m \/ n = 2 * m - 1) /\ (k = 2 * m \/ k = 2 * m - 1)
      BY <1>2, <2>2, Halves
    <2> QED
      BY <1>2, <2>1, <2>2, <2>3
  <1>6. ASSUME NEW x \in 1 .. n PROVE f[x] = g[x]
    <2>0. n \in Nat
      BY <1>1
    <2>1. m \in Nat /\ n <= 2 * m
      BY <1>2, <2>0, Halves
    <2>2. PICK i \in Nat : x = 2 * i \/ x = 2 * i - 1
      <3>1. x \in Nat
        BY <2>0
      <3> QED
        BY <3>1, Halves
    <2>3. i \in 1 .. m
      BY <2>0, <2>1, <2>2
    <2> QED
      BY <1>3, <1>5, <2>2, <2>3
  <1> QED
    BY <1>1, <1>5, <1>6

-----------------------------------------------------------------------------
(* The loops.                                                              *)

\* g gives the layers over bottom, up to the m-th.
Layers(g, bottom, m) ==
    /\ g = [k \in 0 .. m |-> g[k]]
    /\ g[0] = bottom
    /\ \A k \in 1 .. m : g[k] = layerAbove(g[k - 1])

\* Layers can be stacked to any height.
LEMMA LayersExist ==
    ASSUME NEW bottom
    PROVE  \A m \in Nat : \E g : Layers(g, bottom, m)
  <1> DEFINE T == {m \in Nat : \E g : Layers(g, bottom, m)}
  <1>1. 0 \in T
    <2>1. Layers([k \in 0 .. 0 |-> bottom], bottom, 0)
      BY DEF Layers
    <2> QED
      BY <2>1
  <1>2. ASSUME NEW m \in Nat, NEW g, Layers(g, bottom, m)
        PROVE  \E h : Layers(h, bottom, m + 1)
    <2> DEFINE h == [k \in 0 .. m + 1 |-> IF k = m + 1 THEN layerAbove(g[m]) ELSE g[k]]
    <2>1. /\ h = [k \in 0 .. m + 1 |-> h[k]]
          /\ \A k \in 0 .. m : h[k] = g[k]
          /\ h[m + 1] = layerAbove(g[m])
      OBVIOUS
    <2> HIDE DEF h
    <2>2. ASSUME NEW k \in 1 .. m + 1 PROVE h[k] = layerAbove(h[k - 1])
      <3>1. CASE k = m + 1
        BY <2>1, <3>1
      <3>2. CASE k \in 1 .. m
        <4>1. g[k] = layerAbove(g[k - 1])
          BY <1>2, <3>2 DEF Layers
        <4>2. k \in 0 .. m /\ k - 1 \in 0 .. m
          BY <3>2
        <4> QED
          BY <2>1, <4>1, <4>2
      <3> QED
        BY <3>1, <3>2
    <2>3. h[0] = bottom
      BY <1>2, <2>1 DEF Layers
    <2>4. Layers(h, bottom, m + 1)
      BY <2>1, <2>2, <2>3 DEF Layers
    <2> QED
      BY <2>4
  <1>3. \A m \in T : m + 1 \in T
    BY <1>2
  <1> HIDE DEF T
  <1>4. T \in SUBSET Nat
    BY DEF T
  <1>5. \A m \in Nat : m \in T
    BY <1>1, <1>3, <1>4, NatSetInduction
  <1> QED
    BY <1>5 DEF T

\* The recursion of layersOver.
LEMMA LayersOver ==
    ASSUME NEW bottom, Len(bottom) \in Nat
    PROVE  Layers(layersOver(bottom), bottom, Len(bottom))
  <1> DEFINE L == Len(bottom)
             Eq(g) == g = [k \in 0 .. L |-> IF k = 0 THEN bottom ELSE layerAbove(g[k - 1])]
  <1>1. PICK g : Layers(g, bottom, L)
    BY LayersExist
  <1>2. Eq(g)
    <2>1. /\ g = [k \in 0 .. L |-> g[k]]
          /\ g[0] = bottom
          /\ \A k \in 1 .. L : g[k] = layerAbove(g[k - 1])
      BY <1>1 DEF Layers
    <2>2. ASSUME NEW k \in 0 .. L
          PROVE  g[k] = IF k = 0 THEN bottom ELSE layerAbove(g[k - 1])
      <3>1. CASE k = 0
        BY <2>1, <3>1
      <3>2. CASE k # 0
        <4>1. k \in 1 .. L
          BY <3>2
        <4> QED
          BY <2>1, <3>2, <4>1
      <3> QED
        BY <3>1, <3>2
    <2>3. [k \in 0 .. L |-> g[k]] =
          [k \in 0 .. L |-> IF k = 0 THEN bottom ELSE layerAbove(g[k - 1])]
      BY <2>2
    <2> QED
      BY <2>1, <2>3
  <1>3. layersOver(bottom) = CHOOSE f : Eq(f)
    BY DEF layersOver
  <1> DEFINE f == layersOver(bottom)
  <1>4. Eq(f)
    <2> HIDE DEF Eq
    <2> QED
      BY <1>2, <1>3, Zenon
  <1> HIDE DEF f
  <1>5. Layers(f, bottom, L)
    BY <1>4 DEF Layers
  <1> QED
    BY <1>5 DEF f

\* g gives the indices above i, up to the m-th layer.
Indices(g, i, m) ==
    /\ g \in [0 .. m -> Nat]
    /\ g[0] = i
    /\ \A k \in 1 .. m : g[k] = (g[k - 1] + 1) \div 2

\* The index of a leaf can be followed to any height.
LEMMA IndicesExist ==
    ASSUME NEW i \in Nat
    PROVE  \A m \in Nat : \E g : Indices(g, i, m)
  <1> DEFINE T == {m \in Nat : \E g : Indices(g, i, m)}
  <1>1. 0 \in T
    <2>1. Indices([k \in 0 .. 0 |-> i], i, 0)
      BY DEF Indices
    <2> QED
      BY <2>1
  <1>2. ASSUME NEW m \in Nat, NEW g, Indices(g, i, m)
        PROVE  \E h : Indices(h, i, m + 1)
    <2> DEFINE next == (g[m] + 1) \div 2
               h == [k \in 0 .. m + 1 |-> IF k = m + 1 THEN next ELSE g[k]]
    <2>0. next \in Nat
      <3>1. g[m] \in Nat
        BY <1>2 DEF Indices
      <3> QED
        BY <3>1, Halves
    <2> HIDE DEF next
    <2>1. /\ h \in [0 .. m + 1 -> Nat]
          /\ \A k \in 0 .. m : h[k] = g[k]
          /\ h[m + 1] = next
      BY <1>2, <2>0 DEF Indices
    <2> HIDE DEF h
    <2>2. ASSUME NEW k \in 1 .. m + 1 PROVE h[k] = (h[k - 1] + 1) \div 2
      <3>1. CASE k = m + 1
        BY <2>1, <3>1 DEF next
      <3>2. CASE k \in 1 .. m
        <4>1. g[k] = (g[k - 1] + 1) \div 2
          BY <1>2, <3>2 DEF Indices
        <4>2. k \in 0 .. m /\ k - 1 \in 0 .. m
          BY <3>2
        <4> QED
          BY <2>1, <4>1, <4>2
      <3> QED
        BY <3>1, <3>2
    <2>3. h[0] = i
      BY <1>2, <2>1 DEF Indices
    <2>4. Indices(h, i, m + 1)
      BY <2>1, <2>2, <2>3 DEF Indices
    <2> QED
      BY <2>4
  <1>3. \A m \in T : m + 1 \in T
    BY <1>2
  <1> HIDE DEF T
  <1>4. T \in SUBSET Nat
    BY DEF T
  <1>5. \A m \in Nat : m \in T
    BY <1>1, <1>3, <1>4, NatSetInduction
  <1> QED
    BY <1>5 DEF T

\* The recursion of indexAbove.
LEMMA IndexAbove ==
    ASSUME NEW bottom, Len(bottom) \in Nat, NEW i \in Nat
    PROVE  /\ indexAbove(bottom, i)[0] = i
           /\ \A k \in 1 .. Len(bottom) :
                 indexAbove(bottom, i)[k] = (indexAbove(bottom, i)[k - 1] + 1) \div 2
  <1> DEFINE L == Len(bottom)
             Eq(g) == g = [k \in 0 .. L |-> IF k = 0 THEN i ELSE (g[k - 1] + 1) \div 2]
  <1>1. PICK g : Indices(g, i, L)
    BY IndicesExist
  <1>2. Eq(g)
    <2>1. \A k \in 0 .. L : g[k] = IF k = 0 THEN i ELSE (g[k - 1] + 1) \div 2
      BY <1>1 DEF Indices
    <2> QED
      BY <1>1, <2>1 DEF Indices
  <1>3. indexAbove(bottom, i) = CHOOSE f : Eq(f)
    BY DEF indexAbove
  <1> DEFINE f == indexAbove(bottom, i)
  <1>4. Eq(f)
    <2> HIDE DEF Eq
    <2> QED
      BY <1>2, <1>3, Zenon
  <1> HIDE DEF f
  <1>5. f[0] = i /\ \A k \in 1 .. L : f[k] = (f[k - 1] + 1) \div 2
    BY <1>4
  <1> QED
    BY <1>5 DEF f

\* Every layer over a bottom without repetition is without repetition, and
\* layers shrink until one hash is left.
LEMMA LayersShrink ==
    ASSUME NEW bottom, Distinct(bottom)
    PROVE  \A k \in 0 .. Len(bottom) :
              /\ Distinct(layersOver(bottom)[k])
              /\ Len(layersOver(bottom)[k]) = 1
                    \/ Len(layersOver(bottom)[k]) + k <= Len(bottom)
  <1> DEFINE L == Len(bottom)
             f == layersOver(bottom)
             P(k) == Distinct(f[k]) /\ (Len(f[k]) = 1 \/ Len(f[k]) + k <= L)
             T == {k \in Nat : k <= L => P(k)}
  <1>1. L \in Nat \ {0}
    BY DistinctLength
  <1>2. f[0] = bottom /\ \A k \in 1 .. L : f[k] = layerAbove(f[k - 1])
    BY <1>1, LayersOver DEF Layers
  <1> HIDE DEF f
  <1>3. P(0)
    BY <1>1, <1>2
  <1>4. ASSUME NEW k \in Nat, k + 1 <= L, P(k) PROVE P(k + 1)
    <2>1. f[k + 1] = layerAbove(f[k])
      <3>1. k + 1 \in 1 .. L /\ (k + 1) - 1 = k
        BY <1>1, <1>4
      <3> QED
        BY <1>2, <3>1
    <2>2. Distinct(f[k + 1]) /\ Len(f[k + 1]) = (Len(f[k]) + 1) \div 2
      BY <1>4, <2>1, LayerAbove
    <2>3. Len(f[k]) \in Nat \ {0} /\ Len(f[k + 1]) \in Nat
      BY <1>4, <2>2, DistinctLength
    <2>4. ASSUME NEW n \in Nat \ {0}
          PROVE  /\ (n + 1) \div 2 = 1 \/ (n + 1) \div 2 + 1 <= n
                 /\ n = 1 => (n + 1) \div 2 = 1
      OBVIOUS
    <2>5. /\ Len(f[k + 1]) = 1 \/ Len(f[k + 1]) + 1 <= Len(f[k])
          /\ Len(f[k]) = 1 => Len(f[k + 1]) = 1
      BY <2>2, <2>3, <2>4
    <2>6. Len(f[k + 1]) = 1 \/ Len(f[k + 1]) + (k + 1) <= L
      <3> DEFINE x == Len(f[k])
                 y == Len(f[k + 1])
      <3>1. x \in Nat /\ y \in Nat /\ L \in Nat
        BY <1>1, <2>3
      <3>2. (y = 1 \/ y + 1 <= x) /\ (x = 1 => y = 1) /\ (x = 1 \/ x + k <= L)
        BY <1>4, <2>5
      <3> HIDE DEF x, y, L
      <3>3. y = 1 \/ y + (k + 1) <= L
        BY <3>1, <3>2
      <3> QED
        BY <3>3 DEF x, y, L
    <2> QED
      BY <2>2, <2>6
  <1>5. 0 \in T
    BY <1>3
  <1>6. \A k \in T : k + 1 \in T
    <2> HIDE DEF P
    <2> QED
      BY <1>1, <1>4
  <1> HIDE DEF T
  <1>7. T \in SUBSET Nat
    BY DEF T
  <1>8. \A k \in Nat : k \in T
    BY <1>5, <1>6, <1>7, NatSetInduction
  <1> HIDE DEF P
  <1>9. \A k \in 0 .. L : P(k)
    BY <1>1, <1>8 DEF T
  <1> QED
    BY <1>9 DEF P, f

\* The loops end.
LEMMA Height ==
    ASSUME NEW bottom, Distinct(bottom)
    PROVE  /\ height(bottom) \in 0 .. Len(bottom)
           /\ Len(layersOver(bottom)[height(bottom)]) = 1
           /\ \A j \in 0 .. height(bottom) - 1 : Len(layersOver(bottom)[j]) # 1
  <1> DEFINE L == Len(bottom)
             T == {k \in 0 .. L : Len(layersOver(bottom)[k]) = 1}
  <1>1. L \in Nat \ {0}
    BY DistinctLength
  <1>2. L \in T
    <2>1. L \in 0 .. L
      BY <1>1
    <2>2. Distinct(layersOver(bottom)[L])
      BY <2>1, LayersShrink
    <2>3. Len(layersOver(bottom)[L]) \in Nat \ {0}
      BY <2>2, DistinctLength
    <2>4. Len(layersOver(bottom)[L]) = 1
      BY <1>1, <2>1, <2>3, LayersShrink
    <2> QED
      BY <2>1, <2>4
  <1>3. T \in SUBSET Nat /\ T # {}
    BY <1>1, <1>2
  <1>4. \E k \in T : \A j \in T : k <= j
    <2> HIDE DEF T
    <2> QED
      BY <1>3, LeastNat
  <1>5. height(bottom) \in T /\ \A j \in T : height(bottom) <= j
    BY <1>4 DEF height
  <1> HIDE DEF L
  <1>6. ASSUME NEW j \in 0 .. height(bottom) - 1, Len(layersOver(bottom)[j]) = 1
        PROVE  FALSE
    <2>1. height(bottom) \in 0 .. L
      BY <1>5
    <2>2. j \in 0 .. L /\ ~ (height(bottom) <= j)
      BY <1>1, <2>1
    <2> QED
      BY <1>5, <1>6, <2>2
  <1> QED
    BY <1>5, <1>6 DEF L

-----------------------------------------------------------------------------
(* Normalisation.                                                          *)

\* Every rank up to the number of tenants is some tenant's.
LEMMA RankedTenant ==
    ASSUME NEW S \in SUBSET Int, IsFiniteSet(S), NEW i \in 1 .. Cardinality(S)
    PROVE  /\ ranked(S, i) \in S
           /\ Cardinality({u \in S : u <= ranked(S, i)}) = i
  <1> DEFINE n == Cardinality(S)
             below(t) == {u \in S : u <= t}
             rank == [t \in S |-> Cardinality(below(t))]
  <1>1. n \in Nat
    BY FS_CardinalityType
  <1>2. ASSUME NEW t \in S
        PROVE  IsFiniteSet(below(t)) /\ Cardinality(below(t)) \in 1 .. n
    <2>1. below(t) \in SUBSET S /\ t \in below(t)
      OBVIOUS
    <2>2. IsFiniteSet(below(t)) /\ Cardinality(below(t)) <= n
      BY <2>1, FS_Subset
    <2>3. Cardinality(below(t)) \in Nat /\ Cardinality(below(t)) # 0
      BY <2>1, <2>2, FS_CardinalityType, FS_EmptySet
    <2> HIDE DEF below
    <2> QED
      BY <1>1, <2>2, <2>3
  <1>3. rank \in [S -> 1 .. n]
    BY <1>2
  <1>4. ASSUME NEW t \in S, NEW u \in S, rank[t] = rank[u] PROVE t = u
    <2>1. ASSUME NEW a \in S, NEW b \in S, a < b, rank[a] = rank[b] PROVE FALSE
      <3>1. below(a) \in SUBSET below(b)
        <4>1. \A v \in S : v <= a => v <= b
          BY <2>1
        <4> QED
          BY <4>1
      <3>2. IsFiniteSet(below(b)) /\ Cardinality(below(b)) = Cardinality(below(a))
        BY <1>2, <2>1
      <3>3. below(b) = below(a)
        <4> DEFINE A == below(a)
                   B == below(b)
        <4> HIDE DEF A, B
        <4>1. IsFiniteSet(B) /\ A \in SUBSET B /\ Cardinality(B) = Cardinality(A)
          BY <3>1, <3>2 DEF A, B
        <4>2. B = A
          BY <4>1, FS_Subset
        <4> QED
          BY <4>2 DEF A, B
      <3>4. b \in below(b) /\ b \notin below(a)
        BY <2>1
      <3> QED
        BY <3>3, <3>4
    <2> QED
      BY <1>4, <2>1
  <1> HIDE DEF rank
  <1>5. rank \in Injection(S, 1 .. n)
    <2>1. \A a, b \in S : rank[a] = rank[b] => a = b
      BY <1>4
    <2> DEFINE R == 1 .. n
    <2>2. rank \in [S -> R]
      BY <1>3
    <2> HIDE DEF R
    <2>3. rank \in Injection(S, R)
      BY <2>1, <2>2, Fun_IsInj
    <2> QED
      BY <2>3 DEF R
  <1>6. IsFiniteSet(1 .. n) /\ Cardinality(1 .. n) = n
    BY <1>1, FS_Interval
  <1>7. rank \in Surjection(S, 1 .. n)
    BY <1>5, <1>6, FS_Injection
  <1>8. \A k \in 1 .. n : \E t \in S : rank[t] = k
    BY <1>7, Fun_SurjectionProperties
  <1>9. PICK t \in S : rank[t] = i
    BY <1>8
  <1>10. Cardinality(below(t)) = i
    BY <1>9 DEF rank
  <1> QED
    BY <1>10 DEF ranked

\* The last head of a tenant is one of the list's.
LEMMA LastHead ==
    ASSUME NEW list \in Seq(ChainHead), NEW t \in tenantsOf(list)
    PROVE  lastOf(list, t) \in DOMAIN list /\ list[lastOf(list, t)].tenantId = t
  <1> DEFINE L == Len(list)
             T == {k \in Nat : \E i \in 1 .. L : k = L - i /\ list[i].tenantId = t}
  <1>1. L \in Nat /\ DOMAIN list = 1 .. L
    OBVIOUS
  <1>2. PICK i \in 1 .. L : list[i].tenantId = t
    BY <1>1 DEF tenantsOf
  <1>3. \A j \in 1 .. L : list[j].tenantId = t => L - j \in T
    BY <1>1
  <1>4. \A k \in T : \E j \in 1 .. L : k = L - j /\ list[j].tenantId = t
    OBVIOUS
  <1>5. T \in SUBSET Nat /\ T # {}
    BY <1>2, <1>3
  <1> HIDE DEF T
  <1>6. PICK m \in T : \A k \in T : m <= k
    BY <1>5, LeastNat
  <1>7. PICK x \in 1 .. L : m = L - x /\ list[x].tenantId = t
    BY <1>4
  <1>8. ASSUME NEW j \in 1 .. L, list[j].tenantId = t PROVE j <= x
    <2>1. L - x <= L - j
      BY <1>3, <1>6, <1>7, <1>8
    <2> HIDE DEF L
    <2> QED
      BY <1>1, <2>1
  <1> QED
    BY <1>1, <1>7, <1>8 DEF lastOf

\* There is one leaf per tenant of a list of heads, and no leaf twice.
LEMMA Normalised ==
    ASSUME NEW list \in Seq(ChainHead)
    PROVE  /\ Cardinality(tenantsOf(list)) \in Nat
           /\ DOMAIN normalizeChainHeadLeaves(list) = 1 .. Cardinality(tenantsOf(list))
           /\ \A i, j \in DOMAIN normalizeChainHeadLeaves(list) :
                 normalizeChainHeadLeaves(list)[i] = normalizeChainHeadLeaves(list)[j]
                    => i = j
  <1> DEFINE S == tenantsOf(list)
             n == Cardinality(S)
             leaf == normalizeChainHeadLeaves(list)
  <1>1. /\ Len(list) \in Nat /\ DOMAIN list = 1 .. Len(list)
        /\ \A i \in DOMAIN list : list[i].tenantId \in Int
    <2>1. Len(list) \in Nat /\ DOMAIN list = 1 .. Len(list)
      OBVIOUS
    <2>2. \A i \in 1 .. Len(list) : list[i] \in ChainHead
      OBVIOUS
    <2> QED
      BY <2>1, <2>2 DEF ChainHead
  <1>2. S \in SUBSET Int
    BY <1>1 DEF tenantsOf
  <1>3. IsFiniteSet(S)
    <2> DEFINE F == [i \in 1 .. Len(list) |-> list[i].tenantId]
    <2>1. F \in [1 .. Len(list) -> S] /\ \A t \in S : \E i \in 1 .. Len(list) : F[i] = t
      BY <1>1 DEF tenantsOf
    <2> HIDE DEF F, S
    <2>2. F \in Surjection(1 .. Len(list), S)
      BY <2>1, Fun_IsSurj
    <2>3. IsFiniteSet(1 .. Len(list))
      BY <1>1, FS_Interval
    <2> QED
      BY <2>2, <2>3, FS_Surjection
  <1>4. n \in Nat
    BY <1>3, FS_CardinalityType
  <1>5. DOMAIN leaf = 1 .. n /\ \A i \in 1 .. n : leaf[i] = list[lastOf(list, ranked(S, i))]
    BY DEF normalizeChainHeadLeaves
  <1> HIDE DEF leaf
  <1>6. ASSUME NEW i \in 1 .. n
        PROVE  leaf[i].tenantId = ranked(S, i) /\ Cardinality({u \in S : u <= ranked(S, i)}) = i
    <2>1. ranked(S, i) \in S /\ Cardinality({u \in S : u <= ranked(S, i)}) = i
      <3> HIDE DEF S
      <3> QED
        BY <1>2, <1>3, RankedTenant
    <2> QED
      BY <1>5, <2>1, LastHead
  <1>7. ASSUME NEW i \in 1 .. n, NEW j \in 1 .. n, leaf[i] = leaf[j] PROVE i = j
    BY <1>6, <1>7
  <1> QED
    BY <1>4, <1>5, <1>7 DEF leaf

\* The bottom layer has the hash of each leaf, and no hash twice.
LEMMA LeafHashes ==
    ASSUME NEW list \in Seq(ChainHead)
    PROVE  /\ DOMAIN leafHashes(list) = DOMAIN normalizeChainHeadLeaves(list)
           /\ \A i \in DOMAIN leafHashes(list) :
                 leafHashes(list)[i] =
                    receiptChainHeadLeafHash(normalizeChainHeadLeaves(list)[i])
           /\ leafHashes(list) # << >> => Distinct(leafHashes(list))
  <1> DEFINE leaf == normalizeChainHeadLeaves(list)
             n == Cardinality(tenantsOf(list))
             bottom == leafHashes(list)
  <1>1. n \in Nat /\ DOMAIN leaf = 1 .. n /\ \A i, j \in 1 .. n : leaf[i] = leaf[j] => i = j
    BY Normalised
  <1>2. bottom = [i \in 1 .. n |-> receiptChainHeadLeafHash(leaf[i])]
    BY <1>1 DEF leafHashes
  <1> HIDE DEF n, leaf, bottom
  <1>3. DOMAIN bottom = 1 .. n /\ \A i \in 1 .. n : bottom[i] = receiptChainHeadLeafHash(leaf[i])
    BY <1>2
  <1>4. bottom = [i \in 1 .. n |-> bottom[i]]
    BY <1>2
  <1>5. ASSUME NEW i \in 1 .. n, NEW j \in 1 .. n, bottom[i] = bottom[j] PROVE i = j
    <2>1. leaf[i] = leaf[j]
      BY <1>3, <1>5 DEF receiptChainHeadLeafHash
    <2> QED
      BY <1>1, <2>1
  <1>6. bottom # << >> => n # 0
    <2>1. SUFFICES ASSUME n = 0 PROVE bottom = << >>
      OBVIOUS
    <2>2. Len(bottom) = 0 /\ DOMAIN bottom = {}
      BY <1>4, <2>1, ListLength
    <2> QED
      BY <1>4, <2>1, <2>2
  <1>7. bottom # << >> => Distinct(bottom)
    BY <1>1, <1>3, <1>4, <1>5, <1>6 DEF Distinct
  <1> QED
    BY <1>1, <1>3, <1>7 DEF bottom, leaf

-----------------------------------------------------------------------------
(* Proofs verify.                                                          *)

\* A hash and the one beside it make the hash above.
LEMMA ClimbOne ==
    ASSUME NEW f, Distinct(f), NEW i \in 1 .. Len(f)
    PROVE  /\ (i + 1) \div 2 \in 1 .. Len(layerAbove(f))
           /\ layerAbove(f)[(i + 1) \div 2] =
                 IF i % 2 = 1 THEN merkleParentHash(f[i], sibling(f, i))
                              ELSE merkleParentHash(sibling(f, i), f[i])
  <1> DEFINE n == Len(f)
             m == Len(layerAbove(f))
             h == (i + 1) \div 2
  <1>1. n \in Nat \ {0} /\ DOMAIN f = 1 .. n
    BY DistinctLength
  <1>2. m = (n + 1) \div 2 /\ m \in Nat
    BY LayerAbove
  <1>3. \A j \in 1 .. m : layerAbove(f)[j] = merkleParentHash(f[2 * j - 1],
            IF 2 * j \in 1 .. n THEN f[2 * j] ELSE f[2 * j - 1])
    BY LayerAbove
  <1> HIDE DEF n, m
  <1>4. i \in 1 .. n
    BY DEF n
  <1>5. h \in Nat /\ (i = 2 * h \/ i = 2 * h - 1)
    <2>1. i \in Nat
      BY <1>1, <1>4
    <2> QED
      BY <2>1, Halves
  <1>6. n = 2 * m \/ n = 2 * m - 1
    <2>1. n \in Nat
      BY <1>1
    <2> QED
      BY <1>2, <2>1, Halves
  <1> HIDE DEF h
  <1>7. h \in 1 .. m
    <2>1. n \in Nat
      BY <1>1
    <2> QED
      BY <1>2, <1>4, <1>5, <1>6, <2>1
  <1>8. CASE i = 2 * h - 1
    <2>1. i % 2 = 1 /\ i + 1 = 2 * h
      BY <1>5, <1>8
    <2>2. sibling(f, i) = IF 2 * h \in 1 .. n THEN f[2 * h] ELSE f[i]
      BY <1>1, <2>1 DEF sibling
    <2>3. layerAbove(f)[h] = merkleParentHash(f[i], sibling(f, i))
      BY <1>3, <1>7, <1>8, <2>2
    <2> QED
      BY <1>7, <2>1, <2>3 DEF h, m
  <1>9. CASE i = 2 * h
    <2>1. i % 2 = 0 /\ i - 1 = 2 * h - 1
      BY <1>5, <1>9
    <2>2. 2 * h \in 1 .. n /\ 2 * h - 1 \in 1 .. n
      <3>1. n \in Nat
        BY <1>1
      <3> QED
        BY <1>4, <1>5, <1>9, <3>1
    <2>3. sibling(f, i) = f[2 * h - 1]
      BY <1>1, <2>1, <2>2 DEF sibling
    <2>4. layerAbove(f)[h] = merkleParentHash(sibling(f, i), f[i])
      BY <1>3, <1>7, <1>9, <2>2, <2>3
    <2> QED
      BY <1>7, <2>1, <2>4 DEF h, m
  <1> QED
    BY <1>5, <1>8, <1>9

\* Above the i-th hash of the bottom lies, in every layer, a hash of the layer.
LEMMA IndexInLayer ==
    ASSUME NEW bottom, Distinct(bottom), NEW i \in 1 .. Len(bottom)
    PROVE  \A k \in 0 .. Len(bottom) :
              indexAbove(bottom, i)[k] \in 1 .. Len(layersOver(bottom)[k])
  <1> DEFINE L == Len(bottom)
             f == layersOver(bottom)
             x == indexAbove(bottom, i)
             T == {k \in Nat : k <= L => x[k] \in 1 .. Len(f[k])}
  <1>1. L \in Nat \ {0}
    BY DistinctLength
  <1>2. f[0] = bottom /\ \A k \in 1 .. L : f[k] = layerAbove(f[k - 1])
    BY <1>1, LayersOver DEF Layers
  <1>3. x[0] = i /\ \A k \in 1 .. L : x[k] = (x[k - 1] + 1) \div 2
    <2>1. i \in Nat /\ L \in Nat
      BY <1>1
    <2> QED
      BY <2>1, IndexAbove
  <1>4. \A k \in 0 .. L : Distinct(f[k])
    BY LayersShrink
  <1> HIDE DEF f, x
  <1>5. 0 \in T
    BY <1>2, <1>3
  <1>6. ASSUME NEW k \in Nat, k + 1 <= L, x[k] \in 1 .. Len(f[k])
        PROVE  x[k + 1] \in 1 .. Len(f[k + 1])
    <2>1. k + 1 \in 1 .. L /\ (k + 1) - 1 = k /\ k \in 0 .. L
      BY <1>1, <1>6
    <2> HIDE DEF L
    <2>2. x[k + 1] = (x[k] + 1) \div 2 /\ f[k + 1] = layerAbove(f[k])
      BY <1>2, <1>3, <2>1
    <2>3. (x[k] + 1) \div 2 \in 1 .. Len(layerAbove(f[k]))
      BY <1>4, <1>6, <2>1, ClimbOne
    <2> QED
      BY <2>2, <2>3
  <1>7. \A k \in T : k + 1 \in T
    BY <1>1, <1>6
  <1> HIDE DEF T
  <1>8. T \in SUBSET Nat
    BY DEF T
  <1>9. \A k \in Nat : k \in T
    BY <1>5, <1>7, <1>8, NatSetInduction
  <1>10. \A k \in 0 .. L : x[k] \in 1 .. Len(f[k])
    BY <1>1, <1>9 DEF T
  <1> QED
    BY <1>10 DEF x, f

\* The proof built for a leaf climbs to the root.
LEMMA ProofVerifies ==
    ASSUME NEW list \in Seq(ChainHead), NEW i \in DOMAIN normalizeChainHeadLeaves(list)
    PROVE  verifyMerkleInclusionProof(proofAt(list, i), merkleRootForLeaves(list))
  <1> DEFINE bottom == leafHashes(list)
             L == Len(bottom)
             H == height(bottom)
             f == layersOver(bottom)
             x == indexAbove(bottom, i)
             steps == path(bottom, i)
             proof == proofAt(list, i)
             Eq(g) == g = [k \in 0 .. Len(steps) |->
                            IF k = 0 THEN receiptChainHeadLeafHash(proof.leaf)
                            ELSE IF steps[k].position = "left"
                            THEN merkleParentHash(steps[k].hash, g[k - 1])
                            ELSE merkleParentHash(g[k - 1], steps[k].hash)]
  <1>1. i \in DOMAIN bottom /\ bottom[i] = receiptChainHeadLeafHash(proof.leaf)
    BY LeafHashes DEF proofAt
  <1>2. bottom # << >> /\ Distinct(bottom)
    <2>1. bottom # << >>
      BY <1>1
    <2> QED
      BY <2>1, LeafHashes
  <1>3. L \in Nat \ {0} /\ DOMAIN bottom = 1 .. L
    BY <1>2, DistinctLength
  <1>4. H \in 0 .. L /\ Len(f[H]) = 1
    BY <1>2, Height
  <1>5. merkleRootForLeaves(list) = f[H][1]
    BY <1>2 DEF merkleRootForLeaves
  <1>6. /\ proof.proof = steps
        /\ receiptChainHeadLeafHash(proof.leaf) = proof.leafHash
    BY DEF proofAt
  <1>7. /\ steps = [k \in 1 .. H |-> steps[k]]
        /\ \A k \in 1 .. H : steps[k] = proofStep(bottom, i, k - 1)
    BY DEF path
  <1>8. Len(steps) = H
    <2>1. H \in Nat
      BY <1>3, <1>4
    <2> QED
      BY <1>7, <2>1, ListLength
  <1>9. f[0] = bottom /\ \A k \in 1 .. L : f[k] = layerAbove(f[k - 1])
    BY <1>3, LayersOver DEF Layers
  <1>10. x[0] = i /\ \A k \in 1 .. L : x[k] = (x[k - 1] + 1) \div 2
    <2>1. i \in Nat /\ L \in Nat
      BY <1>1, <1>3
    <2> QED
      BY <2>1, IndexAbove
  <1>11. \A k \in 0 .. L : Distinct(f[k]) /\ x[k] \in 1 .. Len(f[k])
    BY <1>1, <1>2, <1>3, LayersShrink, IndexInLayer
  <1>12. ASSUME NEW k \in 1 .. H
         PROVE  f[k][x[k]] = IF steps[k].position = "left"
                             THEN merkleParentHash(steps[k].hash, f[k - 1][x[k - 1]])
                             ELSE merkleParentHash(f[k - 1][x[k - 1]], steps[k].hash)
    <2>1. k \in 1 .. L /\ k - 1 \in 0 .. L
      BY <1>3, <1>4
    <2>2. /\ steps[k].position = IF x[k - 1] % 2 = 1 THEN "right" ELSE "left"
          /\ steps[k].hash = sibling(f[k - 1], x[k - 1])
      BY <1>7 DEF proofStep
    <2>3. f[k] = layerAbove(f[k - 1]) /\ x[k] = (x[k - 1] + 1) \div 2
      BY <1>9, <1>10, <2>1
    <2>4. Distinct(f[k - 1]) /\ x[k - 1] \in 1 .. Len(f[k - 1])
      BY <1>11, <2>1
    <2> DEFINE u == x[k - 1]
               e == f[k - 1]
    <2>5. layerAbove(e)[(u + 1) \div 2] =
             IF u % 2 = 1 THEN merkleParentHash(e[u], sibling(e, u))
                          ELSE merkleParentHash(sibling(e, u), e[u])
      <3> HIDE DEF e, u, f, x
      <3>1. Distinct(e) /\ u \in 1 .. Len(e)
        BY <2>4 DEF e, u
      <3> QED
        BY <3>1, ClimbOne
    <2>6. f[k][x[k]] = layerAbove(e)[(u + 1) \div 2]
      <3> HIDE DEF f, x
      <3> QED
        BY <2>3
    <2>7. /\ steps[k].position = IF u % 2 = 1 THEN "right" ELSE "left"
          /\ steps[k].hash = sibling(e, u)
      BY <2>2
    <2> HIDE DEF e, u, f, x, steps
    <2>8. CASE u % 2 = 1
      <3>1. steps[k].position # "left"
        BY <2>7, <2>8
      <3>2. f[k][x[k]] = merkleParentHash(e[u], steps[k].hash)
        BY <2>5, <2>6, <2>7, <2>8
      <3> QED
        BY <3>1, <3>2 DEF e, u
    <2>9. CASE u % 2 # 1
      <3>1. steps[k].position = "left"
        BY <2>7, <2>9
      <3>2. f[k][x[k]] = merkleParentHash(steps[k].hash, e[u])
        BY <2>5, <2>6, <2>7, <2>9
      <3> QED
        BY <3>1, <3>2 DEF e, u
    <2> QED
      BY <2>8, <2>9
  <1> HIDE DEF f, x, steps, L, H, bottom, proof
  <1> DEFINE g == [k \in 0 .. H |-> f[k][x[k]]]
  <1>13. Eq(g)
    <2>1. H \in Nat
      BY <1>3, <1>4
    <2>2. ASSUME NEW k \in 0 .. H
          PROVE  g[k] = IF k = 0 THEN receiptChainHeadLeafHash(proof.leaf)
                        ELSE IF steps[k].position = "left"
                        THEN merkleParentHash(steps[k].hash, g[k - 1])
                        ELSE merkleParentHash(g[k - 1], steps[k].hash)
      <3>1. CASE k = 0
        BY <1>1, <1>9, <1>10, <3>1
      <3>2. CASE k # 0
        <4>1. k \in 1 .. H /\ k - 1 \in 0 .. H
          BY <2>1, <3>2
        <4>2. g[k] = f[k][x[k]] /\ g[k - 1] = f[k - 1][x[k - 1]]
          BY <4>1
        <4> HIDE DEF g
        <4> QED
          BY <1>12, <3>2, <4>1, <4>2
      <3> QED
        BY <3>1, <3>2
    <2>3. g = [k \in 0 .. H |-> g[k]]
      OBVIOUS
    <2> HIDE DEF g
    <2> QED
      BY <1>8, <2>2, <2>3
  <1> DEFINE c == computedAlong(proof.leaf, steps)
  <1>14. Eq(c)
    <2>1. c = CHOOSE h : Eq(h)
      BY DEF computedAlong
    <2> HIDE DEF Eq, c
    <2> QED
      BY <1>13, <2>1, Zenon
  <1> HIDE DEF c, g
  <1>15. c[H] = f[H][1]
    <2> DEFINE T == {k \in Nat : k <= H => c[k] = f[k][x[k]]}
    <2>1. H \in Nat
      BY <1>3, <1>4
    <2>2. /\ c[0] = receiptChainHeadLeafHash(proof.leaf)
          /\ \A k \in 1 .. H :
                c[k] = IF steps[k].position = "left"
                       THEN merkleParentHash(steps[k].hash, c[k - 1])
                       ELSE merkleParentHash(c[k - 1], steps[k].hash)
      BY <1>8, <1>14, <2>1
    <2>3. 0 \in T
      BY <1>1, <1>9, <1>10, <2>2
    <2>4. ASSUME NEW k \in Nat, k + 1 <= H, c[k] = f[k][x[k]]
          PROVE  c[k + 1] = f[k + 1][x[k + 1]]
      <3>1. k + 1 \in 1 .. H /\ (k + 1) - 1 = k
        BY <2>1, <2>4
      <3> QED
        BY <1>12, <2>2, <2>4, <3>1
    <2>5. \A k \in T : k + 1 \in T
      BY <2>1, <2>4
    <2> HIDE DEF T
    <2>6. T \in SUBSET Nat
      BY DEF T
    <2>7. \A k \in Nat : k \in T
      BY <2>3, <2>5, <2>6, NatSetInduction
    <2>8. c[H] = f[H][x[H]]
      BY <2>1, <2>7 DEF T
    <2>9. x[H] = 1
      <3>1. x[H] \in 1 .. Len(f[H])
        BY <1>4, <1>11
      <3>2. x[H] \in 1 .. 1
        BY <1>4, <3>1
      <3> QED
        BY <3>2
    <2> QED
      BY <2>8, <2>9
  <1> QED
    <2>1. c[Len(steps)] = merkleRootForLeaves(list)
      BY <1>5, <1>8, <1>15
    <2>2. computedAlong(proof.leaf, proof.proof)[Len(proof.proof)] =
             merkleRootForLeaves(list)
      BY <1>6, <2>1 DEF c
    <2>3. verifyMerkleInclusionProof(proof, merkleRootForLeaves(list))
      BY <1>6, <2>2 DEF verifyMerkleInclusionProof
    <2> QED
      BY <2>3 DEF proof

-----------------------------------------------------------------------------
(* Roots bind.                                                             *)

\* Seen from the root downwards, two trees with one root have equal layers.
LEMMA EqualFromRoot ==
    ASSUME NEW a, NEW b, Distinct(a), Distinct(b),
           layersOver(a)[height(a)][1] = layersOver(b)[height(b)][1],
           NEW k \in Nat, k <= height(a), k <= height(b)
    PROVE  layersOver(a)[height(a) - k] = layersOver(b)[height(b) - k]
  <1> DEFINE f == layersOver(a)
             g == layersOver(b)
             x == height(a)
             y == height(b)
             T == {j \in Nat : j <= x /\ j <= y => f[x - j] = g[y - j]}
  <1>1. /\ Len(a) \in Nat /\ x \in 0 .. Len(a) /\ Len(f[x]) = 1
        /\ Len(b) \in Nat /\ y \in 0 .. Len(b) /\ Len(g[y]) = 1
    BY DistinctLength, Height
  <1>2. /\ \A j \in 0 .. Len(a) : Distinct(f[j])
        /\ \A j \in 0 .. Len(b) : Distinct(g[j])
    BY LayersShrink
  <1>3. /\ \A j \in 1 .. Len(a) : f[j] = layerAbove(f[j - 1])
        /\ \A j \in 1 .. Len(b) : g[j] = layerAbove(g[j - 1])
    BY <1>1, LayersOver DEF Layers
  <1>4. f[x][1] = g[y][1]
    OBVIOUS
  <1> HIDE DEF f, g, x, y
  <1>5. x \in Nat /\ y \in Nat
    BY <1>1
  <1>6. 0 \in T
    <2>1. f[x] = [j \in 1 .. 1 |-> f[x][j]] /\ g[y] = [j \in 1 .. 1 |-> g[y][j]]
      BY <1>1, <1>2, DistinctLength
    <2>2. f[x] = g[y]
      BY <1>4, <2>1
    <2>3. x - 0 = x /\ y - 0 = y
      BY <1>5
    <2> QED
      BY <2>2, <2>3
  <1>7. ASSUME NEW j \in Nat, j + 1 <= x, j + 1 <= y, f[x - j] = g[y - j]
        PROVE  f[x - (j + 1)] = g[y - (j + 1)]
    <2>1. /\ x - j \in 1 .. Len(a) /\ (x - j) - 1 = x - (j + 1)
          /\ x - (j + 1) \in 0 .. Len(a)
          /\ y - j \in 1 .. Len(b) /\ (y - j) - 1 = y - (j + 1)
          /\ y - (j + 1) \in 0 .. Len(b)
      BY <1>1, <1>5, <1>7
    <2>2. layerAbove(f[x - (j + 1)]) = layerAbove(g[y - (j + 1)])
      BY <1>3, <1>7, <2>1
    <2>3. Distinct(f[x - (j + 1)]) /\ Distinct(g[y - (j + 1)])
      BY <1>2, <2>1
    <2> QED
      BY <2>2, <2>3, LayerAboveBinds
  <1>8. \A j \in T : j + 1 \in T
    <2>1. SUFFICES ASSUME NEW j \in T, j + 1 <= x, j + 1 <= y
                   PROVE  f[x - (j + 1)] = g[y - (j + 1)]
      OBVIOUS
    <2>2. j \in Nat /\ (j <= x /\ j <= y => f[x - j] = g[y - j])
      OBVIOUS
    <2> HIDE DEF T
    <2>3. j <= x /\ j <= y
      BY <1>5, <2>1, <2>2
    <2> QED
      BY <1>7, <2>1, <2>2, <2>3
  <1> HIDE DEF T
  <1>9. T \in SUBSET Nat
    BY DEF T
  <1>10. k \in T
    BY <1>6, <1>8, <1>9, NatSetInduction
  <1>11. k <= x /\ k <= y
    BY DEF x, y
  <1>12. f[x - k] = g[y - k]
    BY <1>10, <1>11 DEF T
  <1> QED
    BY <1>12 DEF f, g, x, y

\* The first hash of a layer above the bottom is no leaf's hash.
LEMMA UpperLayersAreNodes ==
    ASSUME NEW a, Distinct(a), NEW k \in 1 .. Len(a)
    PROVE  \E l, r : layersOver(a)[k][1] = merkleParentHash(l, r)
  <1> DEFINE f == layersOver(a)
  <1>1. Len(a) \in Nat
    BY DistinctLength
  <1>2. f[k] = layerAbove(f[k - 1])
    BY <1>1, LayersOver DEF Layers
  <1>3. k - 1 \in 0 .. Len(a)
    BY <1>1
  <1>4. Distinct(f[k - 1])
    BY <1>3, LayersShrink
  <1> HIDE DEF f
  <1>5. Len(layerAbove(f[k - 1])) \in Nat \ {0}
    BY <1>4, LayerAbove
  <1>6. 1 \in 1 .. Len(layerAbove(f[k - 1]))
    BY <1>5
  <1>7. \E l, r : layerAbove(f[k - 1])[1] = merkleParentHash(l, r)
    BY <1>4, <1>6, LayerAbove
  <1> QED
    BY <1>2, <1>7 DEF f

\* Two bottoms of leaf hashes with one root are the same.
LEMMA BottomsEqual ==
    ASSUME NEW a, NEW b, Distinct(a), Distinct(b),
           \E leaf : a[1] = receiptChainHeadLeafHash(leaf),
           \E leaf : b[1] = receiptChainHeadLeafHash(leaf),
           layersOver(a)[height(a)][1] = layersOver(b)[height(b)][1]
    PROVE  a = b
  <1> DEFINE f == layersOver(a)
             g == layersOver(b)
             x == height(a)
             y == height(b)
  <1>1. /\ Len(a) \in Nat /\ x \in 0 .. Len(a)
        /\ Len(b) \in Nat /\ y \in 0 .. Len(b)
    BY DistinctLength, Height
  <1>2. f[0] = a /\ g[0] = b
    BY <1>1, LayersOver DEF Layers
  <1>3. /\ \A k \in 1 .. Len(a) : \E l, r : f[k][1] = merkleParentHash(l, r)
        /\ \A k \in 1 .. Len(b) : \E l, r : g[k][1] = merkleParentHash(l, r)
    BY UpperLayersAreNodes
  <1>4. \A k \in Nat : k <= x /\ k <= y => f[x - k] = g[y - k]
    BY EqualFromRoot
  <1> HIDE DEF f, g, x, y
  <1>5. x \in Nat /\ y \in Nat
    BY <1>1
  <1>6. CASE x < y
    <2>1. x <= x /\ x <= y /\ x - x = 0 /\ y - x \in 1 .. Len(b)
      BY <1>1, <1>5, <1>6
    <2>2. a[1] = g[y - x][1]
      BY <1>2, <1>4, <1>5, <2>1
    <2> QED
      BY <1>3, <2>1, <2>2 DEF receiptChainHeadLeafHash, merkleParentHash
  <1>7. CASE y < x
    <2>1. y <= x /\ y <= y /\ y - y = 0 /\ x - y \in 1 .. Len(a)
      BY <1>1, <1>5, <1>7
    <2>2. b[1] = f[x - y][1]
      BY <1>2, <1>4, <1>5, <2>1
    <2> QED
      BY <1>3, <2>1, <2>2 DEF receiptChainHeadLeafHash, merkleParentHash
  <1>8. CASE x = y
    <2>1. x <= x /\ x <= y /\ x - x = 0 /\ y - x = 0
      BY <1>5, <1>8
    <2> QED
      BY <1>2, <1>4, <1>5, <2>1
  <1> QED
    BY <1>5, <1>6, <1>7, <1>8

\* The first hash of a bottom is a leaf's.
LEMMA FirstIsLeaf ==
    ASSUME NEW list \in Seq(ChainHead), leafHashes(list) # << >>
    PROVE  \E leaf : leafHashes(list)[1] = receiptChainHeadLeafHash(leaf)
  <1> DEFINE bottom == leafHashes(list)
  <1>1. Distinct(bottom)
    BY LeafHashes
  <1>2. 1 \in DOMAIN bottom
    <2> HIDE DEF bottom
    <2>1. Len(bottom) \in Nat \ {0} /\ DOMAIN bottom = 1 .. Len(bottom)
      BY <1>1, DistinctLength
    <2> QED
      BY <2>1
  <1> QED
    BY <1>2, LeafHashes

\* A root is the empty one or a hash of one of the two kinds.
LEMMA RootKind ==
    ASSUME NEW list \in Seq(ChainHead), leafHashes(list) # << >>
    PROVE  merkleRootForLeaves(list) # << "empty" >>
  <1> DEFINE bottom == leafHashes(list)
             f == layersOver(bottom)
             x == height(bottom)
  <1>1. Distinct(bottom)
    BY LeafHashes
  <1>2. Len(bottom) \in Nat /\ x \in 0 .. Len(bottom)
    BY <1>1, DistinctLength, Height
  <1>3. merkleRootForLeaves(list) = f[x][1]
    BY DEF merkleRootForLeaves
  <1>4. \/ \E leaf : f[x][1] = receiptChainHeadLeafHash(leaf)
        \/ \E l, r : f[x][1] = merkleParentHash(l, r)
    <2>1. CASE x = 0
      <3>1. f[0] = bottom
        BY <1>2, LayersOver DEF Layers
      <3> QED
        BY <2>1, <3>1, FirstIsLeaf
    <2>2. CASE x # 0
      <3>1. x \in 1 .. Len(bottom)
        <4> HIDE DEF x
        <4> QED
          BY <1>2, <2>2
      <3> QED
        BY <1>1, <3>1, UpperLayersAreNodes
    <2> QED
      BY <2>1, <2>2
  <1> HIDE DEF f, x
  <1> QED
    BY <1>3, <1>4 DEF receiptChainHeadLeafHash, merkleParentHash

\* Lists of heads with the same root have the same leaves.
LEMMA RootBinds ==
    ASSUME NEW list \in Seq(ChainHead), NEW list2 \in Seq(ChainHead),
           merkleRootForLeaves(list) = merkleRootForLeaves(list2)
    PROVE  normalizeChainHeadLeaves(list) = normalizeChainHeadLeaves(list2)
  <1> DEFINE a == leafHashes(list)
             b == leafHashes(list2)
             l == normalizeChainHeadLeaves(list)
             r == normalizeChainHeadLeaves(list2)
  <1>1. a = b
    <2>1. CASE a = << >> \/ b = << >>
      BY <2>1, RootKind DEF merkleRootForLeaves
    <2>2. CASE a # << >> /\ b # << >>
      <3>1. Distinct(a) /\ Distinct(b)
        BY <2>2, LeafHashes
      <3>2. layersOver(a)[height(a)][1] = layersOver(b)[height(b)][1]
        BY <2>2 DEF merkleRootForLeaves
      <3>3. /\ \E leaf : a[1] = receiptChainHeadLeafHash(leaf)
            /\ \E leaf : b[1] = receiptChainHeadLeafHash(leaf)
        BY <2>2, FirstIsLeaf
      <3> HIDE DEF a, b
      <3> QED
        BY <3>1, <3>2, <3>3, BottomsEqual
    <2> QED
      BY <2>1, <2>2
  <1>2. /\ DOMAIN l = DOMAIN a /\ \A i \in DOMAIN a : a[i] = receiptChainHeadLeafHash(l[i])
        /\ DOMAIN r = DOMAIN b /\ \A i \in DOMAIN b : b[i] = receiptChainHeadLeafHash(r[i])
    BY LeafHashes
  <1>3. l = [i \in DOMAIN l |-> l[i]] /\ r = [i \in DOMAIN r |-> r[i]]
    BY DEF normalizeChainHeadLeaves
  <1> HIDE DEF a, b, l, r
  <1>4. \A i \in DOMAIN l : l[i] = r[i]
    BY <1>1, <1>2 DEF receiptChainHeadLeafHash
  <1>5. l = r
    BY <1>1, <1>2, <1>3, <1>4
  <1> QED
    BY <1>5 DEF l, r

-----------------------------------------------------------------------------

\* For every list of heads, of whatever length, buildMerkleInclusionProof
\* gives for each normalised head a proof that verifyMerkleInclusionProof
\* accepts under the root merkleRootForLeaves gives.
THEOREM CheckpointProofsVerifyAlways == TreeSpec => []CheckpointProofsVerify
  <1>1. TreeInit => CheckpointProofsVerify
    <2> SUFFICES ASSUME TreeInit, NEW i \in DOMAIN normalizeChainHeadLeaves(heads)
                 PROVE  \E proof \in buildMerkleInclusionProof(
                                heads, normalizeChainHeadLeaves(heads)[i]) :
                            verifyMerkleInclusionProof(
                                proof, merkleRootForLeaves(heads))
      BY DEF CheckpointProofsVerify
    <2>1. heads \in Seq(ChainHead)
      BY HeadsAssumption DEF TreeInit
    <2>2. verifyMerkleInclusionProof(proofAt(heads, i), merkleRootForLeaves(heads))
      BY <2>1, ProofVerifies
    <2>3. proofAt(heads, i) \in buildMerkleInclusionProof(
                                    heads, normalizeChainHeadLeaves(heads)[i])
      BY DEF buildMerkleInclusionProof
    <2> QED
      BY <2>2, <2>3
  <1>2. CheckpointProofsVerify /\ UNCHANGED << heads, other >> => CheckpointProofsVerify'
    BY DEF CheckpointProofsVerify
  <1> QED
    BY <1>1, <1>2, PTL DEF TreeSpec

\* Two lists of heads with the same merkleRootForLeaves are the same once
\* normalised: completing an odd layer by its own last hash makes no two
\* trees alike, as no head occurs twice.
THEOREM CheckpointRootsBindAlways == TreeSpec => []CheckpointRootsBind
  <1>1. TreeInit => CheckpointRootsBind
    BY HeadsAssumption, RootBinds DEF TreeInit, CheckpointRootsBind
  <1>2. CheckpointRootsBind /\ UNCHANGED << heads, other >> => CheckpointRootsBind'
    BY DEF CheckpointRootsBind
  <1> QED
    BY <1>1, <1>2, PTL DEF TreeSpec

=============================================================================
