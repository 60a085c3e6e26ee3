-------------------------- MODULE DabGatewayProofs --------------------------
(***************************************************************************)
(* Proofs about DabGateway, for any sets of requests and nonces, any       *)
(* capacity, TTL and number of restarts, and with or without a collector.  *)
(***************************************************************************)
EXTENDS DabGateway, FiniteSetTheorems, TLAPS

\* The empty ledger of with_config satisfies the inductive invariant.
LEMMA InitInv == Init => Inv
  BY FS_EmptySet, DabGatewayAssumption
  DEF Init, Inv, TypeOK, ActiveOrSpent, Remembers, ThreadsAgree,
      CertifiedWasSent, CollectorAgrees, Receipts, DabGatewayAssumption

-----------------------------------------------------------------------------
(* The threads of the requests                                             *)

\* An admission keeps the invariant: the nonce was in neither map.
LEMMA ConsumeInv ==
  ASSUME Inv, NEW r \in Requests, Consume(r)
  PROVE  Inv'
<1> DEFINE n == NonceOf[r]
<1>1. n \in Nonces /\ n \notin entries /\ n \notin spent
  BY DabGatewayAssumption DEF DabGatewayAssumption, Consume, admissible
<1>2. TypeOK'
  BY <1>1 DEF Inv, TypeOK, Consume, collector
<1>3. ActiveOrSpent'
  BY <1>1 DEF Inv, ActiveOrSpent, Consume
<1>4. Remembers'
  <2>1. \A p \in remembered : NonceOf[p] # n
    BY <1>1 DEF Inv, Remembers
  <2> QED
    BY <2>1 DEF Inv, Remembers, Consume
<1>5. ThreadsAgree' /\ CertifiedWasSent'
  BY DEF Inv, TypeOK, ThreadsAgree, CertifiedWasSent, Consume
<1>6. CollectorAgrees' /\ activeCount' <= MaxLedger
  <2>1. IsFiniteSet(entries')
        /\ Cardinality(entries') = Cardinality(entries) + 1
    BY <1>1, FS_AddElement DEF Inv, CollectorAgrees, Consume
  <2>2. activeCount \in Nat /\ archivedCount \in Nat
        /\ Cardinality(entries) \in Nat
    BY FS_CardinalityType DEF Inv, TypeOK, CollectorAgrees
  <2>3. activeCount' <= MaxLedger
    BY <2>2, DabGatewayAssumption
    DEF Consume, admissible, DabGatewayAssumption
  <2> QED
    BY <2>1, <2>2, <2>3 DEF Inv, CollectorAgrees, Consume, collector
<1> QED
  BY <1>2, <1>3, <1>4, <1>5, <1>6 DEF Inv

\* The threads that only talk to a client or a target keep the invariant.
LEMMA ThreadInv ==
  ASSUME Inv, NEW r \in Requests,
         Reject(r) \/ Bind(r) \/ Post(r) \/ ExecuteFails(r) \/ Certify(r)
  PROVE  Inv'
<1>1. UNCHANGED << ledger, clock, remembered, collector, restarts >>
  BY DEF Reject, Bind, Post, ExecuteFails, Certify
<1>2. /\ stage' \in [Requests -> {"arriving", "admitted", "bound", "posted",
                                  "closed"}]
      /\ receipt' \in [Requests -> Receipts]
      /\ sent' \subseteq Requests
  BY DEF Inv, TypeOK, Reject, Bind, Post, ExecuteFails, Certify, Answer,
         Receipts
<1>3. ThreadsAgree' /\ CertifiedWasSent'
  <2>1. CASE Reject(r)
    BY <2>1 DEF Inv, TypeOK, ThreadsAgree, CertifiedWasSent, Reject, Answer
  <2>2. CASE Bind(r)
    BY <2>2 DEF Inv, TypeOK, ThreadsAgree, CertifiedWasSent, Bind, Answer
  <2>3. CASE Post(r)
    BY <2>3 DEF Inv, TypeOK, ThreadsAgree, CertifiedWasSent, Post
  <2>4. CASE ExecuteFails(r)
    BY <2>4 DEF Inv, TypeOK, ThreadsAgree, CertifiedWasSent, ExecuteFails
  <2>5. CASE Certify(r)
    BY <2>5 DEF Inv, TypeOK, ThreadsAgree, CertifiedWasSent, Certify, Answer
  <2> QED
    BY <2>1, <2>2, <2>3, <2>4, <2>5
<1> QED
  BY <1>1, <1>2, <1>3
  DEF Inv, TypeOK, ActiveOrSpent, Remembers, CollectorAgrees, ledger,
      collector

-----------------------------------------------------------------------------
(* The collector                                                           *)

\* Beginning a pass, scanning, picking the excess and ending a pass leave the
\* ledger alone.
LEMMA PassInv ==
  ASSUME Inv, BeginPass \/ Scan \/ PickExcess \/ EndPass
  PROVE  Inv'
<1>1. UNCHANGED << ledger, clock, threads, remembered, archivedCount,
                   restarts >>
  BY DEF BeginPass, Scan, PickExcess, EndPass
<1>2. /\ gcNow' \in Nat
      /\ gc' \in {"idle", "scan", "archive", "prune", "remove"}
      /\ gcSeen' \subseteq Nonces /\ toArchive' \subseteq Nonces
      /\ toRemove' \subseteq Nonces
  BY DEF Inv, TypeOK, BeginPass, Scan, PickExcess, EndPass, expired
<1>3. gc # "archive" /\ archivedCount = 0
  BY DEF Inv, CollectorAgrees, BeginPass, Scan, PickExcess, EndPass
<1> QED
  BY <1>1, <1>2, <1>3
  DEF Inv, TypeOK, ActiveOrSpent, Remembers, ThreadsAgree, CertifiedWasSent,
      CollectorAgrees, ledger, threads

\* The handoff of one nonce keeps it remembered, and counts it.
LEMMA ArchiveInv ==
  ASSUME Inv, NEW n \in Nonces, Archive(n)
  PROVE  Inv'
<1>1. IsFiniteSet(entries')
      /\ Cardinality(entries') = IF n \in entries THEN Cardinality(entries) - 1
                                                  ELSE Cardinality(entries)
  BY FS_RemoveElement DEF Inv, CollectorAgrees, Archive
<1>2. archivedCount \in Nat /\ Cardinality(entries) \in Nat
  BY FS_CardinalityType DEF Inv, TypeOK, CollectorAgrees
<1>3. TypeOK'
  BY <1>2 DEF Inv, TypeOK, Archive, threads
<1>4. ActiveOrSpent' /\ Remembers'
  BY DEF Inv, ActiveOrSpent, Remembers, Archive
<1>5. ThreadsAgree' /\ CertifiedWasSent'
  BY DEF Inv, ThreadsAgree, CertifiedWasSent, Archive, threads
<1>6. CollectorAgrees'
  BY <1>1, <1>2 DEF Inv, CollectorAgrees, Archive
<1> QED
  BY <1>3, <1>4, <1>5, <1>6 DEF Inv, Archive

\* fetch_sub brings the counter back to the number of entries; it cannot
\* wrap below zero.
LEMMA DiscountInv ==
  ASSUME Inv, Discount
  PROVE  Inv'
<1>1. /\ archivedCount \in Nat /\ Cardinality(entries) \in Nat
      /\ activeCount = Cardinality(entries) + archivedCount
  BY FS_CardinalityType DEF Inv, TypeOK, CollectorAgrees
<1>2. activeCount' = Cardinality(entries) /\ activeCount' <= activeCount
  BY <1>1 DEF Discount
<1>3. TypeOK'
  BY <1>1, <1>2 DEF Inv, TypeOK, Discount, threads
<1>4. CollectorAgrees'
  BY <1>1, <1>2 DEF Inv, CollectorAgrees, Discount
<1>5. activeCount' <= MaxLedger
  BY <1>1, <1>2, DabGatewayAssumption DEF Inv, DabGatewayAssumption
<1> QED
  BY <1>3, <1>4, <1>5
  DEF Inv, ActiveOrSpent, Remembers, ThreadsAgree, CertifiedWasSent,
      Discount, threads

\* A pruned tombstone is forgotten with the requests that carried its nonce.
LEMMA PruneInv ==
  ASSUME Inv, NEW n \in Nonces, Prune(n)
  PROVE  Inv'
<1>1. TypeOK' /\ ActiveOrSpent' /\ Remembers'
  BY DEF Inv, TypeOK, ActiveOrSpent, Remembers, Prune, threads
<1>2. ThreadsAgree' /\ CertifiedWasSent' /\ CollectorAgrees'
  BY DEF Inv, ThreadsAgree, CertifiedWasSent, CollectorAgrees, Prune, threads
<1> QED
  BY <1>1, <1>2 DEF Inv, Prune

-----------------------------------------------------------------------------
(* Time and restarts                                                       *)

\* Time passes beside the ledger.
LEMMA TickInv ==
  ASSUME Inv, Tick
  PROVE  Inv'
  BY DEF Inv, TypeOK, ActiveOrSpent, Remembers, ThreadsAgree,
         CertifiedWasSent, CollectorAgrees, Tick, ledger, threads, collector

\* A restart forgets everything at once, and cuts off what is in flight.
LEMMA RestartInv ==
  ASSUME Inv, Restart
  PROVE  Inv'
<1>1. TypeOK'
  BY DEF Inv, TypeOK, Restart
<1>2. ThreadsAgree' /\ CertifiedWasSent'
  BY DEF Inv, TypeOK, ThreadsAgree, CertifiedWasSent, Restart
<1>3. CollectorAgrees' /\ activeCount' <= MaxLedger
  BY FS_EmptySet, DabGatewayAssumption
  DEF CollectorAgrees, Restart, DabGatewayAssumption
<1> QED
  BY <1>1, <1>2, <1>3 DEF Inv, ActiveOrSpent, Remembers, Restart

-----------------------------------------------------------------------------
(* Theorems                                                                *)

\* Every step of every thread, of the collector and of the environment keeps
\* the inductive invariant.
LEMMA NextInv == Inv /\ [Next]_vars => Inv'
<1> SUFFICES ASSUME Inv, [Next]_vars
             PROVE  Inv'
  OBVIOUS
<1>1. ASSUME NEW r \in Requests, Serve(r)
      PROVE  Inv'
  BY <1>1, ConsumeInv, ThreadInv DEF Serve
<1>2. CASE Collect
  BY <1>2, PassInv, DiscountInv, ArchiveInv, PruneInv DEF Collect
<1>3. CASE UNCHANGED vars
  BY <1>3
  DEF Inv, TypeOK, ActiveOrSpent, Remembers, ThreadsAgree, CertifiedWasSent,
      CollectorAgrees, vars
<1> QED
  BY <1>1, <1>2, <1>3, TickInv, RestartInv DEF Next, Quiet

\* The inductive invariant of the gateway, its ledger and its collector.
THEOREM InvCorrect == Spec => []Inv
  BY InitInv, NextInv, PTL DEF Spec

\* The gateway stays well typed; in particular active_count, from which the
\* collector subtracts without the lock, never wraps below zero.
THEOREM TypeCorrect == Spec => []TypeOK
<1>1. Inv => TypeOK
  BY DEF Inv
<1> QED
  BY <1>1, InvCorrect, PTL

\* While the ledger remembers a nonce, one request at most carrying it is
\* posted, whatever the interleaving of admissions and collection.
THEOREM NoReplaysAlways == Spec => []NoReplays
<1>1. Inv => NoReplays
  BY DEF Inv, Remembers, NoReplays
<1> QED
  BY <1>1, InvCorrect, PTL

\* A nonce is never active and spent at once.
THEOREM ActiveOrSpentAlways == Spec => []ActiveOrSpent
<1>1. Inv => ActiveOrSpent
  BY DEF Inv
<1> QED
  BY <1>1, InvCorrect, PTL

\* Only bytes with the declared digest are posted, and only posted bytes are
\* certified.
THEOREM CertifiedWasSentAlways == Spec => []CertifiedWasSent
<1>1. Inv => CertifiedWasSent
  BY DEF Inv
<1> QED
  BY <1>1, InvCorrect, PTL

\* The capacity guard of consume holds for every capacity.
THEOREM CapacityHeldAlways == Spec => []CapacityHeld
<1>1. Inv => CapacityHeld
  <2> SUFFICES ASSUME Inv
               PROVE  CapacityHeld
    OBVIOUS
  <2>1. archivedCount \in Nat /\ Cardinality(entries) \in Nat
    BY FS_CardinalityType DEF Inv, TypeOK, CollectorAgrees
  <2> QED
    BY <2>1 DEF Inv, CollectorAgrees, CapacityHeld
<1> QED
  BY <1>1, InvCorrect, PTL

-----------------------------------------------------------------------------
(* What the gateway forgets                                                *)

\* A pass picks no more tombstones than there are in excess.
LEMMA PickExcessOnly ==
  ASSUME IsFiniteSet(spent), PickExcess
  PROVE  /\ toRemove' \subseteq spent
         /\ toRemove' # {} => Cardinality(spent \ toRemove') >= MaxSpent
<1> DEFINE s == toRemove'
           excess == IF Cardinality(spent) > MaxSpent
                     THEN Cardinality(spent) - MaxSpent ELSE 0
<1>1. s \subseteq spent /\ Cardinality(s) = excess
  BY DEF PickExcess
<1>2. MaxSpent \in Nat /\ Cardinality(spent) \in Nat
  BY FS_CardinalityType, DabGatewayAssumption
<1>3. ASSUME s # {} PROVE Cardinality(spent \ s) >= MaxSpent
  <2>1. IsFiniteSet(s)
    BY <1>1, FS_Subset
  <2>2. Cardinality(s) # 0
    BY <1>3, <2>1, FS_EmptySet
  <2>3. Cardinality(spent) > MaxSpent /\ Cardinality(s) = Cardinality(spent) - MaxSpent
    BY <1>1, <2>2
  <2>4. spent \cap s = s
    BY <1>1
  <2>5. Cardinality(spent \ s) = Cardinality(spent) - Cardinality(s)
    BY <2>4, FS_Difference
  <2> QED
    BY <1>2, <2>3, <2>5
<1> QED
  BY <1>1, <1>3

\* Every step keeps the tombstones finite and the pick within the excess.
LEMMA ExcessStep ==
  ASSUME Inv, ExcessOnly, [Next]_vars
  PROVE  ExcessOnly'
<1>1. ASSUME NEW n \in Nonces, Archive(n) PROVE ExcessOnly'
  BY <1>1, FS_AddElement DEF Archive, ExcessOnly
<1>2. ASSUME NEW n \in Nonces, Prune(n) PROVE ExcessOnly'
  <2>1. /\ spent' = spent \ {n} /\ toRemove' = toRemove \ {n} /\ n \in toRemove
        /\ toRemove \subseteq spent
        /\ Cardinality(spent \ toRemove) >= MaxSpent
    BY <1>2 DEF Prune, ExcessOnly
  <2>2. spent' \ toRemove' = spent \ toRemove /\ toRemove' \subseteq spent'
    BY <2>1
  <2>3. IsFiniteSet(spent')
    BY <2>1, FS_Subset DEF ExcessOnly
  <2> QED
    BY <2>1, <2>2, <2>3 DEF ExcessOnly
<1>3. ASSUME PickExcess PROVE ExcessOnly'
  <2>1. spent' = spent /\ IsFiniteSet(spent)
    BY <1>3 DEF PickExcess, ledger, ExcessOnly
  <2> QED
    BY <1>3, <2>1, PickExcessOnly DEF ExcessOnly
<1>4. ASSUME Restart PROVE ExcessOnly'
  BY <1>4, FS_EmptySet DEF Restart, ExcessOnly
<1>5. ASSUME BeginPass \/ Scan \/ Discount \/ EndPass PROVE ExcessOnly'
  <2>1. spent' = spent /\ gc' # "remove"
    BY <1>5 DEF BeginPass, Scan, Discount, EndPass, ledger
  <2> QED
    BY <2>1 DEF ExcessOnly
<1>6. ASSUME (\E r \in Requests : Serve(r)) \/ Tick \/ UNCHANGED vars
      PROVE  ExcessOnly'
  <2>1. spent' = spent /\ toRemove' = toRemove /\ gc' = gc
    BY <1>6 DEF Serve, Consume, Reject, Bind, Post, ExecuteFails, Certify,
       Tick, ledger, collector, vars
  <2> QED
    BY <2>1 DEF ExcessOnly
<1> QED
  BY <1>1, <1>2, <1>3, <1>4, <1>5, <1>6 DEF Next, Collect, Quiet

\* The gateway forgets a nonce only with its whole ledger, or as one of the
\* tombstones above max_spent; however the unlocked pruning interleaves with
\* admissions, an active nonce is never forgotten.
THEOREM ForgetsOnlyExcessAlways == Spec => ForgetsOnlyExcess
<1> DEFINE A == \A n \in Nonces :
             n \in entries \cup spent /\ n \notin entries' \cup spent' =>
                 \/ restarts' = restarts + 1
                 \/ n \notin entries /\ Cardinality(spent') >= MaxSpent
<1>1. Init => ExcessOnly
  BY FS_EmptySet DEF Init, ExcessOnly
<1>2. Inv /\ ExcessOnly /\ [Next]_vars => ExcessOnly'
  BY ExcessStep
<1>3. Inv /\ ExcessOnly /\ [Next]_vars => [A]_vars
  <2> SUFFICES ASSUME Inv, ExcessOnly, Next PROVE A \/ UNCHANGED vars
    OBVIOUS
  <2>1. ASSUME NEW m \in Nonces, Prune(m) PROVE A
    <3>1. /\ spent' = spent \ {m} /\ entries' = entries /\ m \in spent
          /\ spent \ toRemove \subseteq spent'
          /\ Cardinality(spent \ toRemove) >= MaxSpent
      BY <2>1 DEF Prune, ExcessOnly
    <3>2. m \notin entries
      BY <3>1 DEF Inv, ActiveOrSpent
    <3>3. /\ IsFiniteSet(spent')
          /\ Cardinality(spent \ toRemove) <= Cardinality(spent')
          /\ IsFiniteSet(spent \ toRemove)
      BY <3>1, FS_Subset DEF ExcessOnly
    <3>4. /\ Cardinality(spent') \in Nat
          /\ Cardinality(spent \ toRemove) \in Nat /\ MaxSpent \in Nat
      BY <3>3, FS_CardinalityType, DabGatewayAssumption
    <3>5. Cardinality(spent') >= MaxSpent
      BY <3>1, <3>3, <3>4
    <3> QED
      BY <3>1, <3>2, <3>5
  <2>2. CASE Restart
    BY <2>2 DEF Restart
  <2>3. ASSUME NEW m \in Nonces, Archive(m) PROVE A
    BY <2>3 DEF Archive
  <2>4. CASE \/ \E r \in Requests : Serve(r)
             \/ BeginPass \/ Scan \/ Discount \/ PickExcess \/ EndPass
             \/ Tick \/ Quiet
    <3>1. entries \subseteq entries' /\ spent' = spent
      BY <2>4 DEF Serve, Consume, Reject, Bind, Post, ExecuteFails, Certify,
         BeginPass, Scan, Discount, PickExcess, EndPass, Tick, Quiet, ledger, vars
    <3> QED
      BY <3>1
  <2> QED
    BY <2>1, <2>2, <2>3, <2>4 DEF Next, Collect
<1> QED
  BY <1>1, <1>2, <1>3, InvCorrect, PTL DEF Spec, ForgetsOnlyExcess
=============================================================================
