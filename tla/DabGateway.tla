----------------------------- MODULE DabGateway -----------------------------
(***************************************************************************)
(* The DAB Tier-0 gateway: the threads that serve agent requests           *)
(* (dab/gateway/src/main.rs, handle_client) on the shared replay ledger    *)
(* (dab/gateway/src/nonce.rs), and the ledger's garbage collector.         *)
(*                                                                         *)
(* consume and the collector's handoff of one nonce hold transition_lock,  *)
(* so each is one step.  The collector's scan, its update of active_count  *)
(* and its pruning hold no lock.  The ledger is in memory: a restart of    *)
(* the gateway empties it.                                                 *)
(***************************************************************************)
EXTENDS Integers, FiniteSets

CONSTANTS
    Requests,       \* well-formed requests sent to the socket
    Nonces,
    NonceOf,        \* [Requests -> Nonces]
    Declared,       \* c_i of each request
    Derived,        \* the digest of its decoded payload, or Undecodable
    HasCollector,   \* whether a thread runs run_garbage_collection
    MaxLedger,      \* MAX_LEDGER_ENTRIES
    MaxSpent,       \* max_spent
    Ttl,            \* ttl_seconds
    WordSize,       \* 2^64: u64 subtraction wraps
    MaxClock,       \* bound on the seconds that pass
    MaxRestarts     \* bound on the restarts of the gateway

Undecodable == "undecodable"

ASSUME DabGatewayAssumption ==
    /\ NonceOf \in [Requests -> Nonces]
    /\ HasCollector \in BOOLEAN
    /\ {MaxLedger, MaxSpent, Ttl, MaxClock, MaxRestarts} \subseteq Nat
    /\ WordSize \in Nat /\ WordSize > MaxClock + Ttl
    /\ \A r \in Requests : Declared[r] # Undecodable

VARIABLES
    entries,        \* active nonces
    createdAt,      \* [Nonces -> created_at of its entry, 0 when it has none]
    spent,          \* tombstones
    activeCount,    \* active_count
    clock,          \* current_timestamp
    stage,          \* where each request's thread is
    receipt,        \* the status of the receipt it was sent
    sent,           \* requests whose bytes were posted to their target
    remembered,     \* requests admitted since their nonce was last forgotten
    gc,             \* where the collector is
    gcNow,          \* `now` of its pass
    gcSeen,         \* entries present when its scan began
    toArchive, archivedCount,
    toRemove,       \* tombstones it is going to prune
    restarts        \* restarts so far

ledger == << entries, createdAt, spent, activeCount >>
threads == << stage, receipt, sent >>
collector == << gc, gcNow, gcSeen, toArchive, archivedCount, toRemove >>
vars == << entries, createdAt, spent, activeCount, clock, stage, receipt,
           sent, remembered, gc, gcNow, gcSeen, toArchive, archivedCount,
           toRemove, restarts >>

Receipts == { "none", "CERTIFIED", "REPLAY_REJECTED",
              "MUTATION_DETECTED_HALT" }

Init ==
    /\ entries = {}
    /\ createdAt = [n \in Nonces |-> 0]
    /\ spent = {}
    /\ activeCount = 0
    /\ clock = 0
    /\ stage = [r \in Requests |-> "arriving"]
    /\ receipt = [r \in Requests |-> "none"]
    /\ sent = {}
    /\ remembered = {}
    /\ gc = "idle"
    /\ gcNow = 0
    /\ gcSeen = {}
    /\ toArchive = {}
    /\ archivedCount = 0
    /\ toRemove = {}
    /\ restarts = 0

-----------------------------------------------------------------------------
(* A request's thread: handle_client                                       *)

\* Mutant of admissible: tombstones are not looked at.
admissibleUnlessActive(n) == n \notin entries /\ activeCount < MaxLedger

\* The three rejections of consume.
admissible(n) ==
    /\ n \notin spent
    /\ n \notin entries
    /\ activeCount < MaxLedger

\* consume returned true.
Consume(r) ==
    LET n == NonceOf[r] IN
    /\ stage[r] = "arriving"
    /\ admissible(n)
    /\ entries' = entries \cup {n}
    /\ createdAt' = [createdAt EXCEPT ![n] = clock]
    /\ activeCount' = activeCount + 1
    /\ remembered' = remembered \cup {r}
    /\ stage' = [stage EXCEPT ![r] = "admitted"]
    /\ UNCHANGED << spent, clock, receipt, sent, collector, restarts >>

\* write_all of a receipt.  A client that has hung up gets none: the unwrap
\* ends the thread, which holds no lock.
Answer(r, status) ==
    /\ receipt' \in {receipt, [receipt EXCEPT ![r] = status]}
    /\ stage' = [stage EXCEPT ![r] = "closed"]

\* consume returned false: replay or capacity.
Reject(r) ==
    /\ stage[r] = "arriving"
    /\ ~admissible(NonceOf[r])
    /\ Answer(r, "REPLAY_REJECTED")
    /\ UNCHANGED << ledger, clock, sent, remembered, collector, restarts >>

\* Mutant of Bind: the declared digest is not compared.
BindTrusting(r) ==
    /\ stage[r] = "admitted"
    /\ \/ /\ Derived[r] = Undecodable
          /\ stage' = [stage EXCEPT ![r] = "closed"]
       \/ /\ Derived[r] # Undecodable
          /\ stage' = [stage EXCEPT ![r] = "bound"]
    /\ UNCHANGED << ledger, clock, receipt, sent, remembered, collector,
                    restarts >>

\* decode_payload, C_E, and C_I == C_E.  The nonce stays consumed.
Bind(r) ==
    /\ stage[r] = "admitted"
    /\ \/ /\ Derived[r] = Undecodable
          /\ stage' = [stage EXCEPT ![r] = "closed"]
          /\ UNCHANGED receipt
       \/ /\ Derived[r] # Undecodable /\ Declared[r] # Derived[r]
          /\ Answer(r, "MUTATION_DETECTED_HALT")
       \/ /\ Declared[r] = Derived[r]
          /\ stage' = [stage EXCEPT ![r] = "bound"]
          /\ UNCHANGED receipt
    /\ UNCHANGED << ledger, clock, sent, remembered, collector, restarts >>

\* execute_request: the decoded bytes reach the target.
Post(r) ==
    /\ stage[r] = "bound"
    /\ sent' = sent \cup {r}
    /\ stage' = [stage EXCEPT ![r] = "posted"]
    /\ UNCHANGED << ledger, clock, receipt, remembered, collector, restarts >>

\* execute_request returned an error: it never reached the target, or the
\* target's answer did not come within ten seconds.  No receipt is written.
ExecuteFails(r) ==
    /\ stage[r] \in {"bound", "posted"}
    /\ stage' = [stage EXCEPT ![r] = "closed"]
    /\ UNCHANGED << ledger, clock, receipt, sent, remembered, collector,
                    restarts >>

\* The target answered: build_certified_receipt, and the reply.
Certify(r) ==
    /\ stage[r] = "posted"
    /\ Answer(r, "CERTIFIED")
    /\ UNCHANGED << ledger, clock, sent, remembered, collector, restarts >>

Serve(r) ==
    \/ Consume(r) \/ Reject(r) \/ Bind(r)
    \/ Post(r) \/ ExecuteFails(r) \/ Certify(r)

-----------------------------------------------------------------------------
(* The collector: run_garbage_collection                                   *)

BeginPass ==
    /\ HasCollector
    /\ gc = "idle"
    /\ gcNow' = clock
    /\ gcSeen' = entries
    /\ gc' = "scan"
    /\ UNCHANGED << ledger, clock, threads, remembered, toArchive,
                    archivedCount, toRemove, restarts >>

\* Mutant: off by one at the TTL.
expiredLate(n) == (gcNow - createdAt[n]) % WordSize > Ttl

\* now - created_at >= ttl_seconds.  A nonce admitted after `now` was read
\* may be younger than the pass: the subtraction wraps in a release build.
expired(n) == (gcNow - createdAt[n]) % WordSize >= Ttl

\* Mutant of Scan: the count is lowered before the nonces leave.
ScanCounts ==
    /\ gc = "scan"
    /\ toArchive' = {n \in gcSeen : expired(n)}
    /\ activeCount' = activeCount - Cardinality(toArchive')
    /\ gc' = "archive"
    /\ gcNow' = 0 /\ gcSeen' = {}
    /\ UNCHANGED << entries, createdAt, spent, clock, threads, remembered,
                    archivedCount, toRemove, restarts >>

\* The iteration meets every entry that was there when it began, and may or
\* may not meet the ones inserted since.
Scan ==
    /\ gc = "scan"
    /\ \E met \in SUBSET (entries \ gcSeen) :
          toArchive' = {n \in gcSeen \cup met : expired(n)}
    /\ gc' = "archive"
    /\ gcNow' = 0 /\ gcSeen' = {}
    /\ UNCHANGED << ledger, clock, threads, remembered, archivedCount,
                    toRemove, restarts >>

\* Mutant of Archive: the tombstone is set and the entry removed in two
\* steps, without the lock around both.
ArchiveUnlocked(n) ==
    /\ gc = "archive"
    /\ n \in toArchive
    /\ \/ /\ n \notin spent
          /\ spent' = spent \cup {n}
          /\ UNCHANGED << entries, archivedCount, toArchive, createdAt >>
       \/ /\ n \in spent
          /\ entries' = entries \ {n}
          /\ archivedCount' = archivedCount + 1
          /\ createdAt' = [createdAt EXCEPT ![n] = 0]
          /\ toArchive' = toArchive \ {n}
          /\ UNCHANGED spent
    /\ UNCHANGED << activeCount, clock, threads, remembered, gc, gcNow,
                    gcSeen, toRemove, restarts >>

\* One nonce is handed over, under transition_lock.
Archive(n) ==
    /\ gc = "archive"
    /\ n \in toArchive
    /\ spent' = spent \cup {n}
    /\ entries' = entries \ {n}
    /\ archivedCount' = IF n \in entries THEN archivedCount + 1
                                         ELSE archivedCount
    /\ createdAt' = [createdAt EXCEPT ![n] = 0]
    /\ toArchive' = toArchive \ {n}
    /\ UNCHANGED << activeCount, clock, threads, remembered, gc, gcNow,
                    gcSeen, toRemove, restarts >>

\* fetch_sub, when anything was archived.
Discount ==
    /\ gc = "archive"
    /\ toArchive = {}
    /\ activeCount' = activeCount - archivedCount
    /\ archivedCount' = 0
    /\ gc' = "prune"
    /\ UNCHANGED << entries, createdAt, spent, clock, threads, remembered,
                    gcNow, gcSeen, toArchive, toRemove, restarts >>

\* The excess tombstones are picked in the set's own, arbitrary order.
PickExcess ==
    /\ gc = "prune"
    /\ toRemove' \in {s \in SUBSET spent :
                        Cardinality(s) = IF Cardinality(spent) > MaxSpent
                                         THEN Cardinality(spent) - MaxSpent
                                         ELSE 0}
    /\ gc' = "remove"
    /\ UNCHANGED << ledger, clock, threads, remembered, gcNow, gcSeen,
                    toArchive, archivedCount, restarts >>

\* A tombstone is dropped: its nonce is forgotten.
Prune(n) ==
    /\ gc = "remove"
    /\ n \in toRemove
    /\ spent' = spent \ {n}
    /\ toRemove' = toRemove \ {n}
    /\ remembered' = {r \in remembered : NonceOf[r] # n}
    /\ UNCHANGED << entries, createdAt, activeCount, clock, threads, gc,
                    gcNow, gcSeen, toArchive, archivedCount, restarts >>

EndPass ==
    /\ gc = "remove"
    /\ toRemove = {}
    /\ gc' = "idle"
    /\ UNCHANGED << ledger, clock, threads, remembered, gcNow, gcSeen,
                    toArchive, archivedCount, toRemove, restarts >>

Collect ==
    \/ BeginPass \/ Scan \/ Discount \/ PickExcess \/ EndPass
    \/ \E n \in Nonces : Archive(n) \/ Prune(n)

-----------------------------------------------------------------------------
(* Time and restarts                                                       *)

Tick ==
    /\ clock < MaxClock
    /\ clock' = clock + 1
    /\ UNCHANGED << ledger, threads, remembered, collector, restarts >>

\* The gateway dies with its ledger; requests in flight are cut off.
Restart ==
    /\ restarts < MaxRestarts
    /\ restarts' = restarts + 1
    /\ entries' = {} /\ spent' = {} /\ activeCount' = 0
    /\ createdAt' = [n \in Nonces |-> 0]
    /\ stage' = [r \in Requests |->
                   IF stage[r] = "arriving" THEN "arriving" ELSE "closed"]
    /\ remembered' = {}
    /\ gc' = "idle" /\ gcNow' = 0 /\ gcSeen' = {}
    /\ toArchive' = {} /\ archivedCount' = 0 /\ toRemove' = {}
    /\ UNCHANGED << clock, receipt, sent >>

\* The gateway waits for requests that do not come.
Quiet ==
    /\ \A r \in Requests : stage[r] = "closed"
    /\ UNCHANGED vars

Next ==
    \/ \E r \in Requests : Serve(r)
    \/ Collect
    \/ Tick
    \/ Restart
    \/ Quiet

Spec == Init /\ [][Next]_vars

\* Threads that can run do, the collector thread loops, and time passes.
FairSpec == /\ Spec
            /\ \A r \in Requests : WF_vars(Serve(r))
            /\ WF_vars(Collect)
            /\ WF_vars(Tick)

-----------------------------------------------------------------------------
(* Properties                                                              *)

\* Every variable holds what the code can put there; the counter, a usize,
\* never wraps below zero.
TypeOK ==
    /\ entries \subseteq Nonces /\ spent \subseteq Nonces
    /\ createdAt \in [Nonces -> Nat]
    /\ activeCount \in Nat /\ archivedCount \in Nat
    /\ clock \in Nat /\ gcNow \in Nat /\ restarts \in Nat
    /\ stage \in [Requests ->
                    {"arriving", "admitted", "bound", "posted", "closed"}]
    /\ receipt \in [Requests -> Receipts]
    /\ sent \subseteq Requests /\ remembered \subseteq Requests
    /\ gc \in {"idle", "scan", "archive", "prune", "remove"}
    /\ gcSeen \subseteq Nonces /\ toArchive \subseteq Nonces
    /\ toRemove \subseteq Nonces

\* While the ledger remembers a nonce, at most one request carrying it has
\* its bytes posted to a target, whatever the collector is doing meanwhile;
\* only a pruned tombstone or a restart lets a nonce in again.
NoReplays ==
    \A p, q \in sent \cap remembered : NonceOf[p] = NonceOf[q] => p = q

\* A nonce is active or spent, never both (the invariant that the unit test
\* of the collector race asserts).
ActiveOrSpent == entries \cap spent = {}

\* Only bytes with the declared digest leave the gateway, and a certified
\* receipt is given only for bytes that did.
CertifiedWasSent ==
    \A r \in Requests :
        /\ r \in sent => Declared[r] = Derived[r]
        /\ receipt[r] = "CERTIFIED" => r \in sent

\* The capacity guard holds though active_count is lowered late and without
\* the lock: it never counts fewer entries than there are, and a pass that
\* ended has left nothing uncounted.
CapacityHeld ==
    /\ Cardinality(entries) <= activeCount
    /\ activeCount <= MaxLedger
    /\ gc = "idle" => activeCount = Cardinality(entries)

\* EventualGC: an active nonce whose TTL has passed leaves the ledger.
EventualGC ==
    \A n \in Nonces :
        (n \in entries /\ createdAt[n] + Ttl <= clock) ~> n \notin entries

-----------------------------------------------------------------------------
(* The inductive invariant                                                 *)

\* Requests past admission keep their nonce in the ledger while remembered.
Remembers ==
    /\ \A r \in remembered : NonceOf[r] \in entries \cup spent
    /\ \A p, q \in remembered : NonceOf[p] = NonceOf[q] => p = q

\* What has been posted or admitted is told by the stage.
ThreadsAgree ==
    \A r \in Requests :
        /\ stage[r] \in {"bound", "posted"} => Declared[r] = Derived[r]
        /\ stage[r] = "posted" => r \in sent

\* The counter is ahead of the entries by what the pass has handed over and
\* not discounted yet.
CollectorAgrees ==
    /\ IsFiniteSet(entries)
    /\ gc # "archive" => archivedCount = 0
    /\ activeCount = Cardinality(entries) + archivedCount

Inv ==
    /\ TypeOK
    /\ ActiveOrSpent
    /\ Remembers
    /\ ThreadsAgree
    /\ CertifiedWasSent
    /\ CollectorAgrees
    /\ activeCount <= MaxLedger

-----------------------------------------------------------------------------
(* What the gateway forgets                                                *)

\* The tombstones a pass is going to prune are there, and enough others stay.
ExcessOnly ==
    /\ IsFiniteSet(spent)
    /\ gc = "remove" =>
          /\ toRemove \subseteq spent
          /\ toRemove # {} => Cardinality(spent \ toRemove) >= MaxSpent

\* A nonce the gateway knows is forgotten only as a tombstone, while max_spent
\* others are kept, or with the whole ledger: one that is active never is
\* (the pruning of run_garbage_collection, which holds no lock).
ForgetsOnlyExcess ==
    [][\A n \in Nonces :
          n \in entries \cup spent /\ n \notin entries' \cup spent' =>
              \/ restarts' = restarts + 1
              \/ n \notin entries /\ Cardinality(spent') >= MaxSpent]_vars
=============================================================================
