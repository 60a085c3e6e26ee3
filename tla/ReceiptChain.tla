---------------------------- MODULE ReceiptChain ----------------------------
(***************************************************************************)
(* Emission and persistence of decision receipts: the emitter's optimistic *)
(* retry loop (receipts/emission.ts) running concurrently with others      *)
(* against the DynamoDB table of receipts, request markers and tenant      *)
(* chain heads (receipts/repository.ts).                                   *)
(*                                                                         *)
(* An emission is one call of DefaultDecisionReceiptEmitter.emit.  Every   *)
(* await of the code is a point where another emission may run, so every   *)
(* read, the signing and the transactional write are separate actions.     *)
(*                                                                         *)
(* Hashes.  A signed receipt hash is modelled by the sequence of entries   *)
(* from the first receipt of the chain to the receipt itself, which is     *)
(* what a collision-free hash over (contents, prev_receipt_hash) pins      *)
(* down.  null is the empty sequence.                                      *)
(***************************************************************************)
EXTENDS Integers, Sequences, FiniteSets

CONSTANTS
    Emissions,    \* calls of emit
    Tenants,      \* tenant_id_hash values
    Requests,     \* request_id values
    Bodies,       \* everything else emit signs: decisions, digests, latency
    TenantOf,     \* [Emissions -> Tenants]
    RequestOf,    \* [Emissions -> Requests]
    BodyOf,       \* [Emissions -> Bodies]
    Pinned,       \* emissions whose caller supplied previousReceiptHash
    MaxAttempts   \* 3 in the code

ASSUME ReceiptChainAssumption ==
    /\ TenantOf \in [Emissions -> Tenants]
    /\ RequestOf \in [Emissions -> Requests]
    /\ BodyOf \in [Emissions -> Bodies]
    /\ Pinned \subseteq Emissions
    /\ MaxAttempts \in Nat \ {0}

\* The fields decisionReceiptRequestDigest covers: all but receipt_id and
\* prev_receipt_hash.  tenant_id_hash is the partition every item is kept in.
Content == [req : Requests, body : Bodies, ts : Nat]

\* What one signed receipt adds to the hash of its predecessor.  RSASSA-PSS
\* is randomised, so the signature is told apart by the call that made it.
Entry == [content : Content, by : Emissions]

Hash == Seq(Entry)
Null == << >>

SignedReceipt == [content : Content, prev : Hash, by : Emissions]

\* receipt_id: a digest of everything but the signature.
ReceiptId(r) == [content |-> r.content, prev |-> r.prev]

\* signedDecisionReceiptHash.
SignedHash(r) == Append(r.prev, [content |-> r.content, by |-> r.by])

NoMarker == [kind |-> "none"]
Marker == [kind : {"marker"}, digest : Content,
           target : [content : Content, prev : Hash]]
NoReceipt == [kind |-> "none"]

VARIABLES
    receipts,   \* [Tenants -> SUBSET SignedReceipt]: immutable receipt items
    markers,    \* [Tenants -> [Requests -> Marker or NoMarker]]
    headHash,   \* [Tenants -> Hash]: chain-head item, Null when absent
    clock,      \* wall clock read by requests when they start
    pc,         \* where each emission is
    attempt,    \* its loop counter
    prevHash,   \* the previousReceiptHash its current attempt builds on
    timestamp,  \* the timestamp its input carries
    found,      \* the request marker it is resolving against
    result      \* the receipt it returned

table == << receipts, markers, headHash >>
local == << pc, attempt, prevHash, timestamp, found, result >>
vars == << receipts, markers, headHash, clock, pc, attempt, prevHash,
           timestamp, found, result >>

Returned == "returned"            \* emit resolved with a receipt
Failed == { "conflict",           \* ChainHeadConflictError
            "mismatch",           \* IntegrityCollisionError: other content
            "noTarget",           \* IntegrityCollisionError: dangling marker
            "noExisting",         \* IntegrityCollisionError: nothing collides
            "error" }             \* anything else: a rejected call, a crash
Active == { "head", "lookup", "sign", "put", "marker", "target", "receipt",
            "recheck" }
Outcomes == {Returned} \cup Failed

ContentOf(e) ==
    [req |-> RequestOf[e], body |-> BodyOf[e], ts |-> timestamp[e]]

\* buildUnsigned and sign: the receipt attempt e is about to persist.
Built(e) == [content |-> ContentOf(e), prev |-> prevHash[e], by |-> e]

Stored(t, id) == {r \in receipts[t] : ReceiptId(r) = id}

Init ==
    /\ receipts = [t \in Tenants |-> {}]
    /\ markers = [t \in Tenants |-> [q \in Requests |-> NoMarker]]
    /\ headHash = [t \in Tenants |-> Null]
    /\ clock = 0
    /\ pc = [e \in Emissions |-> "idle"]
    /\ attempt = [e \in Emissions |-> 0]
    /\ prevHash = [e \in Emissions |-> Null]
    /\ timestamp = [e \in Emissions |-> 0]
    /\ found = [e \in Emissions |-> NoMarker]
    /\ result = [e \in Emissions |-> NoReceipt]

-----------------------------------------------------------------------------
(* The emitter: DefaultDecisionReceiptEmitter.emit                         *)

\* The request reads the clock when it starts (governedInvoke's `now`); the
\* receipt keeps that timestamp however long the request takes.  A pinning
\* caller passes null or a head hash it has seen.
Start(e) ==
    /\ pc[e] = "idle"
    /\ \E now \in {clock, clock + 1} :
          /\ clock' = now
          /\ timestamp' = [timestamp EXCEPT ![e] = now]
    /\ \E seen \in {Null, headHash[TenantOf[e]]} :
          /\ e \notin Pinned => seen = Null
          /\ prevHash' = [prevHash EXCEPT ![e] = seen]
    /\ pc' = [pc EXCEPT ![e] = "head"]
    /\ UNCHANGED << table, attempt, found, result >>

\* latestHashForTenant, unless the caller pinned the previous hash.
ReadHead(e) ==
    /\ pc[e] = "head"
    /\ prevHash' = IF e \in Pinned
                   THEN prevHash
                   ELSE [prevHash EXCEPT ![e] = headHash[TenantOf[e]]]
    /\ pc' = [pc EXCEPT ![e] = "lookup"]
    /\ UNCHANGED << table, clock, attempt, timestamp, found, result >>

\* repository.get on the id just built.  The digests of equal ids are equal.
Lookup(e) ==
    /\ pc[e] = "lookup"
    /\ LET existing == Stored(TenantOf[e], ReceiptId(Built(e))) IN
       \/ /\ existing # {}
          /\ \E r \in existing : result' = [result EXCEPT ![e] = r]
          /\ pc' = [pc EXCEPT ![e] = Returned]
       \/ /\ existing = {}
          /\ pc' = [pc EXCEPT ![e] = "sign"]
          /\ UNCHANGED result
    /\ UNCHANGED << table, clock, attempt, prevHash, timestamp, found >>

\* signCanonical: the KMS round trip between the head read and the write.  An
\* emitter without a repository returns the receipt here and stores nothing;
\* the emitters modelled have one, as the API handler's has
\* (invokeGoverned.ts:208).
Sign(e) ==
    /\ pc[e] = "sign"
    /\ pc' = [pc EXCEPT ![e] = "put"]
    /\ UNCHANGED << table, clock, attempt, prevHash, timestamp, found, result >>

-----------------------------------------------------------------------------
(* DynamoDbDecisionReceiptRepository.put                                   *)

\* The three condition expressions of the TransactWrite.
ReceiptAbsent(e) == Stored(TenantOf[e], ReceiptId(Built(e))) = {}
MarkerAbsent(e) == markers[TenantOf[e]][RequestOf[e]] = NoMarker
HeadUnmoved(e) == headHash[TenantOf[e]] = prevHash[e]

\* Mutants of PutConditions: no condition on the chain head, none on the
\* request marker.
PutConditionsUnchained(e) == ReceiptAbsent(e) /\ MarkerAbsent(e)
PutConditionsUnmarked(e) == ReceiptAbsent(e) /\ HeadUnmoved(e)

PutConditions(e) == ReceiptAbsent(e) /\ MarkerAbsent(e) /\ HeadUnmoved(e)

\* The effect of the TransactWrite on the table.
WriteItems(e) ==
    LET t == TenantOf[e] IN
    /\ receipts' = [receipts EXCEPT ![t] = @ \cup {Built(e)}]
    /\ markers' = [markers EXCEPT ![t][RequestOf[e]] =
                      [kind |-> "marker", digest |-> ContentOf(e),
                       target |-> ReceiptId(Built(e))]]
    /\ headHash' = [headHash EXCEPT ![t] = SignedHash(Built(e))]

\* CREATED.
Commit(e) ==
    /\ pc[e] = "put"
    /\ PutConditions(e)
    /\ WriteItems(e)
    /\ pc' = [pc EXCEPT ![e] = Returned]
    /\ result' = [result EXCEPT ![e] = Built(e)]
    /\ UNCHANGED << clock, attempt, prevHash, timestamp, found >>

\* The write is applied and its answer is lost: put rejects with an error
\* that is no conditional failure.
CommitUnacknowledged(e) ==
    /\ pc[e] = "put"
    /\ PutConditions(e)
    /\ WriteItems(e)
    /\ pc' = [pc EXCEPT ![e] = "error"]
    /\ UNCHANGED << clock, attempt, prevHash, timestamp, found, result >>

\* isConditionalCheckFailed: enter resolveConditionalCollision.
ConditionFailed(e) ==
    /\ pc[e] = "put"
    /\ ~PutConditions(e)
    /\ pc' = [pc EXCEPT ![e] = "marker"]
    /\ UNCHANGED << table, clock, attempt, prevHash, timestamp, found, result >>

\* Mutant of ReadMarker: the resolution starts at the receipt item.
ReadMarkerSkipped(e) ==
    /\ pc[e] = "marker"
    /\ pc' = [pc EXCEPT ![e] = "receipt"]
    /\ UNCHANGED << table, clock, attempt, prevHash, timestamp, found, result >>

\* First consistent read of the resolution: the request marker.
ReadMarker(e) ==
    /\ pc[e] = "marker"
    /\ LET m == markers[TenantOf[e]][RequestOf[e]] IN
       \/ /\ m # NoMarker
          /\ pc' = [pc EXCEPT ![e] = "target"]
          /\ found' = [found EXCEPT ![e] = m]
       \/ /\ m = NoMarker
          /\ pc' = [pc EXCEPT ![e] = "receipt"]
          /\ UNCHANGED found
    /\ UNCHANGED << table, clock, attempt, prevHash, timestamp, result >>

\* Mutant of ResolveMarker: the request digests are not compared.
ResolveMarkerUnchecked(e) ==
    /\ pc[e] = "target"
    /\ \E r \in Stored(TenantOf[e], found[e].target) :
          result' = [result EXCEPT ![e] = r]
    /\ pc' = [pc EXCEPT ![e] = Returned]
    /\ UNCHANGED << table, clock, attempt, prevHash, timestamp, found >>

\* resolveRequestMarkerCollision: read the target receipt, then compare the
\* marker's requestDigest with the incoming receipt's.
ResolveMarker(e) ==
    /\ pc[e] = "target"
    /\ LET stored == Stored(TenantOf[e], found[e].target) IN
       \/ /\ stored = {}
          /\ pc' = [pc EXCEPT ![e] = "noTarget"]
          /\ UNCHANGED result
       \/ /\ stored # {}
          /\ found[e].digest # ContentOf(e)
          /\ pc' = [pc EXCEPT ![e] = "mismatch"]
          /\ UNCHANGED result
       \/ /\ found[e].digest = ContentOf(e)
          /\ \E r \in stored : result' = [result EXCEPT ![e] = r]
          /\ pc' = [pc EXCEPT ![e] = Returned]
    /\ UNCHANGED << table, clock, attempt, prevHash, timestamp, found >>

\* Second read: the receipt item under the id that could not be written.
ReadReceipt(e) ==
    /\ pc[e] = "receipt"
    /\ LET stored == Stored(TenantOf[e], ReceiptId(Built(e))) IN
       \/ /\ stored # {}
          /\ \E r \in stored : result' = [result EXCEPT ![e] = r]
          /\ pc' = [pc EXCEPT ![e] = Returned]
       \/ /\ stored = {}
          /\ pc' = [pc EXCEPT ![e] = "recheck"]
          /\ UNCHANGED result
    /\ UNCHANGED << table, clock, attempt, prevHash, timestamp, found >>

\* Mutant of MayRetry: one attempt too few.
MayRetryEarly(e) == e \notin Pinned /\ attempt[e] < MaxAttempts - 2

\* Third read: the chain head.  A moved head is a ChainHeadConflictError,
\* which emit turns into another attempt while it has one left and the
\* caller did not pin the previous hash.
MayRetry(e) == e \notin Pinned /\ attempt[e] < MaxAttempts - 1

\* Mutant of RecheckHead: the write is retried as it was, the head is not
\* read again.
RecheckHeadStale(e) ==
    /\ pc[e] = "recheck"
    /\ pc' = [pc EXCEPT ![e] = "put"]
    /\ UNCHANGED << table, clock, attempt, prevHash, timestamp, found, result >>

RecheckHead(e) ==
    /\ pc[e] = "recheck"
    /\ \/ /\ HeadUnmoved(e)
          /\ pc' = [pc EXCEPT ![e] = "noExisting"]
          /\ UNCHANGED attempt
       \/ /\ ~HeadUnmoved(e)
          /\ MayRetry(e)
          /\ pc' = [pc EXCEPT ![e] = "head"]
          /\ attempt' = [attempt EXCEPT ![e] = @ + 1]
       \/ /\ ~HeadUnmoved(e)
          /\ ~MayRetry(e)
          /\ pc' = [pc EXCEPT ![e] = "conflict"]
          /\ UNCHANGED attempt
    /\ UNCHANGED << table, clock, prevHash, timestamp, found, result >>

\* Any awaited call may reject, and the process may die: emit rejects and
\* leaves the table as it is.
Abort(e) ==
    /\ pc[e] \in Active
    /\ pc' = [pc EXCEPT ![e] = "error"]
    /\ UNCHANGED << table, clock, attempt, prevHash, timestamp, found, result >>

-----------------------------------------------------------------------------

\* The steps an emission takes by itself once it has been called.
Advance(e) ==
    \/ ReadHead(e) \/ Lookup(e) \/ Sign(e)
    \/ Commit(e) \/ CommitUnacknowledged(e) \/ ConditionFailed(e)
    \/ ReadMarker(e) \/ ResolveMarker(e) \/ ReadReceipt(e) \/ RecheckHead(e)

\* Every call has returned or thrown.
Finished ==
    /\ \A e \in Emissions : pc[e] \in Outcomes
    /\ UNCHANGED vars

Next ==
    \/ \E e \in Emissions : Start(e) \/ Advance(e) \/ Abort(e)
    \/ Finished

Spec == Init /\ [][Next]_vars

\* Pending awaits settle: the JavaScript event loop runs every continuation,
\* and DynamoDB and KMS answer or time out.
FairSpec == Spec /\ \A e \in Emissions : WF_vars(Advance(e))

-----------------------------------------------------------------------------
(* Properties                                                              *)

\* Every variable holds what the code can put there; in particular the loop
\* counter of emit stays below its bound.
TypeOK ==
    /\ receipts \in [Tenants -> SUBSET SignedReceipt]
    /\ markers \in [Tenants -> [Requests -> Marker \cup {NoMarker}]]
    /\ headHash \in [Tenants -> Hash]
    /\ clock \in Nat
    /\ pc \in [Emissions -> {"idle"} \cup Active \cup Outcomes]
    /\ attempt \in [Emissions -> 0 .. MaxAttempts - 1]
    /\ prevHash \in [Emissions -> Hash]
    /\ timestamp \in [Emissions -> Nat]
    /\ found \in [Emissions -> Marker \cup {NoMarker}]
    /\ result \in [Emissions -> SignedReceipt \cup {NoReceipt}]

\* The stored receipts of a tenant are one unforked chain that ends at the
\* chain head: the hashes of the receipt items are exactly the prefixes of
\* the head hash, whatever emissions raced, failed or were cut off
\* (repository.put's TransactWrite).
ChainIntact ==
    \A t \in Tenants :
        /\ \A r \in receipts[t] :
              \E n \in 1 .. Len(headHash[t]) :
                  SignedHash(r) = SubSeq(headHash[t], 1, n)
        /\ \A n \in 1 .. Len(headHash[t]) :
              \E r \in receipts[t] :
                  SignedHash(r) = SubSeq(headHash[t], 1, n)

\* A request has at most one receipt, and exactly when it has one its marker
\* points at it and carries its request digest (the marker item of put).
OneReceiptPerRequest ==
    \A t \in Tenants, q \in Requests :
        LET m == markers[t][q]
            of == {r \in receipts[t] : r.content.req = q} IN
        \/ m = NoMarker /\ of = {}
        \/ \E r \in of : /\ of = {r}
                         /\ m # NoMarker
                         /\ m.target = ReceiptId(r)
                         /\ m.digest = r.content

\* emit returns only receipts that are stored, and the receipt it returns has
\* exactly the signed content of its input: an exact retry may get another
\* call's receipt, a request id reused for other content never does.
ReturnedIsDurable ==
    \A e \in Emissions :
        pc[e] = Returned => /\ result[e] \in receipts[TenantOf[e]]
                            /\ result[e].content = ContentOf(e)

\* resolveConditionalCollision reads three items one after the other while
\* others write, and still never reports an integrity collision that is not
\* there: its "no existing receipt" and "target not found" errors cannot
\* happen, and a mismatch means a stored receipt really contradicts it.
CollisionsAreReal ==
    \A e \in Emissions :
        /\ pc[e] \notin {"noTarget", "noExisting"}
        /\ pc[e] = "mismatch" =>
              \E r \in receipts[TenantOf[e]] :
                  /\ r.content.req = RequestOf[e]
                  /\ r.content # ContentOf(e)

\* Retrying is lock-free: emit gives up with a chain-head conflict only after
\* other emissions have appended a receipt for each of its attempts, and
\* never after its own receipt went in.
ConflictMeansProgress ==
    \A e \in Emissions :
        pc[e] = "conflict" =>
            LET h == headHash[TenantOf[e]] IN
            /\ Len(h) >= IF e \in Pinned THEN 1 ELSE MaxAttempts
            /\ \A n \in 1 .. Len(h) : h[n].by # e

\* Every emission that was called returns or throws: the retry loop of emit
\* and the collision resolution terminate.
EmissionSettles ==
    \A e \in Emissions : pc[e] # "idle" ~> pc[e] \in Outcomes

-----------------------------------------------------------------------------
(* What every reachable state satisfies beside the properties above; with  *)
(* them it is inductive.                                                   *)

IsPrefixOf(p, h) == Len(p) <= Len(h) /\ \A i \in 1 .. Len(p) : p[i] = h[i]

\* The chain has grown since e read its head.
Behind(e) == Len(prevHash[e]) < Len(headHash[TenantOf[e]])

\* The previous hash an emission builds on was once the head of its chain.
Snapshots ==
    \A e \in Emissions : IsPrefixOf(prevHash[e], headHash[TenantOf[e]])

\* Why the conditional write of an emission that is resolving a collision
\* failed; the reason lasts from one read of the resolution to the next.
Resolving ==
    \A e \in Emissions :
        LET m == markers[TenantOf[e]][RequestOf[e]] IN
        /\ pc[e] = "marker" => Behind(e) \/ m # NoMarker
        /\ pc[e] \in {"receipt", "recheck"} => Behind(e)
        /\ pc[e] = "target" => m # NoMarker /\ found[e] = m

\* An emission in attempt n has seen the chain grow n times.
Attempts ==
    \A e \in Emissions \ Pinned :
        /\ pc[e] = "idle" => attempt[e] = 0
        /\ pc[e] = "head" => attempt[e] <= Len(headHash[TenantOf[e]])
        /\ pc[e] \in Active \ {"head"} => attempt[e] <= Len(prevHash[e])

\* Only an emission that returned, or lost the answer, is in the chain.
OwnEntries ==
    \A e \in Emissions : \A n \in 1 .. Len(headHash[TenantOf[e]]) :
        headHash[TenantOf[e]][n].by = e => pc[e] \in {Returned, "error"}

\* The inductive invariant of the receipt store.
Inv ==
    /\ TypeOK
    /\ Snapshots /\ Resolving /\ Attempts /\ OwnEntries
    /\ ChainIntact /\ OneReceiptPerRequest /\ ReturnedIsDurable
    /\ CollisionsAreReal /\ ConflictMeansProgress

-----------------------------------------------------------------------------
(* The store implements an append-only log with exactly-once requests.     *)

AnswerOf(p) == IF p = Returned THEN "receipt"
               ELSE IF p \in Failed THEN "failure" ELSE "pending"

Log == INSTANCE ReceiptLog WITH
           log <- headHash,
           answer <- [e \in Emissions |-> AnswerOf(pc[e])]

\* Emission, collision resolution and retries together behave as ReceiptLog.
ImplementsLog == Log!LogSpec

\* What the table records for a request, and what a call of emit is holding.
requestKey == [e \in Emissions |-> << TenantOf[e], RequestOf[e] >>]
ReceiptsFor(k) == {r \in receipts[k[1]] : r.content.req = k[2]}
ContentFor(k) ==
    IF ReceiptsFor(k) = {} THEN NoReceipt
    ELSE (CHOOSE r \in ReceiptsFor(k) : TRUE).content
HeldBy(e) ==
    IF pc[e] = Returned THEN ContentOf(e)
    ELSE IF pc[e] \in Failed THEN [kind |-> "lost"] ELSE NoReceipt

Store == INSTANCE ReceiptStore WITH
             Callers <- Emissions,
             KeyOf <- requestKey,
             stored <- [k \in {requestKey[e] : e \in Emissions} |-> ContentFor(k)],
             held <- [e \in Emissions |-> HeldBy(e)]

\* emit gives its callers the interface of ReceiptStore: the first content
\* recorded for a request id stays, and a receipt is handed out only for
\* exactly that content (DefaultDecisionReceiptEmitter.emit over put).
ImplementsStore == Store!StoreSpec

-----------------------------------------------------------------------------
(* verifyDecisionReceiptChain (receipts/chain.ts), as run on the receipts  *)
(* of tenant t in chain order.                                             *)

LinkVerifies(t, r) ==
    \/ r.prev = Null
    \/ \E previous \in receipts[t] :
          /\ SignedHash(previous) = r.prev
          /\ r.content.ts >= previous.content.ts

verifyDecisionReceiptChain(t) ==
    /\ \A r \in receipts[t] : LinkVerifies(t, r)
    /\ Cardinality({r \in receipts[t] : r.prev = Null}) <= 1

\* ADR-0001: "Auditors can verify ... tenant-chain continuity": the chain the
\* runtime itself has stored passes the offline chain verifier.
StoredChainVerifies == \A t \in Tenants : verifyDecisionReceiptChain(t)
=============================================================================
