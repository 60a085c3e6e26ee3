# TLA+ specifications of the Ghost-Ark runtime and the DAB gateway

These modules specify the parts of Ghost-Ark in which concurrency, retries, partial
failure or evidence that may be stale decide whether the system keeps its promises: the
store of signed decision receipts, the governed invocation lifecycle, the memory vault,
the checkpoint publisher, policies, the verifiers of receipts, the witnessed log that
orders revocations, and the DAB gateway with its replay ledger. TLC checks them on small
instances and TLAPS proves their safety properties for instances of any size. Paths
below are relative to the repository; `runtime/`, `receipts/`, `retrieval/`, `vault/`
and `policy/` are under `packages/enforcement-runtime/src/`, `frontier/` stands for
`packages/research-frontier/src/`.

The repository has TLA+ of its own (`proofs/tla`, `proofs/dab`, `proofs/cloud`).
Those are design-level models; the ones here are translated from the code and share
no definitions with them.

## The system

| Component | State it keeps | Operations | Interacts with | What makes it correct |
|---|---|---|---|---|
| Decision receipts (`receipts/emission.ts`, `repository.ts`, `canonical.ts`, `chain.ts`) | DynamoDB items: receipts, one marker per request, one chain head per tenant | emit (three-attempt loop), put, resolve a collision, verify a chain | called by every invocation; KMS signs | one unforked chain per tenant; one receipt per request; a returned receipt is stored; no false collision; the loop ends |
| Governed invocation (`runtime/governedInvoke.ts`, `lifecycle.ts`, `result.ts`) | local to a call: decisions, prompt, verdict, response | admit, load policies, retrieve, reserve, invoke, write memory, emit receipts, finalise | all the stores, the model | no text without its receipt; every failure fails closed; every call is answered |
| Execution nonce store (`runtime/nonceStore.ts`) | reservation per tenant and nonce, with a TTL | reserve | lifecycle | one model run per live reservation |
| Retrieval (`retrieval/filter.ts`, `sanitizer.ts`, `promptContext.ts`) | none | filter, sanitise, build the prompt | lifecycle, provider | no foreign or untrusted text in a prompt |
| Memory vault (`vault/dynamodbStore.ts`) | records of an identity, with tier, expiry and tombstone | write, get, list, export, tombstone, delete | lifecycle | records only past the gates; an erasure that returned hides what was acknowledged before it; audit records outlive deletes; a record is never overwritten |
| Transit ledger and gateway-bound invoker (`runtime/transitLedger.ts`, `gateway/gatewayModelInvoker.ts`) | transit records of one call | allocate a number, record a transit | lifecycle, v2 receipts | every answer that is used is recorded |
| v2 receipts (`receipts/v2/`) | v2 receipts | emit | lifecycle, transit ledger | never an empty trace for a call that used a model's answer |
| DAB gateway (`dab/gateway/src/main.rs`, `nonce.rs`) | active nonces, tombstones, a counter; all in memory | serve a request; collect garbage | agents, targets | no replay while the ledger remembers; only declared bytes are posted; the ledger stays within its bound; expired nonces leave |
| Policies (`policy/`) | documents per tenant and per user | load (two queries), compile, evaluate | lifecycle | the most restrictive voice wins; no policy in force is missed |
| Checkpoints (`receipts/checkpoint*.ts`, `services/ledger/lambda/publishReceiptCheckpoint`) | one signed Merkle root per epoch, in a table and in a locked bucket | scan the heads, sign, store, publish | receipt store, KMS, S3 | what is published is what is stored; checkpoints never show a chain shrinking; every head is covered; proofs verify and roots bind |
| Signing and verification (`receipts/signer.ts`, `verifier.ts`, `kms*.ts`, `verifiers/`, `apps/glasshouse/lib`, `tools/ghost-verify.mjs`) | none; six programs judge a stored copy | sign, verify | receipt store, key manifest | accept only what was signed; no standalone verifier is laxer than the runtime; what was signed is accepted |
| Key manifest (`receipts/keyManifest.ts`) | epochs of the signing keys | deprecate, revoke, look up | verifiers | a key's past signatures stay valid |
| Witnessed log (`frontier/merkle.ts`, `witnessCheckpoint.ts`, `witnessFraudProof.ts`, `authenticatedRevocation.ts`) | an append-only log, cosigned checkpoints | append, sign, prove, detect split views, decide a receipt's standing | key revocation | verdicts are the log's; honest witnesses are not accused; forks are attributed |
| Attestation, lineage, cloud adapters, data services, console, other research prototypes | see `PROJECT.json` | | | |

What is hard to test here: every `await` is a point where another invocation may run
or the Lambda may die; a DynamoDB write may succeed and its acknowledgement be lost;
collision resolution reads three items without a snapshot; the vault is written before
the receipt that describes it, and erased on the strength of a read that may be old; the
publisher scans while the chains grow and may run twice; policies change between the two
queries that load them; six verifiers written apart must not disagree; witnesses lie; two receipt layers may fail separately; the gateway's
collector moves nonces between two maps while threads admit others, and adjusts its
counter outside the lock; nothing of the gateway survives a restart. `PROJECT.json`
lists each of these hazards at its line with the properties that cover it.

## Modules

| Module | Models |
|---|---|
| `ReceiptLog` | abstract: an append-only log per tenant with exactly-once requests |
| `ReceiptStore` | abstract: what a caller of `emit` may rely on, without chains, markers or attempts |
| `ReceiptChain` | emission, persistence and collision resolution; shown to implement `ReceiptLog` and `ReceiptStore` |
| `GovernedInvoke` | the lifecycle with the nonce store, retrieval, vault writes, transit and both receipt layers; shown to use `ReceiptStore` |
| `DabGateway` | the gateway's request threads, replay ledger and collector |
| `VaultLifecycle` | concurrent writes, tombstones and deletes of memory records, and what a read makes of them |
| `EpochCheckpoint` | the checkpoint publisher among appends, and its two stores |
| `CheckpointTree` | the Merkle tree of a checkpoint: layers, proofs and roots as recursive functions |
| `ReceiptVerifiers` | two signers, a key manifest, and the verdicts of six verifiers on a copy that was altered |
| `PolicyEvaluator` | loading policies while they change, and deciding by them |
| `MerkleLog` | the RFC 6962 tree of `frontier/merkle.ts` and its proofs, as recursive functions |
| `WitnessLog` | witnesses, split views and the authenticated order of a receipt and a revocation, over any sound tree |
| `WitnessedTree` | `WitnessLog` together with `MerkleLog` |
| `<module>Proofs` | the theorems about `<module>`; those about the trees are in `EpochCheckpointProofs` and `WitnessLogProofs`, the one about the abstract log in `ReceiptChainProofs` |
| `MC<module>` | instances for TLC. `MCWitnessLog` plugs `MerkleLog` into `WitnessLog`, reading off a root the only audit path that can lead to it; `MCEpochCheckpoint` also compares `CheckpointTree` on pairs of lists of heads; `MCReceiptVerifiers` runs `ReceiptVerifiers` and `PolicyEvaluator`, a behaviour running one of the two |

An operator called "Mutant of ..." or "A plausible slip" is not part of any
specification: it is a plausible bug in the definition next to it, kept to show that a property detects it.

### ReceiptChain

One process per call of `emit`. `pc` is the await it is suspended on, `attempt` the
loop counter, `prevHash` the head it builds on, `found` the marker it resolves
against; `receipts`, `markers` and `headHash` are the three kinds of item. `ReadHead`,
`Lookup`, `Sign` and `Commit` are the loop body; the transactional write is atomic and
its three conditions are `ReceiptAbsent`, `MarkerAbsent` and `HeadUnmoved`.
`CommitUnacknowledged` is a write whose answer is lost. After `ConditionFailed` the
reads of `resolveConditionalCollision` are the separate actions `ReadMarker`,
`ResolveMarker`, `ReadReceipt` and `RecheckHead`, and `MayRetry` decides about another
attempt. A hash is modelled by what a collision-free hash pins down, the sequence of
entries behind it; RSASSA-PSS is randomised, so an entry names the call that signed it.
Every emitter modelled has a repository, as the one the API handler builds
(`apps/api/src/handlers/invokeGoverned.ts:208`); without one `emit` returns the signed
receipt right after `Sign` and stores nothing (`emission.ts:113-115`).

`ReceiptLog` is the view of an auditor: one log per tenant that only grows. `ReceiptStore`
is the view of a caller: `stored` is the content recorded for a request, `held` what a
caller was handed; the first content stays, a caller is only handed exactly that content,
and a call that fails may have recorded its content all the same. `ContentFor` and
`HeldBy` map the table and the emitters to it.

### GovernedInvoke

One process per call of `governedInvoke`; `stage` is the await it is suspended on. The
model follows the function from `Admit` (identity, input checks) through
`LoadPolicies`, `Retrieve`, `Reserve` and `ReadReservation`, `InvokeModel`,
`ModelReturns` or `ModelFails`, `WriteMemory` or `SkipMemory`, `EmitReceipt` and
`EmitReceiptV2` to `Finish`, with a failing variant of each await. What the policies
answer is a free choice in every phase. The decision receipt of a request appears as its
content alone: the first content recorded for a request id stays, an emission with equal
content succeeds, any other fails. That this is a sound account of the chained table is
shown from both sides: `ReceiptChain` and `GovernedInvoke` both implement `ReceiptStore`,
here with `receipts` as `stored`. `Crash` ends a call at any
await. `ExpireReservation` is DynamoDB's TTL; it only removes reservations whose
holder has settled, because a call lasts seconds and a reservation 24 hours. Deployment
options are constants, nonce store and v2 layer for all calls, invoker, provider and
retrieval strictness per call (`DepsOf`), so the theorems cover every deployment.

`ModelFails` has three cases: no answer came; one came, was recorded and could not be used;
one came and was dropped before the ledger heard of it, because it broke off or exceeded the
transit cap (`sidecarProxy.ts:138-141` rejects before `gatewayModelInvoker.ts:74`). In the
last case the call fails closed and still obtains a v2 receipt with an empty trace: the
check in `governedInvoke.ts:199-214` asks whether an answer was taken in, not whether one
came. `CustodyIsComplete` therefore says of such a call that it used no answer, and not
that the model gave none.

### DabGateway

One process per accepted connection and one for the collector. `Consume` is
`ReplayLedger::consume` under its lock. `Bind` decodes and compares digests, `Post` and
`Certify` or `ExecuteFails` are the HTTP call and the reply; a client that has hung up
gets no reply. The collector is split where the code holds no lock: `BeginPass` reads
the time, `Scan` iterates while entries are added, `Archive` moves one nonce under the
lock, `Discount` lowers the counter without it, `PickExcess` and `Prune` drop
tombstones. `expired` subtracts modulo `WordSize` (2^64), as a release build does.
`remembered` is a history variable: the requests admitted since their nonce was last
forgotten. `HasCollector` says whether anything runs the collector.
Requests that do not parse return before they touch any state and are left out, as are
the one-shot `emit-receipt` mode and a poisoned lock.

### VaultLifecycle

One process per call of `DynamoDbVaultStore`. `items` is the table at the leader and
`lagging` the earlier values with which an eventually consistent read may answer. `Write`
is the conditional put, sent again by the SDK client when its answer was lost; `Get` and
`GetFails` are the read that `tombstone` and `deleteErasable` decide on; `Tombstone` and
`Erase` are the unconditional requests that follow, which may be applied and not
acknowledged; `Expire` is the table's TTL. `recordId` hashes owner, session, tier and
content, which is what makes the erasures safe: all records a key ever holds have one
tier. An item is identified by the call that put it, since a repeated put carries the same
bytes; `acked` is a history variable, the writes that had been acknowledged when an erasure
returned. Three behaviours of the code that the properties allow for: a tombstone that
arrives after the item went (deleted or expired) creates a ghost, an item with nothing but
`tombstonedAt`, which blocks its key for every later write; a tombstone decided on one
record may hide a later record of the same key; and a put whose answer was lost, repeated
after a delete has returned, restores the very record that was deleted. The last is why
`ErasedStaysErased` speaks of acknowledged writes only. The in-memory store
(`vault/store.ts`) is not modelled: its `write` overwrites unconditionally (line 91), so
there any write of the same record revives a tombstoned one.

### EpochCheckpoint and CheckpointTree

One process per invocation of the handler. A tenant's chain is its length, since
`ReceiptChain` shows that chains only grow and never fork. `Start` reads the clock, whose
hour names the epoch unless the environment does (`EpochOverride`,
`GHOST_ARK_RECEIPT_CHECKPOINT_EPOCH_ID`); `ScanPartition` reads one partition's head consistently while `Commit`
goes on elsewhere; the page ends after `PageItems` items, receipts and markers included,
and `ScanReturns` ignores what is behind it. `Sign`, `Put`, `PutRefused`, `Resend` and
`Publish` are the rest; `Resend` is the SDK's repetition of a put whose answer was lost,
which its own item refuses, so the handler throws and the stored epoch is not published.
`Fail` is an error or a kill at any await. `atStart` is a history variable.
`CheckpointTree` has normalisation, the layers with a repeated last hash, proof building
and verification, the comparison of the leaf's hash included; a head that is not among the
normalised ones has no proof. A hash is the term it was computed from. Its two variables hold a pair of
lists of heads on which the algorithms are evaluated.

### ReceiptVerifiers

`made` holds receipts as `SignKms` and `SignDev` wrote them, `held` the copy that is
judged. `Alter` changes one field of the receipt or of its envelope, recomputes its id,
or takes the signature of another receipt. `Deprecate` and `Revoke` publish manifests.
Each verifier is an operator over a copy and the options it is called with; they differ
in the schema they check, in defaults, numbers, spelling of the envelope and in how a
signature treats the digest (KMS signs it as a hash, a local key hashes it once more).
Bodies are classes of receipts: a plain one, one with a decision outside the five kinds
that node and python know, a fractional or small number, an integer above 2^53 - 1, a
number out of range. Key ids are ARNs, the ARN another account or region would give the
same UUID, UUIDs in either case, and names.

What the options and classes make visible:

* A verifier called without an expected key id does not bind the id in the envelope to the
  key it verifies with; the properties that need it quantify over `Bound`. The tool given
  `--key` verifies with that key whatever the envelope names (`toolKey`), and it accepts
  only signatures by local keys.
* The signer and the runtime know ten decision kinds (`policy/decisions.ts:3-16`), node and
  python five, one of which the runtime does not know, as `tools/receipt-conformance/SPEC.md:63`
  also states; python's comment at lines 100-101 calls its fields "mirrored from" the
  runtime's schema. Receipts with `REQUIRE_CONSENT`, `MEMORY_SUPPRESS` and four other kinds
  are signed and then refused by both.
* The third-party arm writes small fractions as CPython does (5e-05, not 0.00005) and so
  refuses receipts that carry one. It and the page compare key ids by their UUID in lower
  case, where the runtime compares two ARNs as text.
* The page's verifier requires fields that the runtime defaults, and tolerates additional
  envelope fields.

Left out are python's `--allow-unverified-signature`, which passes on the digest alone and
says so, and the third-party arm's automatic mode, which accepts what it would accept under
one of the two treatments of the digest.

### PolicyEvaluator

`QueryTenant` and `QueryUser` are the two queries of `loadPolicies`, each of one page and
each free to answer from a lagging `replica`; `QueryUser` includes the checks of every
item, the default policy and the compilation. `Evaluate` decides for one context.
`Publish`, `Withdraw` and `Replicate` are the administrator and the table. Decisions are
their ranks; a rule's match is a set of criteria, each a set of acceptable features.
As soon as a caller has one policy the default policy is not counted in any more, and a
page that is cut is not noticed; `SteadyPoliciesRule` is therefore about loads that read
each partition whole.

### WitnessLog and MerkleLog

`log` grows by `AppendLeaf`; honest witnesses sign prefixes of it, faulty ones any head
of `Forgeable` with any time. `standing` is `enforceAuthenticatedLedgerRevocation`: key,
quorum, split views, both inclusion proofs, the bond between the two checkpoints, order.
`WitnessLog` takes the tree as three operators with `TreeAssumption`; TLC evaluates that
assumption on `MerkleLog`, and `MerkleTreeSound` proves it of `MerkleLog`. The recursive
functions of `merkle.ts` are recursive functions over the arguments that change from call
to call: ranges of leaves, `Subproofs` for the author of a consistency proof and `States`
for its verifier. The code gives up on a path that is too short by returning null; the
model returns `NoResult`.
An inclusion proof names its tree size and its index; nothing compares the size with the one
the witnesses signed, so the model lets proofs name any (`Inclusion`, `included`).
`VerdictsFollowTheLog` says what remains true for all of them, that the leaves are in the
log, and what is true of those that name the checkpoints' sizes: the leaves are where the
log has them. When only the earlier checkpoint has an honest signature the later position
need not be the log's. What the code claims without that condition is
`ValidPrecedesRevocation`, which does not hold (see Findings).

The signature list of a checkpoint is not signed itself. `Shadow` puts an entry that does
not verify before a witness's own: `countQuorumWitnesses` looks at every entry of the list,
`witnessSignatureVerifies` at the first of each witness. A revocation record may give a
reason, so a key has several records (`RecordsOf`). One log is modelled, and the detectors
answer whether there is a fork rather than which they find first.

## Runs

| Run | Instance | Result |
|---|---|---|
| `receipt_retry` | 3 emissions, two of one request, 3 attempts | `ChainIntact`, `OneReceiptPerRequest`, `ReturnedIsDurable`, `CollisionsAreReal`, `ImplementsStore` hold |
| `receipt_contend` | 3 requests on one head, one with a pinned predecessor, 2 attempts, weak fairness | `ConflictMeansProgress`, `ImplementsLog`, `EmissionSettles` hold |
| `receipt_verify` | 3 requests | `StoredChainVerifies` is violated |
| `invocations` | 3 calls with one nonce: two duplicates with one request id and one memory record, through the gateway, with a tainted context of their own; a retry with strict retrieval from a provider that mixes tenants and taints under one digest, past the gateway; v2 layer, weak fairness | `OneExecutionPerReservation`, `CustodyIsComplete`, `ReleasedIsReceipted`, `NoPhantomMemory`, `MemoryIsGoverned`, `PromptsStayClean`, `ImplementsStore`, `CallsAreAnswered` hold |
| `dab_replay` | 4 requests on 2 nonces, room for 1 active nonce and 1 tombstone, 2 seconds, 1 restart, weak fairness | `NoReplays`, `ActiveOrSpent`, `CertifiedWasSent`, `CapacityHeld`, `EventualGC` hold |
| `dab_uncollected` | the same ledger without a collector thread | `EventualGC` is violated |
| `vault` | a write that expires, an audit and a refused write, a tombstone and two deletes, puts sent twice | `ErasedStaysErased`, `RecordsOnlyAge`, `AuditOutlivesDeletes` hold |
| `checkpoint` | 2 invocations over 2 epochs, one with its epoch from the environment, 2 tenants, a page of 5 items; trees of up to 7 heads, weak fairness | `PublishedIsStored`, `SnapshotsExtend`, `CoversWhatFits`, `HandlersEnd`, `CheckpointProofsVerify`, `CheckpointRootsBind` hold |
| `checkpoint_coverage` | the same | `AllHeadsCovered` is violated |
| `transparency` | 3 witnesses, two faulty and one with a revoked key, quorum 2, log of 3, 2 checkpoints, one shadowed entry | `VerdictsFollowTheLog`, `NoFalseAccusation`, `ForksAreAttributed`, `GeneratedProofsVerify` hold |
| `transparency_positions` | the same with honest witnesses only | `ValidPrecedesRevocation` is violated |
| `verdicts` | 2 KMS keys, the development secret, 4 bodies, 2 alterations; 4 policies, a page of 1 item | `AcceptedWasSigned`, `VerdictsNest`, `SignedIsAccepted`, `HistoryIsKept`, `PoliciesOnlyTighten`, `SteadyPoliciesRule` hold |

Bounds. Three emissions are enough for every race of the emitter: two that contend
and one that moves the head between any two of their steps. The constants of the
lifecycle run are chosen so that two calls meet in every table (same nonce, same request
id, same memory record), both kinds of invoker occur and every refusal is reached; the
policies answer `ALLOW` or `MEMORY_SUPPRESS`, which reach every branch of the gates. The gateway's limits
are 1 so that both are hit, and `WordSize` is larger than any time so that a wrapped
difference is told apart; larger capacities are covered by the proofs. In the vault two
sends of one put meet an erasure and an expiry in between. The publisher's page holds
exactly the two receipts of the first tenant, so that a scan fits or is cut by one
commit, and two hours hold two invocations in one epoch or in two; seven heads make every
pattern of odd layers up to three levels. Two checkpoints are what a decision and a fraud
proof are about, and a log of three has proper prefixes on both sides of an odd size. It
does not reach the branch of a consistency proof whose old tree ends in the right half
(`merkle.ts:371-380`, `448-469`; the smallest case is from 3 to 4 leaves): that branch is
covered by `GeneratedProofsVerifyAlways` and `MerkleTreeSound` alone. One shadowed entry
is enough to hide a witness; the theorems allow any number. Two
alterations are an inconsistent change and its attempted repair; one receipt is signed
per behaviour, and moving signatures between receipts is covered by the proof. One item
per page with two items in a partition is a cut page.

Fairness is weak fairness of each process' own steps. The JavaScript event loop runs
every continuation and the SDK clients time out and throw, so a pending await settles;
the Lambda runtime drives a started invocation of the publisher in the same way. Nothing
is assumed about requests arriving or invocations starting, and a crash is always
possible. For the gateway it says that its threads run, that time passes and, only if a
collector thread exists, that it loops.

Deadlock is checked, with an explicit stuttering action for the states where nothing is
left to do, except in `checkpoint`, `checkpoint_coverage`, `transparency`,
`transparency_positions` and `verdicts`: their behaviours stop when the bounds on time, log, alterations or invocations are
used up, and some only hold a value on which an algorithm is evaluated.

## Findings

* **A chain the runtime stored may fail its own verifier** (`receipt_verify`). The
  chain is ordered by persistence; a receipt's timestamp is the start of its request;
  `receipts/chain.ts:62` demands that timestamps do not decrease along the chain.
* **A checkpoint may leave out tenants** (`checkpoint_coverage`). `listChainHeads` reads
  one page of the table and does not follow `LastEvaluatedKey`; receipts and markers count
  against the page.
* **A receipt may be shown where the log does not have it** (`transparency_positions`).
  `frontier/authenticatedRevocation.ts:387-421` takes the positions it compares from the
  inclusion proofs and verifies them at the size the proof names, never comparing that with
  the checkpoint's. A root opens to a leaf at more than one pair of size and index: in the
  log of two revocation records and a receipt, the receipt opens the root of size 3 as index
  1 of 2, and a record the root of size 2 as index 2 of 3, so the receipt is judged
  `valid_pre_revocation` with honest witnesses only. Lines 28-31 of the file say that a
  caller without a witness quorum cannot bring this about and that "fabricated positions
  fail Merkle inclusion".
* **Nothing runs the collector** (`dab_uncollected`). `nonce.rs` says a background
  thread runs it; the gateway binary starts none, so the ledger only fills.

More observations, kept out of the runs. An answer that breaks off or exceeds the transit
cap, and with an invoker outside the gateway any answer that cannot be parsed, takes the
failure path of `governedInvoke`, where the unrecorded-egress check does not look, and
leaves a v2 receipt with an empty trace though the prompt left and an answer came
(`governedInvoke.ts:936-959`). A severed transit burns the last number of its ledger, so no
later record shows the gap. A bad entry put first in a checkpoint's signature list keeps its
quorum and hides a fork from both detectors (`witnessFraudProof.ts:78` against
`authenticatedRevocation.ts:266`). A repeated put may restore a deleted memory record, and
six of the ten decision kinds make a receipt that two of the standalone verifiers refuse;
both are described with their modules above.
The TypeScript client of the gateway names the protocol `DAB-TIER0`
(`dab/agent-runtime/src/ipc_client.ts:135`) and the gateway serves only `DAB-TIER0-V1`,
so it gets no receipt; the Rust client does. In `frontier/occ/time_state_replica.ts` an
aborted commit clears the read snapshot of its window, so a second commit through the
same window is unconditional.

## Proofs

All theorems are about the module's specification, for every value of the constants that
satisfies its named assumptions: the types of the constants, positive bounds where the
code has them, for the gateway a word larger than the clock, for the witnessed log
`TreeAssumption`. TLC evaluates the assumptions in every run. Each proof shows
`Init => Inv`, `Inv /\ [Next]_vars => Inv'` with a lemma per action or group of
actions, and `Inv => P` for each property `P`.

The recursive functions of the two trees are reasoned about by induction over a set in the
place of a predicate (`NatSetInduction`, `SizeInduction`, `RangeInduction`), which is an
instance the provers find. A recursive function is a `CHOOSE`; that there is something to
choose is `RecursionDefines`: a step that looks only at smaller arguments defines exactly
one function on a set whose elements have a size. Each function then gets a lemma with its
equation and its type (`RootForRange`, `PathForRange`, `Climb`, `SubproofOfCall`,
`VerifySubproof`), and only those lemmas are used after that.

* **ReceiptChain.** `ChainIntact` is not inductive: that a write extends the chain
  needs `Snapshots` (a previous hash was once the head). `CollisionsAreReal` needs
  `Resolving`: the reason why a write failed is still there at each later read of the
  resolution, since heads only grow and markers never go. `ConflictMeansProgress`
  needs `Attempts` (an emission in attempt n has seen the chain grow n times) and
  `OwnEntries`. `Refinement`: every step is a step of `ReceiptLog` or leaves it unchanged.
  `TableOnlyGrows` is the action property behind the growing chains of `EpochCheckpoint`:
  no step takes back a receipt, a marker or part of a chain. `StoreRefinement` maps the
  table to `ReceiptStore`; a write is a step of its emission, acknowledged (`Return`) or
  not (`Fail`), a resolution that finds the same content is a `Return` without a write,
  and `OneReceiptPerRequest` makes the content of a request a function of the table.
* **GovernedInvoke.** `ReservationsHeld` carries replay protection (a call about to
  invoke holds its nonce), `StagesAgree` ties what a call has done to its stage,
  `ReceiptStands` keeps the v1 receipt unchanged while the v2 layer runs,
  `RecordsAreLate`, `AnswersRecorded` and `PromptsBuiltClean` support the properties
  they are named for; for `CustodyIsComplete` it is `AnswersRecorded` that memory and text
  come from an answer that was taken in, and that a v2 receipt implies the decision receipt.
  `AnswersAreReceiptedAlways` extends `ReleasedIsReceipted` to every
  answer: a refusal is on the stored receipt, too. It is what maps a finished call to a
  caller that holds its receipt in `StoreRefinement`; a call that fails closed after its
  receipt was stored is a `Drop`. `ReceiptIsLast` says that nothing happens on behalf of a
  call after its receipt: no prompt, no model answer, no memory record.
* **DabGateway.** `Remembers` says that every remembered request has its nonce in one
  of the two maps and shares it with no other; `NoReplays` follows. `CollectorAgrees`
  says that the counter equals the number of entries plus what the current pass has
  moved and not discounted yet; with it the subtraction cannot wrap and
  `CapacityHeld` follows, by the cardinality theorems of `FiniteSetTheorems`.
  `ForgetsOnlyExcessAlways` is about the pruning, which picks its victims and removes them
  one by one while requests are admitted: `ExcessOnly` says that those still to be removed
  are tombstones and that `MaxSpent` others stay.
* **VaultLifecycle.** `ItemsPlaced` and `ReadsPlaced` say that an item, at the leader, on a
  replica or in a caller's hands, lies under the key of its own write;
  `DecisionsStand` that a call about to erase saw a record that is not an audit record.
  With them the blind delete cannot hit an audit record, whatever the key holds by then.
  `ErasedIsGone` is `ErasedStaysErased` without the filters of `list`, and adds that a write
  acknowledged by then is over: it sends nothing more, so only a write still without its
  answer can fill the key again.
* **EpochCheckpoint.** `OwnersHold` says that an invocation past its put owns its epoch
  until the end; `PublishedIsStored` follows. `LeavesBetween` puts each scanned head
  between the chain at the start and now, `StoredThenBelow` carries it over to later
  invocations; `SnapshotsExtend` follows although no scan is a snapshot. `CoversWhatFits`
  needs `ScanInv`: what a scan took from its page is no more than the partitions it has
  passed hold by now (a sum that commits only raise, by induction over the partitions), so
  a page that ends early ends at a partition that more than fills it, and every head
  before that was seen. `CheckpointsAreFinal` is the action property of the two stores:
  since only the owner of an epoch reaches `PutObject`, the unconditional write never
  replaces anything.
* **CheckpointTree** (in `EpochCheckpointProofs`). The layers over a list of distinct
  hashes are lists of distinct hashes, each half as long as the one below, rounded up, and
  a leaf's index halves from layer to layer. Climbing along the built proof therefore meets
  the layers' own hashes and ends at the root (`CheckpointProofsVerifyAlways`). Two lists
  with one root have the same layers from the top down. That a repeated last hash does not
  make two lists collide rests on normalisation: no tenant, so no hash, occurs twice in
  the bottom layer (`CheckpointRootsBindAlways`).
* **MerkleLog** (in `WitnessLogProofs`). For payloads from any set and logs of any length.
  `Split` and `SameSplit` are about `largestPowerOfTwoLessThan`: it divides a range into
  two smaller ones, and a prefix that ends in the right half is split at the same place.
  `GeneratedPath` and `GeneratedSubproof` show that the verifiers retrace the steps of the
  authors; `GeneratedProofsVerifyAlways` follows. For soundness a proof is any audit path
  over the terms that can be hashed, `Hashes(P)`: `OpeningOfRoot` descends from a root and
  finds its leaf (`OpensToSomeLeaf` does so for the sizes that are not the root's own),
  `RebuiltFromRoot` shows that the old root rebuilt together with a log's root is the root
  of the log's prefix, and `OpeningsKept` that a position opened under the new root opens
  the same way under the old one. `MerkleTreeSound` combines them: it is
  `TreeAssumption` with the tree of the code in the place of the parameters.
* **WitnessLog.** The invariant says that every honest signature in circulation is on a
  prefix of the log. `VerdictsFollowTheLog` follows with `TreeAssumption`, and
  `ForksAreAttributed` by counting two majorities. `HonestQuorumDecides` says what a
  `valid_pre_revocation` verdict is worth if every quorum has an honest member: receipt and
  record are in the log, and in that order if the proofs name the checkpoints' sizes.
* **ReceiptVerifiers.** The invariant says that receipts are as signed and that the
  signature on a copy is borrowed from one of them, however often it was altered.
* **PolicyEvaluator.** The invariant says that what was read contains every steady policy of
  the partitions read so far; `mostRestrictiveDecision` is shown to be an upper bound that
  grows with its set.

The type invariants of all modules are proved and are not repeated in the runs. The
gateway's includes that the counter does not wrap, that of the policies that no empty set
is compiled.

Only model-checked: the liveness properties (`EmissionSettles`, `CallsAreAnswered`,
`EventualGC`, `HandlersEnd`), which need fairness and are out of the prover's reach. Every
other property of a passing run is also a theorem.

## Not modelled

`PROJECT.json` gives the reason for each part. Signatures and hashes are taken as ideal.
Attestation and proof envelopes are stateless validation; so are the record format of the
standalone verifiers, `verifyEpochCheckpoint`, the provenance lattice, the trusted tenant
source and the schemas. `verifyKeyManifestSigningAuthorization` is wired to no signer, and
`ledgerAnchoredRevocation.ts` compares two positions it is given; its authenticated form
is the one modelled. The canonical form of v2 receipts and the building of Bedrock
requests are formatting. The Google Cloud adapters, data services, API handlers, console
and infrastructure hold no state of their own between two calls. The experiments,
benchmarks, evidence and figure scripts under `tools/` and `dab/bench`, more than a third
of the repository's lines, exercise the parts above and promise nothing themselves;
`ghost-ark-dab-spec-context/` holds copies of files of the runtime. Of the research
prototypes the last-writer-wins map, the replicas, the review queue and the provability
experiments are not called by the runtime and are left out.

## Plan

1. Done: `ReceiptLog`, `ReceiptStore`, `ReceiptChain`, `GovernedInvoke`, `DabGateway`, `VaultLifecycle`,
   `EpochCheckpoint`, `CheckpointTree`, `ReceiptVerifiers`, `PolicyEvaluator`, `MerkleLog`,
   `WitnessLog`, and the proofs of their safety properties.
2. A composition of the free decisions of `GovernedInvoke` with `PolicyEvaluator`, as
   `ReceiptStore` composes it with `ReceiptChain`.
3. The last-writer-wins map of `frontier/crdt` and its message bus: convergence under
   loss, duplication and reordering.
4. The DAB commitment and verifier (`dab/agent-runtime`, `dab/verifier`) as a seventh
   verdict beside `ReceiptVerifiers`.
