--------------------------- MODULE GovernedInvoke ---------------------------
(***************************************************************************)
(* governedInvoke (runtime/governedInvoke.ts): the lifecycle of a model    *)
(* invocation, from identity to answer, for calls that run concurrently    *)
(* against the execution-nonce table (runtime/nonceStore.ts), the memory   *)
(* vault (vault/dynamodbStore.ts) and the decision receipts.               *)
(*                                                                         *)
(* A call stops at every await, and there another call may run or the      *)
(* process may die.  What policy evaluation answers is a free choice in    *)
(* every phase: the rules decide it, and every answer has a rule set.      *)
(*                                                                         *)
(* Decision receipts are kept as what ReceiptChain establishes of them:    *)
(* the first content recorded for a request id stays, an emission with     *)
(* the same content returns it, any other fails.                           *)
(***************************************************************************)
EXTENDS Integers

CONSTANTS
    Calls,          \* calls of governedInvoke
    Tenants,
    TenantOf,       \* [Calls -> Tenants]: identity.tenantId
    UserOf,         \* identity.userId and sessionId of each call
    RequestIdOf,    \* identity.requestId of each call
    NonceOf,        \* executionNonce of each call
    InputOf,        \* everything else a receipt binds of the request: input
                    \* digest, model, consent, `now`
    MemoryOf,       \* request.memoryWrite: a MemoryWrite or NoMemory
    ConsentOf,      \* request.consentState
    RetrievalOf,    \* request.retrieval.enabled, a Boolean
    CallerOf,       \* request.retrieval.contexts, a set of contexts
    Contexts,       \* retrieved context candidates
    Outputs,        \* what a model run adds to a receipt: latency and cost
    Decisions       \* decisions the loaded policies can answer

CONSTANTS  \* the dependencies and options the calls are given
    HasNonceStore,  \* deps.executionNonceStore, for all calls or for none
    HasReceiptV2,   \* deps.receiptEmitterV2, with its transit ledger, likewise
    DepsOf          \* [Calls -> Deps]

DecisionKind == { "ALLOW", "MODIFY", "REDACT", "REFUSE", "SILENCE",
                  "ESCALATE", "REQUIRE_CONSENT", "MEMORY_SUPPRESS",
                  "RECEIPT_ONLY", "HUMAN_REVIEW" }
Undecided == "undecided"

Taint == { "trusted", "untrusted_instruction", "cross_tenant",
           "unknown_origin" }
MemoryTier == { "KAPPA", "SESSION", "CONSTITUTION", "AUDIT", "RESTRICTED" }
NoMemory == [tier |-> "none"]
NoOutput == "no output"
Free == "free"

\* What else governedInvoke is handed: whether the invoker is a
\* GatewayBoundModelInvoker, whether there is a retrievalProvider, and the
\* retrievalOptions.
Deps == [gatewayBound : BOOLEAN, hasProvider : BOOLEAN,
         rejectCallerContexts : BOOLEAN, requireProvider : BOOLEAN,
         allowTaintedDigestOnly : BOOLEAN]

ASSUME GovernedInvokeAssumption ==
    /\ TenantOf \in [Calls -> Tenants]
    /\ RetrievalOf \in [Calls -> BOOLEAN]
    /\ CallerOf \in [Calls -> SUBSET Contexts]
    /\ \A c \in Contexts : c.tenant \in Tenants /\ c.taint \subseteq Taint
    /\ \A q \in Calls : \/ MemoryOf[q] = NoMemory
                        \/ /\ MemoryOf[q].tier \in MemoryTier
                           /\ MemoryOf[q].expires \in BOOLEAN
    /\ Decisions \subseteq DecisionKind
    /\ Free \notin Calls
    /\ NoOutput \notin Outputs
    /\ HasNonceStore \in BOOLEAN
    /\ HasReceiptV2 \in BOOLEAN
    /\ DepsOf \in [Calls -> Deps]

Status == { "completed", "refused_pre_model", "refused_post_model",
            "requires_consent", "escalated", "human_review",
            "failed_closed" }
Response == { "none", "text", "redacted", "refusal" }

\* The stages of a call, by the await it is suspended on.
Working == { "policy", "retrieve", "reserve", "reservation", "invoke",
             "model", "vault", "emit", "emitV2" }
Settled == { "done", "crashed" }

VARIABLES
    nonces,         \* [NonceKey -> the call that reserved it, or Free]
    expired,        \* nonce keys a reservation of which has reached its TTL
    vault,          \* [MemoryKey -> the call that wrote it, or Free]
    receipts,       \* [RequestKey -> receipt content, or NoReceipt]
    egress,         \* calls whose prompt was sent to the model
    responded,      \* calls whose model answered
    stage,          \* where each call is
    prompt,         \* retrieved contexts its prompt carries
    digests,        \* retrievedContextDigests
    pre, post,      \* the decisions its receipt will record
    memoryWritten,  \* memoryResult.written
    output,         \* what its model run adds to the receipt
    transits,       \* sequence numbers in its transit ledger's records
    attested,       \* whether it obtained a v2 receipt
    verdict,        \* the status it returns if the receipt is emitted
    response,       \* the responseText it returns if the receipt is emitted
    result          \* what it returned

tables == << nonces, expired, vault, receipts >>
model == << egress, responded, output, transits >>
decided == << prompt, digests, pre, post, memoryWritten >>
answer == << verdict, response >>
vars == << nonces, expired, vault, receipts, egress, responded, stage, prompt,
           digests, pre, post, memoryWritten, output, transits, attested,
           verdict, response, result >>

NoReceipt == [kind |-> "none"]
Pending == [status |-> "pending", response |-> "none", emitted |-> FALSE]

NonceKey == {<<TenantOf[q], NonceOf[q]>> : q \in Calls}
RequestKey == {<<TenantOf[q], RequestIdOf[q]>> : q \in Calls}
nonceKey(q) == <<TenantOf[q], NonceOf[q]>>
requestKey(q) == <<TenantOf[q], RequestIdOf[q]>>

\* recordId: identity, tier and content digest.
recordId(q) ==
    <<TenantOf[q], UserOf[q], MemoryOf[q].tier, MemoryOf[q].digest>>
MemoryKey == {recordId(q) : q \in {p \in Calls : MemoryOf[p] # NoMemory}}

Digest == {c.digest : c \in Contexts}
Receipt == [kind : {"receipt"}, input : {InputOf[q] : q \in Calls},
            digests : SUBSET Digest, pre : DecisionKind \cup {Undecided},
            post : DecisionKind \cup {Undecided}, memoryWritten : BOOLEAN,
            output : Outputs \cup {NoOutput}]

\* What the receipt of call q records, from the fields emitReceipt passes.
ReceiptContent(q) ==
    [kind |-> "receipt", input |-> InputOf[q], digests |-> digests[q],
     pre |-> pre[q], post |-> post[q], memoryWritten |-> memoryWritten[q],
     output |-> output[q]]

-----------------------------------------------------------------------------
(* Gates                                                                   *)

isModelInvocationAllowed(d) == d \in {"ALLOW", "RECEIPT_ONLY", "MODIFY"}

isMemoryWriteAllowed(d) ==
    d \in {"ALLOW", "RECEIPT_ONLY", "MODIFY", "REDACT"}

\* The pre-retrieval gate is the same set as the memory gate.
mayRetrieve(d) == d \in {"ALLOW", "RECEIPT_ONLY", "MODIFY", "REDACT"}

statusForBlockingDecision(d, fallback) ==
    CASE d = "REQUIRE_CONSENT" -> "requires_consent"
      [] d = "ESCALATE" -> "escalated"
      [] d = "HUMAN_REVIEW" -> "human_review"
      [] d \in {"REFUSE", "SILENCE"} -> fallback
      [] OTHER -> "failed_closed"

\* The status and text of a call whose model answered, by its post decision.
postStatus(d) ==
    IF d \in {"REFUSE", "SILENCE", "ESCALATE", "HUMAN_REVIEW",
              "REQUIRE_CONSENT"}
    THEN statusForBlockingDecision(d, "refused_post_model")
    ELSE "completed"
postResponse(d) ==
    CASE d = "REDACT" -> "redacted"
      [] d = "REFUSE" -> "refusal"
      [] d \in {"SILENCE", "ESCALATE", "HUMAN_REVIEW", "REQUIRE_CONSENT"}
            -> "none"
      [] OTHER -> "text"

strictRetrievalTaintBlockingEnabled(q) ==
    /\ ~DepsOf[q].allowTaintedDigestOnly
    /\ DepsOf[q].rejectCallerContexts \/ DepsOf[q].requireProvider

\* filterRetrievedContext.  The candidates' taints already hold what
\* sanitizeRetrievedContextCandidate adds: classification is a function of
\* the text.  The pre-retrieval decision has passed its gate here, so
\* untrusted instructions only raise the risk tag.
\* Mutant of crossTenant: the candidate's own tenant is not compared.
crossTenantByTaint(q, c) == "cross_tenant" \in c.taint

crossTenant(q, c) ==
    c.tenant # TenantOf[q] \/ "cross_tenant" \in c.taint
allowedContexts(q, candidates) == {c \in candidates : ~crossTenant(q, c)}
untrusted(q, candidates) ==
    \E c \in allowedContexts(q, candidates) :
        "untrusted_instruction" \in c.taint

\* allowedCandidates and buildPromptContext: candidates are picked by the
\* digests of the allowed ones, and the text of tainted ones is left out.
promptContexts(candidates, allowedDigests) ==
    {c \in candidates : /\ c.digest \in allowedDigests
                        /\ "untrusted_instruction" \notin c.taint}

Init ==
    /\ nonces = [k \in NonceKey |-> Free]
    /\ expired = {}
    /\ vault = [k \in MemoryKey |-> Free]
    /\ receipts = [k \in RequestKey |-> NoReceipt]
    /\ egress = {}
    /\ responded = {}
    /\ stage = [q \in Calls |-> "idle"]
    /\ prompt = [q \in Calls |-> {}]
    /\ digests = [q \in Calls |-> {}]
    /\ pre = [q \in Calls |-> Undecided]
    /\ post = [q \in Calls |-> Undecided]
    /\ memoryWritten = [q \in Calls |-> FALSE]
    /\ output = [q \in Calls |-> NoOutput]
    /\ transits = [q \in Calls |-> {}]
    /\ attested = [q \in Calls |-> FALSE]
    /\ verdict = [q \in Calls |-> "failed_closed"]
    /\ response = [q \in Calls |-> "none"]
    /\ result = [q \in Calls |-> Pending]

Goto(q, s) == stage' = [stage EXCEPT ![q] = s]

\* A return before any receipt is attempted.
FailClosed(q) ==
    /\ result' = [result EXCEPT ![q] = [status |-> "failed_closed",
                                        response |-> "none",
                                        emitted |-> FALSE]]
    /\ Goto(q, "done")
    /\ UNCHANGED << tables, model, decided, attested, answer >>

\* A gate refused the call before the model: decision d is recorded on both
\* sides and s is returned once the receipt is emitted.
Block(q, d, s) ==
    /\ pre' = [pre EXCEPT ![q] = d]
    /\ post' = [post EXCEPT ![q] = d]
    /\ verdict' = [verdict EXCEPT ![q] = s]
    /\ Goto(q, "emit")
    /\ UNCHANGED << tables, model, prompt, memoryWritten, attested, response,
                    result >>

-----------------------------------------------------------------------------
(* Admission and policy                                                    *)

Admit(q) ==
    /\ stage[q] = "idle"
    /\ Goto(q, "policy")
    /\ UNCHANGED << tables, model, decided, attested, answer, result >>

\* Client-declared identity, a foreign path tenant, a malformed nonce, or a
\* model outside the allowlist.
RejectRequest(q) == stage[q] = "idle" /\ FailClosed(q)

\* loadPolicies and the pre-retrieval decision.
LoadPolicies(q) ==
    /\ stage[q] = "policy"
    /\ \E d \in Decisions :
          \/ /\ ~mayRetrieve(d)
             /\ Block(q, d, statusForBlockingDecision(d, "refused_pre_model"))
             /\ UNCHANGED digests
          \/ /\ mayRetrieve(d)
             /\ Goto(q, "retrieve")
             /\ UNCHANGED << tables, model, decided, attested, answer, result >>

LoadPoliciesFails(q) == stage[q] = "policy" /\ FailClosed(q)

-----------------------------------------------------------------------------
(* Retrieval and the pre-model decision                                    *)

callerRejected(q) ==
    RetrievalOf[q] /\ DepsOf[q].rejectCallerContexts /\ CallerOf[q] # {}
providerMissing(q) ==
    RetrievalOf[q] /\ ~DepsOf[q].hasProvider /\ DepsOf[q].requireProvider

\* The candidate sets retrieval can come back with.
candidateSets(q) ==
    IF ~RetrievalOf[q] THEN {{}}
    ELSE IF ~DepsOf[q].hasProvider THEN {CallerOf[q]}
    ELSE {found \cup (IF DepsOf[q].rejectCallerContexts THEN {} ELSE CallerOf[q]) :
            found \in SUBSET Contexts}

\* From the candidates to the model or to a refusal, with pre-model decision
\* d; no await in between.
Screen(q, candidates, d) ==
    LET allowedDigests == {c.digest : c \in allowedContexts(q, candidates)} IN
    /\ digests' = [digests EXCEPT ![q] = allowedDigests]
    /\ \/ /\ \E c \in candidates : crossTenant(q, c)
          /\ Block(q, "REFUSE", "failed_closed")
       \/ /\ \A c \in candidates : ~crossTenant(q, c)
          /\ \/ /\ untrusted(q, candidates)
                /\ strictRetrievalTaintBlockingEnabled(q)
                /\ isModelInvocationAllowed(d)
                /\ Block(q, "ESCALATE", "escalated")
             \/ /\ ~isModelInvocationAllowed(d)
                /\ Block(q, d, statusForBlockingDecision(d, "refused_pre_model"))
             \/ /\ ~ (/\ untrusted(q, candidates)
                      /\ strictRetrievalTaintBlockingEnabled(q))
                /\ isModelInvocationAllowed(d)
                /\ pre' = [pre EXCEPT ![q] = d]
                /\ prompt' = [prompt EXCEPT ![q] =
                                promptContexts(candidates, allowedDigests)]
                /\ Goto(q, IF HasNonceStore THEN "reserve" ELSE "invoke")
                /\ UNCHANGED << tables, model, post, memoryWritten, attested,
                                answer, result >>

Retrieve(q) ==
    /\ stage[q] = "retrieve"
    /\ ~callerRejected(q)
    /\ ~providerMissing(q)
    /\ \E candidates \in candidateSets(q) : \E d \in Decisions :
          Screen(q, candidates, d)

\* Caller contexts refused, no provider, or the provider threw.
RetrieveRefused(q) ==
    /\ stage[q] = "retrieve"
    /\ \/ callerRejected(q)
       \/ providerMissing(q)
       \/ RetrievalOf[q] /\ DepsOf[q].hasProvider
    /\ Block(q, "REFUSE", "failed_closed")
    /\ UNCHANGED digests

-----------------------------------------------------------------------------
(* The execution nonce: DynamoDbExecutionNonceStore.reserve                *)

\* Mutant: the put carries no condition.
mayReserveAlways(q) == TRUE

\* attribute_not_exists(reservationKey)
mayReserve(q) == nonces[nonceKey(q)] = Free

Reserve(q) ==
    /\ stage[q] = "reserve"
    /\ mayReserve(q)
    /\ nonces' = [nonces EXCEPT ![nonceKey(q)] = q]
    /\ Goto(q, "invoke")
    /\ UNCHANGED << expired, vault, receipts, model, decided, attested,
                    answer, result >>

\* The put was applied but its answer was lost: the client's own retry fails
\* the condition, or gives up; the call is refused either way.
ReserveUnacknowledged(q) ==
    /\ stage[q] = "reserve"
    /\ mayReserve(q)
    /\ nonces' = [nonces EXCEPT ![nonceKey(q)] = q]
    /\ Goto(q, "reservation")
    /\ UNCHANGED << expired, vault, receipts, model, decided, attested,
                    answer, result >>

ReserveConditionFailed(q) ==
    /\ stage[q] = "reserve"
    /\ ~mayReserve(q)
    /\ Goto(q, "reservation")
    /\ UNCHANGED << tables, model, decided, attested, answer, result >>

\* Any other error from the put.
ReserveFails(q) ==
    /\ stage[q] = "reserve"
    /\ Block(q, "REFUSE", "failed_closed")
    /\ UNCHANGED digests

\* Mutant: a replay polls for the result of the run that holds the nonce.
ReadReservationPolls(q) ==
    /\ stage[q] = "reservation"
    /\ UNCHANGED vars

\* The consistent read after a failed condition.  The same context hash
\* answers IDEMPOTENT_REPLAY, another one or a vanished item throws, and
\* governedInvoke refuses the call either way.
ReadReservation(q) ==
    /\ stage[q] = "reservation"
    /\ Block(q, "REFUSE", "failed_closed")
    /\ UNCHANGED digests

-----------------------------------------------------------------------------
(* The model                                                               *)

\* The prompt leaves the runtime.
InvokeModel(q) ==
    /\ stage[q] = "invoke"
    /\ egress' = egress \cup {q}
    /\ Goto(q, "model")
    /\ UNCHANGED << tables, responded, output, transits, decided, attested,
                    answer, result >>

\* GatewayBoundModelInvoker records a transit as soon as it completes, before
\* it looks at the answer.  A ledger serves one call of governedInvoke, which
\* makes one transit: sequence number 0.
RecordTransit(q) ==
    transits' = IF DepsOf[q].gatewayBound
                THEN [transits EXCEPT ![q] = {0}]
                ELSE transits

\* Mutant: the post-model decision does not override the memory decision.
memoryDecisionAlone(d, m) == m

\* The memory decision after the post-model override.
memoryDecision(d, m) == IF d = "MEMORY_SUPPRESS" THEN "MEMORY_SUPPRESS" ELSE m

\* The model answered; post-model and memory decisions follow at once.
ModelReturns(q) ==
    /\ stage[q] = "model"
    /\ responded' = responded \cup {q}
    /\ RecordTransit(q)
    /\ \E o \in Outputs : output' = [output EXCEPT ![q] = o]
    /\ \E d \in Decisions, m \in Decisions :
          /\ post' = [post EXCEPT ![q] = d]
          /\ verdict' = [verdict EXCEPT ![q] = postStatus(d)]
          /\ response' = [response EXCEPT ![q] = postResponse(d)]
          /\ Goto(q, IF /\ MemoryOf[q] # NoMemory
                        /\ isMemoryWriteAllowed(memoryDecision(d, m))
                     THEN "vault" ELSE "emit")
    /\ UNCHANGED << tables, egress, prompt, digests, pre, memoryWritten,
                    attested, result >>

\* invoke rejected: the endpoint was never reached or did not answer, its
\* answer is one the invoker cannot use, or it broke off or went past the
\* transit cap and was dropped before it could be recorded.
ModelFails(q) ==
    /\ stage[q] \in {"invoke", "model"}
    /\ \/ UNCHANGED << responded, transits >>
       \/ /\ stage[q] = "model"
          /\ responded' = responded \cup {q}
          /\ RecordTransit(q)
       \/ /\ stage[q] = "model"
          /\ responded' = responded \cup {q}
          /\ UNCHANGED transits
    /\ post' = [post EXCEPT ![q] = "REFUSE"]
    /\ verdict' = [verdict EXCEPT ![q] = "failed_closed"]
    /\ Goto(q, "emit")
    /\ UNCHANGED << tables, egress, output, prompt, digests, pre,
                    memoryWritten, attested, response, result >>

-----------------------------------------------------------------------------
(* The memory vault: DynamoDbVaultStore.write                              *)

\* Tiers and consent that are answered { written: false } without a put.
neverPersisted(q) ==
    \/ MemoryOf[q].tier = "KAPPA"
    \/ MemoryOf[q].tier = "RESTRICTED" /\ ConsentOf[q] # "granted"

\* A SESSION record without expiresAt is a ValidationError.
invalidWrite(q) == MemoryOf[q].tier = "SESSION" /\ ~MemoryOf[q].expires

SkipMemory(q) ==
    /\ stage[q] = "vault"
    /\ neverPersisted(q)
    /\ Goto(q, "emit")
    /\ UNCHANGED << tables, model, decided, attested, answer, result >>

WriteMemory(q) ==
    /\ stage[q] = "vault"
    /\ ~neverPersisted(q)
    /\ ~invalidWrite(q)
    /\ vault[recordId(q)] = Free
    /\ vault' = [vault EXCEPT ![recordId(q)] = q]
    /\ memoryWritten' = [memoryWritten EXCEPT ![q] = TRUE]
    /\ Goto(q, "emit")
    /\ UNCHANGED << nonces, expired, receipts, model, prompt, digests, pre,
                    post, attested, answer, result >>

\* Mutant: a failed write is reported to the receipt as done.
WriteMemoryFailsReported(q) ==
    /\ stage[q] = "vault"
    /\ ~neverPersisted(q)
    /\ memoryWritten' = [memoryWritten EXCEPT ![q] = TRUE]
    /\ verdict' = [verdict EXCEPT ![q] = "failed_closed"]
    /\ response' = [response EXCEPT ![q] = "none"]
    /\ Goto(q, "emit")
    /\ UNCHANGED << tables, model, prompt, digests, pre, post, attested,
                    result >>

\* write threw: invalid, a record of that id exists, or the put failed,
\* possibly after it was applied.
WriteMemoryFails(q) ==
    /\ stage[q] = "vault"
    /\ ~neverPersisted(q)
    /\ \/ UNCHANGED vault
       \/ /\ ~invalidWrite(q)
          /\ vault[recordId(q)] = Free
          /\ vault' = [vault EXCEPT ![recordId(q)] = q]
    /\ verdict' = [verdict EXCEPT ![q] = "failed_closed"]
    /\ response' = [response EXCEPT ![q] = "none"]
    /\ Goto(q, "emit")
    /\ UNCHANGED << nonces, expired, receipts, model, decided, attested,
                    result >>

-----------------------------------------------------------------------------
(* Receipts and the answer: emitReceipt, emitReceiptV2Layer, finalizeResult *)

\* Mutant: the answer is returned though no receipt was emitted.
FinishFailOpen(q, emitted) ==
    /\ result' = [result EXCEPT ![q] =
          [status |-> verdict[q], response |-> response[q],
           emitted |-> emitted]]
    /\ Goto(q, "done")

Finish(q, emitted) ==
    /\ result' = [result EXCEPT ![q] =
          IF emitted
          THEN [status |-> verdict[q], response |-> response[q],
                emitted |-> TRUE]
          ELSE [status |-> "failed_closed", response |-> "none",
                emitted |-> FALSE]]
    /\ Goto(q, "done")

\* Mutant of mayRecord: the put has no condition on the request marker.
mayRecordUnmarked(q) == stage[q] = "emit"

\* The request marker admits this content.
mayRecord(q) == receipts[requestKey(q)] \in {NoReceipt, ReceiptContent(q)}

EmitReceipt(q) ==
    /\ stage[q] = "emit"
    /\ mayRecord(q)
    /\ receipts' = [receipts EXCEPT ![requestKey(q)] = ReceiptContent(q)]
    /\ IF HasReceiptV2
       THEN Goto(q, "emitV2") /\ UNCHANGED result
       ELSE Finish(q, TRUE)
    /\ UNCHANGED << nonces, expired, vault, model, decided, attested, answer >>

\* emit threw: an integrity collision, a lost head race, or an error after
\* which the receipt may have been stored all the same.
EmitReceiptFails(q) ==
    /\ stage[q] = "emit"
    /\ \/ UNCHANGED receipts
       \/ /\ mayRecord(q)
          /\ receipts' = [receipts EXCEPT ![requestKey(q)] = ReceiptContent(q)]
    /\ Finish(q, FALSE)
    /\ UNCHANGED << nonces, expired, vault, model, decided, attested, answer >>

\* Mutant of unrecordedEgress: any trace will do.
unrecordedEgressIgnored(q) == stage[q] = "idle"

\* modelInvocationSucceeded with no recorded transit.
unrecordedEgress(q) == output[q] # NoOutput /\ transits[q] = {}

EmitReceiptV2(q) ==
    /\ stage[q] = "emitV2"
    /\ ~unrecordedEgress(q)
    /\ attested' = [attested EXCEPT ![q] = TRUE]
    /\ Finish(q, TRUE)
    /\ UNCHANGED << tables, model, decided, answer >>

EmitReceiptV2Fails(q) ==
    /\ stage[q] = "emitV2"
    /\ Finish(q, FALSE)
    /\ UNCHANGED << tables, model, decided, attested, answer >>

-----------------------------------------------------------------------------
(* Environment                                                             *)

\* The process is killed or times out while a call is suspended.
Crash(q) ==
    /\ stage[q] \in Working
    /\ Goto(q, "crashed")
    /\ UNCHANGED << tables, model, decided, attested, answer, result >>

\* DynamoDB removes a reservation 24 hours after it was made.  No call lasts
\* that long, so its holder has settled.
ExpireReservation(k) ==
    /\ nonces[k] # Free
    /\ stage[nonces[k]] \in Settled
    /\ nonces' = [nonces EXCEPT ![k] = Free]
    /\ expired' = expired \cup {k}
    /\ UNCHANGED << vault, receipts, model, stage, decided, attested, answer,
                    result >>

\* Every call has been answered or lost.
AllSettled ==
    /\ \A q \in Calls : stage[q] \in Settled
    /\ UNCHANGED vars

Step(q) ==
    \/ Admit(q) \/ RejectRequest(q) \/ LoadPolicies(q) \/ LoadPoliciesFails(q)
    \/ Retrieve(q) \/ RetrieveRefused(q)
    \/ Reserve(q) \/ ReserveUnacknowledged(q) \/ ReserveConditionFailed(q)
    \/ ReserveFails(q) \/ ReadReservation(q)
    \/ InvokeModel(q) \/ ModelReturns(q) \/ ModelFails(q)
    \/ SkipMemory(q) \/ WriteMemory(q) \/ WriteMemoryFails(q)
    \/ EmitReceipt(q) \/ EmitReceiptFails(q)
    \/ EmitReceiptV2(q) \/ EmitReceiptV2Fails(q)

Next ==
    \/ \E q \in Calls : Step(q)
    \/ \E q \in Calls : Crash(q)
    \/ \E k \in NonceKey : ExpireReservation(k)
    \/ AllSettled

Spec == Init /\ [][Next]_vars

\* Every await of an admitted call settles: the SDK clients, the KMS signer
\* and the transit time out, and then throw.  Nothing makes a request arrive.
FairSpec == Spec /\ \A q \in Calls : WF_vars(stage[q] # "idle" /\ Step(q))

-----------------------------------------------------------------------------
(* Properties                                                              *)

\* Every variable holds what the code can put there.
TypeOK ==
    /\ nonces \in [NonceKey -> Calls \cup {Free}]
    /\ expired \subseteq NonceKey
    /\ vault \in [MemoryKey -> Calls \cup {Free}]
    /\ receipts \in [RequestKey -> Receipt \cup {NoReceipt}]
    /\ egress \subseteq Calls
    /\ responded \subseteq Calls
    /\ stage \in [Calls -> {"idle"} \cup Working \cup Settled]
    /\ prompt \in [Calls -> SUBSET Contexts]
    /\ digests \in [Calls -> SUBSET Digest]
    /\ pre \in [Calls -> DecisionKind \cup {Undecided}]
    /\ post \in [Calls -> DecisionKind \cup {Undecided}]
    /\ memoryWritten \in [Calls -> BOOLEAN]
    /\ output \in [Calls -> Outputs \cup {NoOutput}]
    /\ transits \in [Calls -> SUBSET {0}]
    /\ attested \in [Calls -> BOOLEAN]
    /\ verdict \in [Calls -> Status]
    /\ response \in [Calls -> Response]
    /\ result \in [Calls -> [status : Status \cup {"pending"},
                             response : Response, emitted : BOOLEAN]]

\* Replay protection: while its reservation lives, an execution nonce of a
\* tenant sends at most one prompt to the model, however many calls carry it,
\* whichever of them crash and whatever answers of the table are lost.
OneExecutionPerReservation ==
    HasNonceStore =>
        \A p, q \in egress :
            nonceKey(p) = nonceKey(q) /\ nonceKey(p) \notin expired => p = q

\* Text reaches the caller only when the model answered this call and the
\* stored receipt of its request records exactly these decisions, and with
\* the v2 layer only when a recorded transit was attested too.
ReleasedIsReceipted ==
    \A q \in Calls :
        result[q].response # "none" =>
            /\ q \in responded
            /\ receipts[requestKey(q)] = ReceiptContent(q)
            /\ HasReceiptV2 => attested[q] /\ transits[q] # {}

\* A stored receipt that says memory was written is right: a call of that
\* request wrote its record.
NoPhantomMemory ==
    \A k \in RequestKey :
        receipts[k] # NoReceipt /\ receipts[k].memoryWritten =>
            \E q \in Calls : /\ requestKey(q) = k
                             /\ MemoryOf[q] # NoMemory
                             /\ vault[recordId(q)] = q

\* A vault record was written by a call whose model answered and whose
\* post-model decision did not suppress memory, and restricted memory only
\* with consent.
MemoryIsGoverned ==
    \A k \in MemoryKey : \A q \in Calls :
        vault[k] = q =>
            /\ q \in responded
            /\ post[q] # "MEMORY_SUPPRESS"
            /\ MemoryOf[q].tier # "KAPPA"
            /\ MemoryOf[q].tier = "RESTRICTED" => ConsentOf[q] = "granted"

\* No text of another tenant, and no text classified as an untrusted
\* instruction, is in a prompt that was sent.
PromptsStayClean ==
    \A q \in egress :
        \A c \in prompt[q] : /\ c.tenant = TenantOf[q]
                             /\ "cross_tenant" \notin c.taint
                             /\ "untrusted_instruction" \notin c.taint

\* A v2 receipt with an empty execution trace is only given to a call that
\* made no use of a model's answer: the stored decision receipt records no
\* output, no memory was written and no text was returned.  The model may have
\* answered all the same: an answer that breaks off or goes past the transit
\* cap is refused before it is recorded.
CustodyIsComplete ==
    \A q \in Calls :
        attested[q] /\ transits[q] = {} =>
            /\ receipts[requestKey(q)] # NoReceipt
            /\ receipts[requestKey(q)].output = NoOutput
            /\ \A k \in MemoryKey : vault[k] # q
            /\ result[q].response = "none"

\* Every admitted call is answered, unless its process dies: none stays
\* suspended on the table, the model, the vault or the receipts for ever.
CallsAreAnswered ==
    <>[](\A q \in Calls : stage[q] \notin Working)

-----------------------------------------------------------------------------
(* The inductive invariant behind the safety properties                    *)

AfterModel == {"vault", "emit", "emitV2"} \cup Settled

\* A call about to invoke holds its nonce, and a prompt that was sent holds
\* it still unless the reservation expired.
ReservationsHeld ==
    HasNonceStore =>
        /\ \A q \in Calls :
              stage[q] \in {"invoke", "model"} => nonces[nonceKey(q)] = q
        /\ \A q \in egress :
              \/ nonces[nonceKey(q)] = q
              \/ nonceKey(q) \in expired

\* What a call has done is told by its stage.
CallAgrees(q) ==
    /\ stage[q] = "model" => q \in egress
    /\ q \in egress => stage[q] \in {"model"} \cup AfterModel
    /\ stage[q] = "vault" => /\ q \in responded
                             /\ post[q] # "MEMORY_SUPPRESS"
                             /\ MemoryOf[q] # NoMemory
                             /\ output[q] # NoOutput
    /\ q \in responded => stage[q] \in AfterModel
    /\ response[q] # "none" => /\ stage[q] \in AfterModel
                               /\ q \in responded
                               /\ output[q] # NoOutput
    /\ memoryWritten[q] => /\ stage[q] \in {"emit", "emitV2"} \cup Settled
                           /\ MemoryOf[q] # NoMemory
                           /\ vault[recordId(q)] = q
    /\ result[q].response # "none" => stage[q] = "done"
StagesAgree == \A q \in Calls : CallAgrees(q)

\* Between the v1 receipt and the answer, the receipt stays as it is.
ReceiptStands ==
    \A q \in Calls :
        stage[q] = "emitV2" => receipts[requestKey(q)] = ReceiptContent(q)

\* A record is written late in a call that passed the vault's own gates.
RecordsAreLate ==
    \A k \in MemoryKey : \A q \in Calls :
        vault[k] = q => stage[q] \in {"emit", "emitV2"} \cup Settled

\* Memory is written and text is returned from an answer only, and a call that
\* obtained a v2 receipt has returned with its decision receipt, and with a
\* recorded transit if it took an answer in.
AnswersRecorded ==
    /\ \A k \in MemoryKey : \A q \in Calls : vault[k] = q => output[q] # NoOutput
    /\ \A q \in Calls : result[q].response # "none" => output[q] # NoOutput
    /\ \A q \in Calls :
          attested[q] => /\ stage[q] = "done"
                         /\ ~unrecordedEgress(q)
                         /\ receipts[requestKey(q)] = ReceiptContent(q)

\* Whether or not it was sent, a prompt is built from clean contexts.
PromptsBuiltClean ==
    \A q \in Calls :
        \A c \in prompt[q] : /\ c.tenant = TenantOf[q]
                             /\ "cross_tenant" \notin c.taint
                             /\ "untrusted_instruction" \notin c.taint

Inv ==
    /\ TypeOK
    /\ ReservationsHeld
    /\ StagesAgree
    /\ ReceiptStands
    /\ ReleasedIsReceipted
    /\ NoPhantomMemory
    /\ RecordsAreLate
    /\ MemoryIsGoverned
    /\ AnswersRecorded
    /\ PromptsBuiltClean

-----------------------------------------------------------------------------
(* The calls use the receipts through the interface ReceiptChain provides. *)

\* No answer but failed_closed without a receipt: whatever a call returned,
\* a refusal or an escalation as much as a text, the stored receipt of its
\* request records exactly its decisions, and still does so after other
\* calls have reused the request id (finalizeResult).
AnswersAreReceipted ==
    \A q \in Calls :
        result[q].emitted \/ result[q].status \notin {"pending", "failed_closed"} =>
            /\ stage[q] = "done" /\ result[q].emitted
            /\ receipts[requestKey(q)] = ReceiptContent(q)

\* The content of the decision receipt a call is holding.
HeldBy(q) ==
    IF stage[q] = "emitV2" \/ result[q].emitted THEN ReceiptContent(q)
    ELSE IF stage[q] \in Settled THEN [kind |-> "lost"] ELSE NoReceipt

Store == INSTANCE ReceiptStore WITH
             Callers <- Calls,
             KeyOf <- [q \in Calls |-> requestKey(q)],
             stored <- receipts,
             held <- [q \in Calls |-> HeldBy(q)]

\* Every step of a call, a crash between the v1 and the v2 receipt included,
\* is allowed by the interface emit provides: a receipt is never replaced,
\* and what a call goes on to decide, write or send is in the receipt it
\* holds (governedInvoke's emitReceipt and finalizeResult).
ImplementsStore == Store!StoreSpec
=============================================================================
