------------------------ MODULE GovernedInvokeProofs ------------------------
(***************************************************************************)
(* Proofs about GovernedInvoke, for any number of calls, any contexts and  *)
(* policies and every deployment.                                          *)
(***************************************************************************)
EXTENDS GovernedInvoke, TLAPS

USE DEF Goto, tables, model, decided, answer

\* The keys of a call are keys of the tables.
LEMMA KeysOfCalls ==
    ASSUME NEW q \in Calls
    PROVE /\ nonceKey(q) \in NonceKey
          /\ requestKey(q) \in RequestKey
          /\ MemoryOf[q] # NoMemory => recordId(q) \in MemoryKey
BY DEF nonceKey, requestKey, recordId, NonceKey, RequestKey, MemoryKey

\* A receipt built from well-typed fields is a receipt.
LEMMA ContentIsReceipt ==
    ASSUME TypeOK, NEW q \in Calls
    PROVE /\ ReceiptContent(q) \in Receipt
          /\ ReceiptContent(q) # NoReceipt
          /\ ReceiptContent(q).memoryWritten = memoryWritten[q]
BY DEF TypeOK, ReceiptContent, Receipt, NoReceipt

\* Retrieval returns contexts, and what is kept of them is typed.
LEMMA CandidatesAreContexts ==
    ASSUME NEW q \in Calls, NEW candidates \in candidateSets(q)
    PROVE /\ candidates \subseteq Contexts
          /\ {c.digest : c \in allowedContexts(q, candidates)} \subseteq Digest
          /\ promptContexts(candidates,
                {c.digest : c \in allowedContexts(q, candidates)})
             \subseteq Contexts
<1>1. candidates \subseteq Contexts
  BY GovernedInvokeAssumption DEF candidateSets
<1>. QED
  BY <1>1 DEF allowedContexts, promptContexts, Digest

\* Every decision maps to a status and to a response the result may carry.
LEMMA StatusTypes ==
    /\ \A d \in DecisionKind, f \in Status :
          statusForBlockingDecision(d, f) \in Status
    /\ \A d \in DecisionKind : postStatus(d) \in Status
    /\ \A d \in DecisionKind : postResponse(d) \in Response
BY DEF statusForBlockingDecision, postStatus, postResponse, Status, Response,
       DecisionKind

\* A refusal before the model keeps the types.
LEMMA BlockTypes ==
    ASSUME TypeOK, NEW q \in Calls, NEW d \in DecisionKind, NEW s \in Status,
           Block(q, d, s), digests' \in [Calls -> SUBSET Digest]
    PROVE TypeOK'
BY DEF Block, TypeOK, Working

\* A return without a receipt keeps the types.
LEMMA FailClosedTypes ==
    ASSUME TypeOK, NEW q \in Calls, FailClosed(q)
    PROVE TypeOK'
BY DEF FailClosed, TypeOK, Status, Response, Settled

\* finalizeResult returns a well-typed result.
LEMMA FinishTypes ==
    ASSUME TypeOK, NEW q \in Calls, NEW b \in BOOLEAN, Finish(q, b)
    PROVE /\ stage' \in [Calls -> {"idle"} \cup Working \cup Settled]
          /\ result' \in [Calls -> [status : Status \cup {"pending"},
                                    response : Response, emitted : BOOLEAN]]
BY DEF Finish, TypeOK, Status, Response, Settled

-----------------------------------------------------------------------------
(* Types                                                                   *)

\* The initial state is well typed.
LEMMA TypeInit == Init => TypeOK
BY GovernedInvokeAssumption
   DEF Init, TypeOK, Pending, Status, Response, Working, Settled

\* Every step of a call keeps the types.
LEMMA TypeStep ==
    ASSUME TypeOK, NEW q \in Calls, Step(q)
    PROVE TypeOK'
<1>1. CASE Admit(q)
  BY <1>1 DEF Admit, TypeOK, Working
<1>2. CASE RejectRequest(q) \/ LoadPoliciesFails(q)
  BY <1>2, FailClosedTypes DEF RejectRequest, LoadPoliciesFails
<1>3. CASE LoadPolicies(q)
  <2>1. PICK d \in Decisions :
          \/ /\ Block(q, d, statusForBlockingDecision(d, "refused_pre_model"))
             /\ UNCHANGED digests
          \/ /\ Goto(q, "retrieve")
             /\ UNCHANGED << tables, model, decided, attested, answer, result >>
    BY <1>3 DEF LoadPolicies
  <2>2. /\ d \in DecisionKind
        /\ statusForBlockingDecision(d, "refused_pre_model") \in Status
    BY GovernedInvokeAssumption, StatusTypes DEF Status
  <2>3. digests' = digests /\ digests \in [Calls -> SUBSET Digest]
    BY <2>1 DEF TypeOK
  <2>4. CASE Block(q, d, statusForBlockingDecision(d, "refused_pre_model"))
    BY <2>2, <2>3, <2>4, BlockTypes
  <2>5. CASE /\ Goto(q, "retrieve")
             /\ UNCHANGED << tables, model, decided, attested, answer, result >>
    BY <2>5 DEF TypeOK, Working
  <2>. QED BY <2>1, <2>4, <2>5
<1>4. CASE Retrieve(q)
  <2>1. PICK candidates \in candidateSets(q), d \in Decisions :
          Screen(q, candidates, d)
    BY <1>4 DEF Retrieve
  <2> DEFINE allowedDigests == {c.digest : c \in allowedContexts(q, candidates)}
  <2>2. /\ d \in DecisionKind
        /\ statusForBlockingDecision(d, "refused_pre_model") \in Status
        /\ {"REFUSE", "ESCALATE"} \subseteq DecisionKind
        /\ {"failed_closed", "escalated"} \subseteq Status
    BY GovernedInvokeAssumption, StatusTypes DEF Status, DecisionKind
  <2>3. /\ digests' = [digests EXCEPT ![q] = allowedDigests]
        /\ digests' \in [Calls -> SUBSET Digest]
        /\ promptContexts(candidates, allowedDigests) \in SUBSET Contexts
    BY <2>1, CandidatesAreContexts DEF Screen, TypeOK
  <2>4. CASE \/ Block(q, "REFUSE", "failed_closed")
             \/ Block(q, "ESCALATE", "escalated")
             \/ Block(q, d, statusForBlockingDecision(d, "refused_pre_model"))
    BY <2>2, <2>3, <2>4, BlockTypes
  <2>5. CASE /\ pre' = [pre EXCEPT ![q] = d]
             /\ prompt' = [prompt EXCEPT ![q] =
                             promptContexts(candidates, allowedDigests)]
             /\ Goto(q, IF HasNonceStore THEN "reserve" ELSE "invoke")
             /\ UNCHANGED << tables, model, post, memoryWritten, attested,
                             answer, result >>
    BY <2>2, <2>3, <2>5 DEF TypeOK, Working
  <2>. QED BY <2>1, <2>4, <2>5 DEF Screen
<1>5. CASE RetrieveRefused(q) \/ ReserveFails(q) \/ ReadReservation(q)
  <2>1. Block(q, "REFUSE", "failed_closed") /\ UNCHANGED digests
    BY <1>5 DEF RetrieveRefused, ReserveFails, ReadReservation
  <2>2. "REFUSE" \in DecisionKind /\ "failed_closed" \in Status
    BY DEF DecisionKind, Status
  <2>. QED BY <2>1, <2>2, BlockTypes DEF TypeOK
<1>6. CASE Reserve(q) \/ ReserveUnacknowledged(q)
  <2>1. nonces' \in [NonceKey -> Calls \cup {Free}]
    BY <1>6 DEF Reserve, ReserveUnacknowledged, TypeOK
  <2>2. stage' \in [Calls -> {"idle"} \cup Working \cup Settled]
    BY <1>6 DEF Reserve, ReserveUnacknowledged, TypeOK, Working
  <2>. QED BY <1>6, <2>1, <2>2 DEF Reserve, ReserveUnacknowledged, TypeOK
<1>7. CASE ReserveConditionFailed(q)
  BY <1>7 DEF ReserveConditionFailed, TypeOK, Working
<1>8. CASE InvokeModel(q)
  BY <1>8 DEF InvokeModel, TypeOK, Working
<1>9. CASE ModelReturns(q)
  <2>1. /\ responded' \subseteq Calls
        /\ transits' \in [Calls -> SUBSET {0}]
        /\ output' \in [Calls -> Outputs \cup {NoOutput}]
    BY <1>9 DEF ModelReturns, RecordTransit, TypeOK
  <2>2. PICK d \in Decisions, m \in Decisions :
          /\ post' = [post EXCEPT ![q] = d]
          /\ verdict' = [verdict EXCEPT ![q] = postStatus(d)]
          /\ response' = [response EXCEPT ![q] = postResponse(d)]
          /\ Goto(q, IF /\ MemoryOf[q] # NoMemory
                        /\ isMemoryWriteAllowed(memoryDecision(d, m))
                     THEN "vault" ELSE "emit")
    BY <1>9 DEF ModelReturns
  <2>3. d \in DecisionKind /\ postStatus(d) \in Status
        /\ postResponse(d) \in Response
    BY GovernedInvokeAssumption, StatusTypes
  <2>4. /\ post' \in [Calls -> DecisionKind \cup {Undecided}]
        /\ verdict' \in [Calls -> Status]
        /\ response' \in [Calls -> Response]
        /\ stage' \in [Calls -> {"idle"} \cup Working \cup Settled]
    BY <2>2, <2>3 DEF TypeOK, Working
  <2>. QED BY <1>9, <2>1, <2>4 DEF ModelReturns, TypeOK
<1>10. CASE ModelFails(q)
  <2>1. /\ responded' \subseteq Calls
        /\ transits' \in [Calls -> SUBSET {0}]
    <3>1. responded \subseteq Calls /\ transits \in [Calls -> SUBSET {0}]
      BY DEF TypeOK
    <3>2. CASE UNCHANGED << responded, transits >>
      BY <3>1, <3>2
    <3>3. CASE responded' = responded \cup {q} /\ RecordTransit(q)
      BY <3>1, <3>3 DEF RecordTransit
    <3>4. CASE responded' = responded \cup {q} /\ UNCHANGED transits
      BY <3>1, <3>4
    <3> QED
      BY <1>10, <3>2, <3>3, <3>4 DEF ModelFails
  <2>2. /\ post' \in [Calls -> DecisionKind \cup {Undecided}]
        /\ verdict' \in [Calls -> Status]
        /\ stage' \in [Calls -> {"idle"} \cup Working \cup Settled]
    BY <1>10 DEF ModelFails, TypeOK, Working, Status, DecisionKind
  <2>. QED BY <1>10, <2>1, <2>2 DEF ModelFails, TypeOK
<1>11. CASE SkipMemory(q)
  BY <1>11 DEF SkipMemory, TypeOK, Working
<1>12. CASE WriteMemory(q)
  BY <1>12 DEF WriteMemory, TypeOK, Working
<1>13. CASE WriteMemoryFails(q)
  <2>1. vault' \in [MemoryKey -> Calls \cup {Free}]
    BY <1>13 DEF WriteMemoryFails, TypeOK
  <2>2. /\ verdict' \in [Calls -> Status]
        /\ response' \in [Calls -> Response]
        /\ stage' \in [Calls -> {"idle"} \cup Working \cup Settled]
    BY <1>13 DEF WriteMemoryFails, TypeOK, Working, Status, Response
  <2>. QED BY <1>13, <2>1, <2>2 DEF WriteMemoryFails, TypeOK
<1>14. CASE EmitReceipt(q)
  <2>1. receipts' \in [RequestKey -> Receipt \cup {NoReceipt}]
    BY <1>14, ContentIsReceipt DEF EmitReceipt, TypeOK
  <2>2. /\ stage' \in [Calls -> {"idle"} \cup Working \cup Settled]
        /\ result' \in [Calls -> [status : Status \cup {"pending"},
                                  response : Response, emitted : BOOLEAN]]
    <3>1. CASE HasReceiptV2
      BY <1>14, <3>1 DEF EmitReceipt, TypeOK, Working
    <3>2. CASE ~HasReceiptV2
      BY <1>14, <3>2, FinishTypes DEF EmitReceipt
    <3>. QED BY <3>1, <3>2
  <2>. QED BY <1>14, <2>1, <2>2 DEF EmitReceipt, TypeOK
<1>15. CASE EmitReceiptFails(q)
  <2>1. receipts' \in [RequestKey -> Receipt \cup {NoReceipt}]
    BY <1>15, ContentIsReceipt DEF EmitReceiptFails, TypeOK
  <2>. QED BY <1>15, <2>1, FinishTypes DEF EmitReceiptFails, TypeOK
<1>16. CASE EmitReceiptV2(q)
  BY <1>16, FinishTypes DEF EmitReceiptV2, TypeOK
<1>17. CASE EmitReceiptV2Fails(q)
  BY <1>17, FinishTypes DEF EmitReceiptV2Fails, TypeOK
<1>. QED
  BY <1>1, <1>2, <1>3, <1>4, <1>5, <1>6, <1>7, <1>8, <1>9, <1>10, <1>11,
     <1>12, <1>13, <1>14, <1>15, <1>16, <1>17 DEF Step

\* Every step, of a call or of the environment, keeps the types.
LEMMA TypeNext == TypeOK /\ [Next]_vars => TypeOK'
<1> SUFFICES ASSUME TypeOK, [Next]_vars PROVE TypeOK'
  OBVIOUS
<1>1. CASE \E q \in Calls : Step(q)
  BY <1>1, TypeStep
<1>2. CASE \E q \in Calls : Crash(q)
  BY <1>2 DEF Crash, TypeOK, Settled
<1>3. CASE \E k \in NonceKey : ExpireReservation(k)
  BY <1>3 DEF ExpireReservation, TypeOK
<1>4. CASE UNCHANGED vars
  BY <1>4 DEF vars, TypeOK
<1>. QED BY <1>1, <1>2, <1>3, <1>4 DEF Next, AllSettled

\* The variables keep their types, whatever the calls and the deployment.
THEOREM TypeCorrect == Spec => []TypeOK
BY TypeInit, TypeNext, PTL DEF Spec

-----------------------------------------------------------------------------
(* What a step of one call leaves alone, and what it does to the tables    *)

\* The local state of call p, and whether it reached the model, stay.
Unmoved(p) ==
    /\ stage'[p] = stage[p]
    /\ prompt'[p] = prompt[p] /\ digests'[p] = digests[p]
    /\ pre'[p] = pre[p] /\ post'[p] = post[p]
    /\ memoryWritten'[p] = memoryWritten[p]
    /\ output'[p] = output[p] /\ transits'[p] = transits[p]
    /\ attested'[p] = attested[p]
    /\ verdict'[p] = verdict[p] /\ response'[p] = response[p]
    /\ result'[p] = result[p]
    /\ p \in egress' <=> p \in egress
    /\ p \in responded' <=> p \in responded

\* A step of one call leaves the local state of every other alone.
LEMMA OthersUnmoved ==
    ASSUME TypeOK, NEW q \in Calls, NEW p \in Calls, p # q, Step(q)
    PROVE Unmoved(p)
<1>1. CASE Admit(q)
  BY <1>1 DEF Admit, Unmoved, TypeOK
<1>2. CASE RejectRequest(q)
  BY <1>2 DEF RejectRequest, FailClosed, Unmoved, TypeOK
<1>3. CASE LoadPolicies(q)
  BY <1>3 DEF LoadPolicies, Block, Unmoved, TypeOK
<1>4. CASE LoadPoliciesFails(q)
  BY <1>4 DEF LoadPoliciesFails, FailClosed, Unmoved, TypeOK
<1>5. CASE Retrieve(q)
  BY <1>5 DEF Retrieve, Screen, Block, Unmoved, TypeOK
<1>6. CASE RetrieveRefused(q)
  BY <1>6 DEF RetrieveRefused, Block, Unmoved, TypeOK
<1>7. CASE Reserve(q)
  BY <1>7 DEF Reserve, Unmoved, TypeOK
<1>8. CASE ReserveUnacknowledged(q)
  BY <1>8 DEF ReserveUnacknowledged, Unmoved, TypeOK
<1>9. CASE ReserveConditionFailed(q)
  BY <1>9 DEF ReserveConditionFailed, Unmoved, TypeOK
<1>10. CASE ReserveFails(q)
  BY <1>10 DEF ReserveFails, Block, Unmoved, TypeOK
<1>11. CASE ReadReservation(q)
  BY <1>11 DEF ReadReservation, Block, Unmoved, TypeOK
<1>12. CASE InvokeModel(q)
  BY <1>12 DEF InvokeModel, Unmoved, TypeOK
<1>13. CASE ModelReturns(q)
  BY <1>13 DEF ModelReturns, RecordTransit, Unmoved, TypeOK
<1>14. CASE ModelFails(q)
  BY <1>14 DEF ModelFails, RecordTransit, Unmoved, TypeOK
<1>15. CASE SkipMemory(q)
  BY <1>15 DEF SkipMemory, Unmoved, TypeOK
<1>16. CASE WriteMemory(q)
  BY <1>16 DEF WriteMemory, Unmoved, TypeOK
<1>17. CASE WriteMemoryFails(q)
  BY <1>17 DEF WriteMemoryFails, Unmoved, TypeOK
<1>18. CASE EmitReceipt(q)
  BY <1>18 DEF EmitReceipt, Finish, Unmoved, TypeOK
<1>19. CASE EmitReceiptFails(q)
  BY <1>19 DEF EmitReceiptFails, Finish, Unmoved, TypeOK
<1>20. CASE EmitReceiptV2(q)
  BY <1>20 DEF EmitReceiptV2, Finish, Unmoved, TypeOK
<1>21. CASE EmitReceiptV2Fails(q)
  BY <1>21 DEF EmitReceiptV2Fails, Finish, Unmoved, TypeOK
<1>. QED
  BY <1>1, <1>2, <1>3, <1>4, <1>5, <1>6, <1>7, <1>8, <1>9, <1>10, <1>11,
     <1>12, <1>13, <1>14, <1>15, <1>16, <1>17, <1>18, <1>19, <1>20, <1>21
     DEF Step

\* What a step of call q may do to the state calls share.
Effects(q) ==
    /\ expired' = expired
    /\ \/ nonces' = nonces
       \/ /\ stage[q] = "reserve"
          /\ nonces[nonceKey(q)] = Free
          /\ nonces' = [nonces EXCEPT ![nonceKey(q)] = q]
    /\ \/ vault' = vault
       \/ /\ stage[q] = "vault"
          /\ stage'[q] = "emit"
          /\ post'[q] = post[q]
          /\ output' = output
          /\ ~neverPersisted(q)
          /\ vault[recordId(q)] = Free
          /\ vault' = [vault EXCEPT ![recordId(q)] = q]
    /\ \/ receipts' = receipts
       \/ /\ stage[q] = "emit"
          /\ mayRecord(q)
          /\ receipts' = [receipts EXCEPT ![requestKey(q)] = ReceiptContent(q)]
    /\ \/ egress' = egress
       \/ /\ stage[q] = "invoke"
          /\ stage'[q] = "model"
          /\ egress' = egress \cup {q}
          /\ nonces' = nonces
    /\ \/ responded' = responded
       \/ /\ stage[q] = "model"
          /\ responded' = responded \cup {q}
    /\ \/ transits' = transits
       \/ transits' = [transits EXCEPT ![q] = {0}]

\* A step does to the shared tables what Effects allows and no more.
LEMMA StepEffects ==
    ASSUME TypeOK, NEW q \in Calls, Step(q)
    PROVE Effects(q)
<1>1. CASE Admit(q)
  BY <1>1 DEF Admit, Effects, TypeOK, mayReserve
<1>2. CASE RejectRequest(q)
  BY <1>2 DEF RejectRequest, FailClosed, Effects, TypeOK, mayReserve
<1>3. CASE LoadPolicies(q)
  BY <1>3 DEF LoadPolicies, Block, Effects, TypeOK, mayReserve
<1>4. CASE LoadPoliciesFails(q)
  BY <1>4 DEF LoadPoliciesFails, FailClosed, Effects, TypeOK, mayReserve
<1>5. CASE Retrieve(q)
  BY <1>5 DEF Retrieve, Screen, Block, Effects, TypeOK, mayReserve
<1>6. CASE RetrieveRefused(q)
  BY <1>6 DEF RetrieveRefused, Block, Effects, TypeOK, mayReserve
<1>7. CASE Reserve(q)
  BY <1>7 DEF Reserve, Effects, TypeOK, mayReserve
<1>8. CASE ReserveUnacknowledged(q)
  BY <1>8 DEF ReserveUnacknowledged, Effects, TypeOK, mayReserve
<1>9. CASE ReserveConditionFailed(q)
  BY <1>9 DEF ReserveConditionFailed, Effects, TypeOK, mayReserve
<1>10. CASE ReserveFails(q)
  BY <1>10 DEF ReserveFails, Block, Effects, TypeOK, mayReserve
<1>11. CASE ReadReservation(q)
  BY <1>11 DEF ReadReservation, Block, Effects, TypeOK, mayReserve
<1>12. CASE InvokeModel(q)
  BY <1>12 DEF InvokeModel, Effects, TypeOK, mayReserve
<1>13. CASE ModelReturns(q)
  BY <1>13 DEF ModelReturns, RecordTransit, Effects, TypeOK, mayReserve
<1>14. CASE ModelFails(q)
  BY <1>14 DEF ModelFails, RecordTransit, Effects, TypeOK, mayReserve
<1>15. CASE SkipMemory(q)
  BY <1>15 DEF SkipMemory, Effects, TypeOK, mayReserve
<1>16. CASE WriteMemory(q)
  BY <1>16 DEF WriteMemory, Effects, TypeOK, mayReserve
<1>17. CASE WriteMemoryFails(q)
  BY <1>17 DEF WriteMemoryFails, Effects, TypeOK, mayReserve
<1>18. CASE EmitReceipt(q)
  BY <1>18 DEF EmitReceipt, Finish, Effects, TypeOK, mayReserve
<1>19. CASE EmitReceiptFails(q)
  BY <1>19 DEF EmitReceiptFails, Finish, Effects, TypeOK, mayReserve
<1>20. CASE EmitReceiptV2(q)
  BY <1>20 DEF EmitReceiptV2, Finish, Effects, TypeOK, mayReserve
<1>21. CASE EmitReceiptV2Fails(q)
  BY <1>21 DEF EmitReceiptV2Fails, Finish, Effects, TypeOK, mayReserve
<1>. QED
  BY <1>1, <1>2, <1>3, <1>4, <1>5, <1>6, <1>7, <1>8, <1>9, <1>10, <1>11,
     <1>12, <1>13, <1>14, <1>15, <1>16, <1>17, <1>18, <1>19, <1>20, <1>21
     DEF Step

\* A call reaches the model only through the reservation, when there is one.
LEMMA StageMoves ==
    ASSUME TypeOK, NEW q \in Calls, Step(q)
    PROVE /\ stage'[q] = "invoke" /\ HasNonceStore =>
                /\ stage[q] = "reserve"
                /\ nonces' = [nonces EXCEPT ![nonceKey(q)] = q]
          /\ stage'[q] = "model" =>
                /\ stage[q] = "invoke"
                /\ egress' = egress \cup {q}
                /\ nonces' = nonces
<1>1. CASE Admit(q)
  BY <1>1 DEF Admit, TypeOK
<1>2. CASE RejectRequest(q)
  BY <1>2 DEF RejectRequest, FailClosed, TypeOK
<1>3. CASE LoadPolicies(q)
  BY <1>3 DEF LoadPolicies, Block, TypeOK
<1>4. CASE LoadPoliciesFails(q)
  BY <1>4 DEF LoadPoliciesFails, FailClosed, TypeOK
<1>5. CASE Retrieve(q)
  BY <1>5 DEF Retrieve, Screen, Block, TypeOK
<1>6. CASE RetrieveRefused(q)
  BY <1>6 DEF RetrieveRefused, Block, TypeOK
<1>7. CASE Reserve(q)
  BY <1>7 DEF Reserve, TypeOK
<1>8. CASE ReserveUnacknowledged(q)
  BY <1>8 DEF ReserveUnacknowledged, TypeOK
<1>9. CASE ReserveConditionFailed(q)
  BY <1>9 DEF ReserveConditionFailed, TypeOK
<1>10. CASE ReserveFails(q)
  BY <1>10 DEF ReserveFails, Block, TypeOK
<1>11. CASE ReadReservation(q)
  BY <1>11 DEF ReadReservation, Block, TypeOK
<1>12. CASE InvokeModel(q)
  BY <1>12 DEF InvokeModel, TypeOK
<1>13. CASE ModelReturns(q)
  BY <1>13 DEF ModelReturns, RecordTransit, TypeOK
<1>14. CASE ModelFails(q)
  BY <1>14 DEF ModelFails, RecordTransit, TypeOK
<1>15. CASE SkipMemory(q)
  BY <1>15 DEF SkipMemory, TypeOK
<1>16. CASE WriteMemory(q)
  BY <1>16 DEF WriteMemory, TypeOK
<1>17. CASE WriteMemoryFails(q)
  BY <1>17 DEF WriteMemoryFails, TypeOK
<1>18. CASE EmitReceipt(q)
  BY <1>18 DEF EmitReceipt, Finish, TypeOK
<1>19. CASE EmitReceiptFails(q)
  BY <1>19 DEF EmitReceiptFails, Finish, TypeOK
<1>20. CASE EmitReceiptV2(q)
  BY <1>20 DEF EmitReceiptV2, Finish, TypeOK
<1>21. CASE EmitReceiptV2Fails(q)
  BY <1>21 DEF EmitReceiptV2Fails, Finish, TypeOK
<1>. QED
  BY <1>1, <1>2, <1>3, <1>4, <1>5, <1>6, <1>7, <1>8, <1>9, <1>10, <1>11,
     <1>12, <1>13, <1>14, <1>15, <1>16, <1>17, <1>18, <1>19, <1>20, <1>21
     DEF Step

\* A call that has left the model keeps what its receipt records, and moves
\* only towards its answer.
LEMMA LateMoves ==
    ASSUME TypeOK, NEW q \in Calls, Step(q),
           stage[q] \in {"emit", "emitV2"} \cup Settled
    PROVE /\ stage'[q] \in {"emitV2", "done"}
          /\ post'[q] = post[q] /\ memoryWritten'[q] = memoryWritten[q]
          /\ ReceiptContent(q)' = ReceiptContent(q)
<1>1. CASE Admit(q)
  BY <1>1 DEF Admit, TypeOK, ReceiptContent, Settled
<1>2. CASE RejectRequest(q)
  BY <1>2 DEF RejectRequest, FailClosed, TypeOK, ReceiptContent, Settled
<1>3. CASE LoadPolicies(q)
  BY <1>3 DEF LoadPolicies, Block, TypeOK, ReceiptContent, Settled
<1>4. CASE LoadPoliciesFails(q)
  BY <1>4 DEF LoadPoliciesFails, FailClosed, TypeOK, ReceiptContent, Settled
<1>5. CASE Retrieve(q)
  BY <1>5 DEF Retrieve, Screen, Block, TypeOK, ReceiptContent, Settled
<1>6. CASE RetrieveRefused(q)
  BY <1>6 DEF RetrieveRefused, Block, TypeOK, ReceiptContent, Settled
<1>7. CASE Reserve(q)
  BY <1>7 DEF Reserve, TypeOK, ReceiptContent, Settled
<1>8. CASE ReserveUnacknowledged(q)
  BY <1>8 DEF ReserveUnacknowledged, TypeOK, ReceiptContent, Settled
<1>9. CASE ReserveConditionFailed(q)
  BY <1>9 DEF ReserveConditionFailed, TypeOK, ReceiptContent, Settled
<1>10. CASE ReserveFails(q)
  BY <1>10 DEF ReserveFails, Block, TypeOK, ReceiptContent, Settled
<1>11. CASE ReadReservation(q)
  BY <1>11 DEF ReadReservation, Block, TypeOK, ReceiptContent, Settled
<1>12. CASE InvokeModel(q)
  BY <1>12 DEF InvokeModel, TypeOK, ReceiptContent, Settled
<1>13. CASE ModelReturns(q)
  BY <1>13 DEF ModelReturns, RecordTransit, TypeOK, ReceiptContent, Settled
<1>14. CASE ModelFails(q)
  BY <1>14 DEF ModelFails, RecordTransit, TypeOK, ReceiptContent, Settled
<1>15. CASE SkipMemory(q)
  BY <1>15 DEF SkipMemory, TypeOK, ReceiptContent, Settled
<1>16. CASE WriteMemory(q)
  BY <1>16 DEF WriteMemory, TypeOK, ReceiptContent, Settled
<1>17. CASE WriteMemoryFails(q)
  BY <1>17 DEF WriteMemoryFails, TypeOK, ReceiptContent, Settled
<1>18. CASE EmitReceipt(q)
  BY <1>18 DEF EmitReceipt, Finish, TypeOK, ReceiptContent, Settled
<1>19. CASE EmitReceiptFails(q)
  BY <1>19 DEF EmitReceiptFails, Finish, TypeOK, ReceiptContent, Settled
<1>20. CASE EmitReceiptV2(q)
  BY <1>20 DEF EmitReceiptV2, Finish, TypeOK, ReceiptContent, Settled
<1>21. CASE EmitReceiptV2Fails(q)
  BY <1>21 DEF EmitReceiptV2Fails, Finish, TypeOK, ReceiptContent, Settled
<1>. QED
  BY <1>1, <1>2, <1>3, <1>4, <1>5, <1>6, <1>7, <1>8, <1>9, <1>10, <1>11,
     <1>12, <1>13, <1>14, <1>15, <1>16, <1>17, <1>18, <1>19, <1>20, <1>21
     DEF Step

\* What is recorded, in the vault or as a receipt, stays.
LEMMA TablesGrow ==
    ASSUME TypeOK, NEW q \in Calls, Step(q)
    PROVE /\ \A k \in RequestKey :
                receipts[k] # NoReceipt => receipts'[k] = receipts[k]
          /\ \A k \in MemoryKey : \A p \in Calls :
                vault[k] = p => vault'[k] = p
<1>1. Effects(q)
  BY StepEffects
<1>2. \A k \in RequestKey :
        receipts[k] # NoReceipt => receipts'[k] = receipts[k]
  BY <1>1 DEF Effects, TypeOK, mayRecord
<1>3. \A k \in MemoryKey : \A p \in Calls : vault[k] = p => vault'[k] = p
  BY <1>1, GovernedInvokeAssumption DEF Effects, TypeOK
<1>. QED BY <1>2, <1>3

-----------------------------------------------------------------------------
(* The stages of a call                                                    *)

\* A step of a call keeps its own stage in agreement with what it has done.
LEMMA SelfAgrees ==
    ASSUME TypeOK, NEW q \in Calls, CallAgrees(q), Step(q)
    PROVE CallAgrees(q)'
<1>1. CASE Admit(q)
  BY <1>1 DEF Admit, CallAgrees, AfterModel, Settled, TypeOK
<1>2. CASE RejectRequest(q)
  BY <1>2 DEF RejectRequest, FailClosed, CallAgrees, AfterModel, Settled,
     TypeOK
<1>3. CASE LoadPolicies(q)
  BY <1>3 DEF LoadPolicies, Block, CallAgrees, AfterModel, Settled, TypeOK
<1>4. CASE LoadPoliciesFails(q)
  BY <1>4 DEF LoadPoliciesFails, FailClosed, CallAgrees, AfterModel,
     Settled, TypeOK
<1>5. CASE Retrieve(q)
  BY <1>5 DEF Retrieve, Screen, Block, CallAgrees, AfterModel, Settled, TypeOK
<1>6. CASE RetrieveRefused(q)
  BY <1>6 DEF RetrieveRefused, Block, CallAgrees, AfterModel, Settled, TypeOK
<1>7. CASE Reserve(q)
  BY <1>7 DEF Reserve, CallAgrees, AfterModel, Settled, TypeOK
<1>8. CASE ReserveUnacknowledged(q)
  BY <1>8 DEF ReserveUnacknowledged, CallAgrees, AfterModel, Settled, TypeOK
<1>9. CASE ReserveConditionFailed(q)
  BY <1>9 DEF ReserveConditionFailed, CallAgrees, AfterModel, Settled, TypeOK
<1>10. CASE ReserveFails(q)
  BY <1>10 DEF ReserveFails, Block, CallAgrees, AfterModel, Settled, TypeOK
<1>11. CASE ReadReservation(q)
  BY <1>11 DEF ReadReservation, Block, CallAgrees, AfterModel, Settled, TypeOK
<1>12. CASE InvokeModel(q)
  BY <1>12 DEF InvokeModel, CallAgrees, AfterModel, Settled, TypeOK
<1>13. CASE ModelReturns(q)
  <2>1. PICK d \in Decisions, m \in Decisions :
          /\ post' = [post EXCEPT ![q] = d]
          /\ Goto(q, IF /\ MemoryOf[q] # NoMemory
                        /\ isMemoryWriteAllowed(memoryDecision(d, m))
                     THEN "vault" ELSE "emit")
    BY <1>13 DEF ModelReturns
  <2>2. /\ stage'[q] \in {"vault", "emit"}
        /\ stage'[q] = "vault" => /\ post'[q] # "MEMORY_SUPPRESS"
                                  /\ MemoryOf[q] # NoMemory
    BY <2>1 DEF TypeOK, memoryDecision, isMemoryWriteAllowed
  <2>3. output'[q] # NoOutput
    BY <1>13, GovernedInvokeAssumption DEF ModelReturns, TypeOK
  <2>4. /\ stage[q] = "model" /\ q \in responded'
        /\ UNCHANGED << tables, egress, memoryWritten, result >>
    BY <1>13 DEF ModelReturns
  <2>. QED BY <2>2, <2>3, <2>4 DEF CallAgrees, AfterModel, Settled
<1>14. CASE ModelFails(q)
  BY <1>14 DEF ModelFails, RecordTransit, CallAgrees, AfterModel, Settled,
     TypeOK
<1>15. CASE SkipMemory(q)
  BY <1>15 DEF SkipMemory, CallAgrees, AfterModel, Settled, TypeOK
<1>16. CASE WriteMemory(q)
  <2>1. /\ stage[q] = "vault" /\ stage'[q] = "emit"
        /\ UNCHANGED << egress, responded, output, response, result >>
    BY <1>16 DEF WriteMemory, TypeOK
  <2>2. MemoryOf[q] # NoMemory /\ vault'[recordId(q)] = q
    BY <2>1, <1>16, KeysOfCalls DEF WriteMemory, TypeOK, CallAgrees
  <2>. QED BY <2>1, <2>2 DEF CallAgrees, AfterModel, Settled
<1>17. CASE WriteMemoryFails(q)
  BY <1>17 DEF WriteMemoryFails, CallAgrees, AfterModel, Settled, TypeOK
<1>18. CASE EmitReceipt(q)
  BY <1>18 DEF EmitReceipt, Finish, CallAgrees, AfterModel, Settled, TypeOK
<1>19. CASE EmitReceiptFails(q)
  BY <1>19 DEF EmitReceiptFails, Finish, CallAgrees, AfterModel, Settled,
     TypeOK
<1>20. CASE EmitReceiptV2(q)
  BY <1>20 DEF EmitReceiptV2, Finish, CallAgrees, AfterModel, Settled, TypeOK
<1>21. CASE EmitReceiptV2Fails(q)
  BY <1>21 DEF EmitReceiptV2Fails, Finish, CallAgrees, AfterModel, Settled,
     TypeOK
<1>. QED
  BY <1>1, <1>2, <1>3, <1>4, <1>5, <1>6, <1>7, <1>8, <1>9, <1>10, <1>11,
     <1>12, <1>13, <1>14, <1>15, <1>16, <1>17, <1>18, <1>19, <1>20, <1>21
     DEF Step


\* A step of one call keeps every call's stage in agreement.
LEMMA StagesStep ==
    ASSUME TypeOK, StagesAgree, NEW q \in Calls, Step(q)
    PROVE StagesAgree'
<1> SUFFICES ASSUME NEW p \in Calls PROVE CallAgrees(p)'
  BY DEF StagesAgree
<1>1. CASE p = q
  BY <1>1, SelfAgrees DEF StagesAgree
<1>2. CASE p # q
  <2>1. Unmoved(p)
    BY <1>2, OthersUnmoved
  <2>2. CallAgrees(p)
    BY DEF StagesAgree
  <2>3. memoryWritten[p] => vault'[recordId(p)] = p
    BY <2>2, TablesGrow, KeysOfCalls DEF CallAgrees
  <2>. QED BY <2>1, <2>2, <2>3 DEF CallAgrees, Unmoved
<1>. QED BY <1>1, <1>2

-----------------------------------------------------------------------------
(* Reservations                                                            *)

\* A step takes no reservation away from the call that holds it.
LEMMA ReservationsStep ==
    ASSUME TypeOK, StagesAgree, ReservationsHeld, NEW q \in Calls, Step(q)
    PROVE ReservationsHeld'
<1> SUFFICES ASSUME HasNonceStore, NEW p \in Calls
             PROVE /\ stage'[p] \in {"invoke", "model"} =>
                         nonces'[nonceKey(p)] = p
                   /\ p \in egress' => \/ nonces'[nonceKey(p)] = p
                                       \/ nonceKey(p) \in expired'
  <2>1. egress' \subseteq Calls
    BY TypeStep DEF TypeOK
  <2>. QED BY <2>1 DEF ReservationsHeld, nonceKey
<1>1. /\ Effects(q) /\ CallAgrees(p) /\ Free \notin Calls
      /\ nonceKey(p) \in NonceKey
      /\ stage[p] \in {"invoke", "model"} => nonces[nonceKey(p)] = p
      /\ p \in egress => \/ nonces[nonceKey(p)] = p
                         \/ nonceKey(p) \in expired
  BY StepEffects, KeysOfCalls, GovernedInvokeAssumption
     DEF StagesAgree, ReservationsHeld
<1>2. nonces[nonceKey(p)] = p => nonces'[nonceKey(p)] = p
  BY <1>1 DEF Effects, TypeOK
<1>3. CASE p # q
  <2>1. /\ stage'[p] = stage[p]
        /\ p \in egress' <=> p \in egress
    BY <1>3, OthersUnmoved DEF Unmoved
  <2>. QED BY <1>1, <1>2, <2>1 DEF Effects
<1>4. CASE p = q
  <2>1. stage'[q] = "invoke" => nonces'[nonceKey(q)] = q
    BY <1>1, <1>4, StageMoves DEF TypeOK
  <2>2. stage'[q] = "model" => nonces'[nonceKey(q)] = q
    BY <1>1, <1>2, <1>4, StageMoves
  <2>3. q \in egress' => \/ nonces'[nonceKey(q)] = q
                         \/ nonceKey(q) \in expired'
    BY <1>1, <1>2, <1>4 DEF Effects
  <2>. QED BY <1>4, <2>1, <2>2, <2>3
<1>. QED BY <1>3, <1>4

-----------------------------------------------------------------------------
(* Receipts                                                                *)

\* The v1 receipt stands when the call turns to the v2 layer.
LEMMA EmitMoves ==
    ASSUME TypeOK, NEW q \in Calls, Step(q), stage'[q] = "emitV2"
    PROVE /\ receipts'[requestKey(q)] = ReceiptContent(q)
          /\ ReceiptContent(q)' = ReceiptContent(q)
<1>1. CASE Admit(q)
  BY <1>1 DEF Admit, TypeOK
<1>2. CASE RejectRequest(q)
  BY <1>2 DEF RejectRequest, FailClosed, TypeOK
<1>3. CASE LoadPolicies(q)
  BY <1>3 DEF LoadPolicies, Block, TypeOK
<1>4. CASE LoadPoliciesFails(q)
  BY <1>4 DEF LoadPoliciesFails, FailClosed, TypeOK
<1>5. CASE Retrieve(q)
  BY <1>5 DEF Retrieve, Screen, Block, TypeOK
<1>6. CASE RetrieveRefused(q)
  BY <1>6 DEF RetrieveRefused, Block, TypeOK
<1>7. CASE Reserve(q)
  BY <1>7 DEF Reserve, TypeOK
<1>8. CASE ReserveUnacknowledged(q)
  BY <1>8 DEF ReserveUnacknowledged, TypeOK
<1>9. CASE ReserveConditionFailed(q)
  BY <1>9 DEF ReserveConditionFailed, TypeOK
<1>10. CASE ReserveFails(q)
  BY <1>10 DEF ReserveFails, Block, TypeOK
<1>11. CASE ReadReservation(q)
  BY <1>11 DEF ReadReservation, Block, TypeOK
<1>12. CASE InvokeModel(q)
  BY <1>12 DEF InvokeModel, TypeOK
<1>13. CASE ModelReturns(q)
  BY <1>13 DEF ModelReturns, RecordTransit, TypeOK
<1>14. CASE ModelFails(q)
  BY <1>14 DEF ModelFails, RecordTransit, TypeOK
<1>15. CASE SkipMemory(q)
  BY <1>15 DEF SkipMemory, TypeOK
<1>16. CASE WriteMemory(q)
  BY <1>16 DEF WriteMemory, TypeOK
<1>17. CASE WriteMemoryFails(q)
  BY <1>17 DEF WriteMemoryFails, TypeOK
<1>18. CASE EmitReceipt(q)
  <2>1. receipts'[requestKey(q)] = ReceiptContent(q)
    BY <1>18, KeysOfCalls DEF EmitReceipt, TypeOK
  <2>2. ReceiptContent(q)' = ReceiptContent(q)
    BY <1>18 DEF EmitReceipt, ReceiptContent
  <2>. QED BY <2>1, <2>2
<1>19. CASE EmitReceiptFails(q)
  BY <1>19 DEF EmitReceiptFails, Finish, TypeOK
<1>20. CASE EmitReceiptV2(q)
  BY <1>20 DEF EmitReceiptV2, Finish, TypeOK
<1>21. CASE EmitReceiptV2Fails(q)
  BY <1>21 DEF EmitReceiptV2Fails, Finish, TypeOK
<1>. QED
  BY <1>1, <1>2, <1>3, <1>4, <1>5, <1>6, <1>7, <1>8, <1>9, <1>10, <1>11,
     <1>12, <1>13, <1>14, <1>15, <1>16, <1>17, <1>18, <1>19, <1>20, <1>21
     DEF Step

\* A step keeps the receipt of every call that is past it.
LEMMA ReceiptStandsStep ==
    ASSUME TypeOK, ReceiptStands, NEW q \in Calls, Step(q)
    PROVE ReceiptStands'
<1> SUFFICES ASSUME NEW p \in Calls, stage'[p] = "emitV2"
             PROVE receipts'[requestKey(p)] = ReceiptContent(p)'
  BY DEF ReceiptStands, requestKey
<1>1. CASE p = q
  BY <1>1, EmitMoves
<1>2. CASE p # q
  <2>1. stage[p] = "emitV2" /\ ReceiptContent(p)' = ReceiptContent(p)
    BY <1>2, OthersUnmoved DEF Unmoved, ReceiptContent
  <2>2. receipts[requestKey(p)] = ReceiptContent(p)
    BY <2>1 DEF ReceiptStands
  <2>. QED BY <2>1, <2>2, TablesGrow, KeysOfCalls, ContentIsReceipt
<1>. QED BY <1>1, <1>2

\* A step that answers with text is an emission that succeeded.
LEMMA ReleaseMoves ==
    ASSUME TypeOK, NEW q \in Calls, CallAgrees(q), ReceiptStands, Step(q),
           result'[q].response # "none"
    PROVE /\ response[q] # "none"
          /\ receipts'[requestKey(q)] = ReceiptContent(q)
          /\ ReceiptContent(q)' = ReceiptContent(q)
          /\ responded' = responded
          /\ HasReceiptV2 => attested'[q] /\ transits'[q] # {}
<1>1. CASE Admit(q)
  BY <1>1 DEF Admit, CallAgrees, TypeOK
<1>2. CASE RejectRequest(q)
  BY <1>2 DEF RejectRequest, FailClosed, CallAgrees, TypeOK
<1>3. CASE LoadPolicies(q)
  BY <1>3 DEF LoadPolicies, Block, CallAgrees, TypeOK
<1>4. CASE LoadPoliciesFails(q)
  BY <1>4 DEF LoadPoliciesFails, FailClosed, CallAgrees, TypeOK
<1>5. CASE Retrieve(q)
  BY <1>5 DEF Retrieve, Screen, Block, CallAgrees, TypeOK
<1>6. CASE RetrieveRefused(q)
  BY <1>6 DEF RetrieveRefused, Block, CallAgrees, TypeOK
<1>7. CASE Reserve(q)
  BY <1>7 DEF Reserve, CallAgrees, TypeOK
<1>8. CASE ReserveUnacknowledged(q)
  BY <1>8 DEF ReserveUnacknowledged, CallAgrees, TypeOK
<1>9. CASE ReserveConditionFailed(q)
  BY <1>9 DEF ReserveConditionFailed, CallAgrees, TypeOK
<1>10. CASE ReserveFails(q)
  BY <1>10 DEF ReserveFails, Block, CallAgrees, TypeOK
<1>11. CASE ReadReservation(q)
  BY <1>11 DEF ReadReservation, Block, CallAgrees, TypeOK
<1>12. CASE InvokeModel(q)
  BY <1>12 DEF InvokeModel, CallAgrees, TypeOK
<1>13. CASE ModelReturns(q)
  BY <1>13 DEF ModelReturns, RecordTransit, CallAgrees, TypeOK
<1>14. CASE ModelFails(q)
  BY <1>14 DEF ModelFails, RecordTransit, CallAgrees, TypeOK
<1>15. CASE SkipMemory(q)
  BY <1>15 DEF SkipMemory, CallAgrees, TypeOK
<1>16. CASE WriteMemory(q)
  BY <1>16 DEF WriteMemory, CallAgrees, TypeOK
<1>17. CASE WriteMemoryFails(q)
  BY <1>17 DEF WriteMemoryFails, CallAgrees, TypeOK
<1>18. CASE EmitReceipt(q)
  <2>1. receipts'[requestKey(q)] = ReceiptContent(q)
    BY <1>18, KeysOfCalls DEF EmitReceipt, TypeOK
  <2>2. ReceiptContent(q)' = ReceiptContent(q) /\ responded' = responded
    BY <1>18 DEF EmitReceipt, ReceiptContent
  <2>3. response[q] # "none" /\ ~HasReceiptV2
    BY <1>18 DEF EmitReceipt, Finish, CallAgrees, TypeOK
  <2>. QED BY <2>1, <2>2, <2>3
<1>19. CASE EmitReceiptFails(q)
  BY <1>19 DEF EmitReceiptFails, Finish, CallAgrees, TypeOK
<1>20. CASE EmitReceiptV2(q)
  <2>1. /\ receipts'[requestKey(q)] = ReceiptContent(q)
        /\ ReceiptContent(q)' = ReceiptContent(q) /\ responded' = responded
    BY <1>20 DEF EmitReceiptV2, ReceiptStands, ReceiptContent
  <2>2. response[q] # "none"
    BY <1>20 DEF EmitReceiptV2, Finish, CallAgrees, TypeOK
  <2>3. attested'[q] /\ transits'[q] # {}
    BY <1>20, <2>2 DEF EmitReceiptV2, CallAgrees, TypeOK, unrecordedEgress
  <2>. QED BY <2>1, <2>2, <2>3
<1>21. CASE EmitReceiptV2Fails(q)
  BY <1>21 DEF EmitReceiptV2Fails, Finish, CallAgrees, TypeOK
<1>. QED
  BY <1>1, <1>2, <1>3, <1>4, <1>5, <1>6, <1>7, <1>8, <1>9, <1>10, <1>11,
     <1>12, <1>13, <1>14, <1>15, <1>16, <1>17, <1>18, <1>19, <1>20, <1>21
     DEF Step

\* A step releases text only with its receipt, and keeps what was receipted.
LEMMA ReleasedStep ==
    ASSUME TypeOK, StagesAgree, ReceiptStands, ReleasedIsReceipted,
           NEW q \in Calls, Step(q)
    PROVE ReleasedIsReceipted'
<1> SUFFICES ASSUME NEW p \in Calls, result'[p].response # "none"
             PROVE /\ p \in responded'
                   /\ receipts'[requestKey(p)] = ReceiptContent(p)'
                   /\ HasReceiptV2 => attested'[p] /\ transits'[p] # {}
  BY DEF ReleasedIsReceipted, requestKey
<1>1. CASE p = q
  <2>1. CallAgrees(q)
    BY DEF StagesAgree
  <2>2. response[q] # "none" => q \in responded
    BY <2>1 DEF CallAgrees
  <2>. QED BY <1>1, <2>1, <2>2, ReleaseMoves
<1>2. CASE p # q
  <2>1. Unmoved(p) /\ ReceiptContent(p)' = ReceiptContent(p)
    BY <1>2, OthersUnmoved DEF Unmoved, ReceiptContent
  <2>2. /\ p \in responded /\ receipts[requestKey(p)] = ReceiptContent(p)
        /\ HasReceiptV2 => attested[p] /\ transits[p] # {}
    BY <2>1 DEF ReleasedIsReceipted, Unmoved
  <2>3. receipts'[requestKey(p)] = ReceiptContent(p)
    BY <2>2, TablesGrow, KeysOfCalls, ContentIsReceipt
  <2>. QED BY <2>1, <2>2, <2>3 DEF Unmoved
<1>. QED BY <1>1, <1>2

-----------------------------------------------------------------------------
(* Memory                                                                  *)

\* A step records a memory write only when the vault holds it.
LEMMA PhantomStep ==
    ASSUME TypeOK, StagesAgree, NoPhantomMemory, NEW q \in Calls, Step(q)
    PROVE NoPhantomMemory'
<1> SUFFICES ASSUME NEW k \in RequestKey,
                    receipts'[k] # NoReceipt, receipts'[k].memoryWritten
             PROVE \E p \in Calls : /\ requestKey(p) = k
                                    /\ MemoryOf[p] # NoMemory
                                    /\ vault'[recordId(p)] = p
  BY DEF NoPhantomMemory, requestKey, recordId
<1>1. CASE receipts'[k] = receipts[k]
  <2>1. PICK p \in Calls : /\ requestKey(p) = k
                           /\ MemoryOf[p] # NoMemory
                           /\ vault[recordId(p)] = p
    BY <1>1 DEF NoPhantomMemory
  <2>2. vault'[recordId(p)] = p
    BY <2>1, TablesGrow, KeysOfCalls
  <2>. QED BY <2>1, <2>2
<1>2. CASE receipts'[k] # receipts[k]
  <2>1. k = requestKey(q) /\ receipts'[k] = ReceiptContent(q)
    BY <1>2, StepEffects DEF Effects, TypeOK
  <2>2. memoryWritten[q]
    BY <2>1, ContentIsReceipt
  <2>3. MemoryOf[q] # NoMemory /\ vault[recordId(q)] = q
    BY <2>2 DEF StagesAgree, CallAgrees
  <2>4. vault'[recordId(q)] = q
    BY <2>3, TablesGrow, KeysOfCalls
  <2>. QED BY <2>1, <2>3, <2>4
<1>. QED BY <1>1, <1>2

\* A record that appears in a step is the one its call was to write.
LEMMA RecordAppears ==
    ASSUME TypeOK, NEW q \in Calls, Step(q),
           NEW k \in MemoryKey, NEW p \in Calls,
           vault'[k] = p, vault[k] # p
    PROVE /\ p = q /\ stage[q] = "vault" /\ stage'[q] = "emit"
          /\ post'[q] = post[q] /\ output' = output /\ ~neverPersisted(q)
BY StepEffects DEF Effects, TypeOK

\* A step writes a record only for a call past its model.
LEMMA RecordsStep ==
    ASSUME TypeOK, RecordsAreLate, NEW q \in Calls, Step(q)
    PROVE RecordsAreLate'
<1> SUFFICES ASSUME NEW k \in MemoryKey, NEW p \in Calls, vault'[k] = p
             PROVE stage'[p] \in {"emit", "emitV2"} \cup Settled
  BY DEF RecordsAreLate
<1>1. CASE vault[k] # p
  BY <1>1, RecordAppears
<1>2. CASE vault[k] = p /\ p = q
  BY <1>2, LateMoves DEF RecordsAreLate, Settled
<1>3. CASE vault[k] = p /\ p # q
  BY <1>3, OthersUnmoved DEF RecordsAreLate, Unmoved
<1>. QED BY <1>1, <1>2, <1>3

\* A step writes only governed memory, and changes no decision behind it.
LEMMA GovernedStep ==
    ASSUME TypeOK, StagesAgree, RecordsAreLate, MemoryIsGoverned,
           NEW q \in Calls, Step(q)
    PROVE MemoryIsGoverned'
<1> SUFFICES ASSUME NEW k \in MemoryKey, NEW p \in Calls, vault'[k] = p
             PROVE /\ p \in responded'
                   /\ post'[p] # "MEMORY_SUPPRESS"
                   /\ MemoryOf[p].tier # "KAPPA"
                   /\ MemoryOf[p].tier = "RESTRICTED"
                         => ConsentOf[p] = "granted"
  BY DEF MemoryIsGoverned
<1>1. p \in responded => p \in responded'
  BY StepEffects DEF Effects
<1>2. CASE vault[k] # p
  <2>1. p = q /\ stage[q] = "vault" /\ post'[q] = post[q] /\ ~neverPersisted(q)
    BY <1>2, RecordAppears
  <2>2. q \in responded /\ post[q] # "MEMORY_SUPPRESS"
    BY <2>1 DEF StagesAgree, CallAgrees
  <2>. QED BY <1>1, <2>1, <2>2 DEF neverPersisted
<1>3. CASE vault[k] = p
  <2>1. post'[p] = post[p]
    <3>1. CASE p = q
      BY <1>3, <3>1, LateMoves DEF RecordsAreLate
    <3>2. CASE p # q
      BY <3>2, OthersUnmoved DEF Unmoved
    <3>. QED BY <3>1, <3>2
  <2>. QED BY <1>1, <1>3, <2>1 DEF MemoryIsGoverned
<1>. QED BY <1>2, <1>3

-----------------------------------------------------------------------------
(* Custody and prompts                                                     *)

\* Only the v2 layer gives out v2 receipts, and no step is left to a call that
\* has returned.
LEMMA AttestMoves ==
    ASSUME NEW q \in Calls, Step(q)
    PROVE /\ stage[q] # "done"
          /\ attested' = attested \/ EmitReceiptV2(q)
<1>1. CASE Admit(q)
  BY <1>1 DEF Admit
<1>2. CASE RejectRequest(q)
  BY <1>2 DEF RejectRequest, FailClosed
<1>3. CASE LoadPolicies(q)
  BY <1>3 DEF LoadPolicies, Block
<1>4. CASE LoadPoliciesFails(q)
  BY <1>4 DEF LoadPoliciesFails, FailClosed
<1>5. CASE Retrieve(q)
  BY <1>5 DEF Retrieve, Screen, Block
<1>6. CASE RetrieveRefused(q)
  BY <1>6 DEF RetrieveRefused, Block
<1>7. CASE Reserve(q)
  BY <1>7 DEF Reserve
<1>8. CASE ReserveUnacknowledged(q)
  BY <1>8 DEF ReserveUnacknowledged
<1>9. CASE ReserveConditionFailed(q)
  BY <1>9 DEF ReserveConditionFailed
<1>10. CASE ReserveFails(q)
  BY <1>10 DEF ReserveFails, Block
<1>11. CASE ReadReservation(q)
  BY <1>11 DEF ReadReservation, Block
<1>12. CASE InvokeModel(q)
  BY <1>12 DEF InvokeModel
<1>13. CASE ModelReturns(q)
  BY <1>13 DEF ModelReturns
<1>14. CASE ModelFails(q)
  BY <1>14 DEF ModelFails
<1>15. CASE SkipMemory(q)
  BY <1>15 DEF SkipMemory
<1>16. CASE WriteMemory(q)
  BY <1>16 DEF WriteMemory
<1>17. CASE WriteMemoryFails(q)
  BY <1>17 DEF WriteMemoryFails
<1>18. CASE EmitReceipt(q)
  BY <1>18 DEF EmitReceipt
<1>19. CASE EmitReceiptFails(q)
  BY <1>19 DEF EmitReceiptFails
<1>20. CASE EmitReceiptV2(q)
  BY <1>20 DEF EmitReceiptV2
<1>21. CASE EmitReceiptV2Fails(q)
  BY <1>21 DEF EmitReceiptV2Fails
<1>. QED
  BY <1>1, <1>2, <1>3, <1>4, <1>5, <1>6, <1>7, <1>8, <1>9, <1>10, <1>11,
     <1>12, <1>13, <1>14, <1>15, <1>16, <1>17, <1>18, <1>19, <1>20, <1>21
     DEF Step

\* A step gives a v2 receipt for a recorded answer or for none, and takes
\* memory and text from answers only.
LEMMA AnswersStep ==
    ASSUME TypeOK, StagesAgree, ReceiptStands, RecordsAreLate,
           AnswersRecorded, NEW q \in Calls, Step(q)
    PROVE AnswersRecorded'
<1>1. CallAgrees(q)
  BY DEF StagesAgree
<1>2. ASSUME NEW k \in MemoryKey, NEW p \in Calls, vault'[k] = p
      PROVE output'[p] # NoOutput
  <2>1. CASE vault[k] # p
    BY <1>1, <1>2, <2>1, RecordAppears DEF CallAgrees
  <2>2. CASE vault[k] = p /\ p = q
    <3>1. output[q] # NoOutput /\ stage[q] \in {"emit", "emitV2"} \cup Settled
      BY <2>2 DEF AnswersRecorded, RecordsAreLate
    <3>. QED BY <2>2, <3>1, LateMoves DEF ReceiptContent
  <2>3. CASE vault[k] = p /\ p # q
    BY <2>3, OthersUnmoved DEF AnswersRecorded, Unmoved
  <2>. QED BY <2>1, <2>2, <2>3
<1>3. ASSUME NEW p \in Calls, result'[p].response # "none"
      PROVE output'[p] # NoOutput
  <2>1. CASE p = q
    <3>1. response[q] # "none" /\ ReceiptContent(q)' = ReceiptContent(q)
      BY <1>1, <1>3, <2>1, ReleaseMoves
    <3>. QED BY <1>1, <2>1, <3>1 DEF CallAgrees, ReceiptContent
  <2>2. CASE p # q
    BY <1>3, <2>2, OthersUnmoved DEF AnswersRecorded, Unmoved
  <2>. QED BY <2>1, <2>2
<1>4. ASSUME NEW p \in Calls, attested'[p]
      PROVE /\ stage'[p] = "done" /\ ~unrecordedEgress(p)'
            /\ receipts'[requestKey(p)] = ReceiptContent(p)'
  <2>1. CASE p = q
    <3>1. ~attested[q]
      BY AttestMoves DEF AnswersRecorded
    <3>2. EmitReceiptV2(q)
      BY <1>4, <2>1, <3>1, AttestMoves
    <3>3. /\ stage'[q] = "done" /\ ~unrecordedEgress(q)'
      BY <3>2 DEF EmitReceiptV2, Finish, unrecordedEgress, TypeOK
    <3>4. /\ receipts'[requestKey(q)] = ReceiptContent(q)
          /\ ReceiptContent(q)' = ReceiptContent(q)
      BY <3>2 DEF EmitReceiptV2, ReceiptStands, ReceiptContent
    <3>. QED BY <2>1, <3>3, <3>4
  <2>2. CASE p # q
    <3>1. Unmoved(p) /\ ReceiptContent(p)' = ReceiptContent(p)
      BY <2>2, OthersUnmoved DEF Unmoved, ReceiptContent
    <3>2. /\ stage[p] = "done" /\ ~unrecordedEgress(p)
          /\ receipts[requestKey(p)] = ReceiptContent(p)
      BY <1>4, <3>1 DEF AnswersRecorded, Unmoved
    <3>3. receipts'[requestKey(p)] = ReceiptContent(p)
      BY <3>2, TablesGrow, KeysOfCalls, ContentIsReceipt
    <3>. QED BY <3>1, <3>2, <3>3 DEF Unmoved, unrecordedEgress
  <2>. QED BY <2>1, <2>2
<1>. QED BY <1>2, <1>3, <1>4 DEF AnswersRecorded, requestKey

Clean(q, contexts) ==
    \A c \in contexts : /\ c.tenant = TenantOf[q]
                        /\ "cross_tenant" \notin c.taint
                        /\ "untrusted_instruction" \notin c.taint

\* Only Retrieve builds a prompt.
LEMMA PromptMoves ==
    ASSUME TypeOK, NEW q \in Calls, Step(q)
    PROVE prompt'[q] = prompt[q] \/ Clean(q, prompt'[q])
<1>1. CASE Admit(q)
  BY <1>1 DEF Admit, TypeOK
<1>2. CASE RejectRequest(q)
  BY <1>2 DEF RejectRequest, FailClosed, TypeOK
<1>3. CASE LoadPolicies(q)
  BY <1>3 DEF LoadPolicies, Block, TypeOK
<1>4. CASE LoadPoliciesFails(q)
  BY <1>4 DEF LoadPoliciesFails, FailClosed, TypeOK
<1>5. CASE Retrieve(q)
  <2>1. PICK candidates \in candidateSets(q), d \in Decisions :
          Screen(q, candidates, d)
    BY <1>5 DEF Retrieve
  <2>2. \/ prompt' = prompt
        \/ /\ \A c \in candidates : ~crossTenant(q, c)
           /\ prompt' = [prompt EXCEPT ![q] = promptContexts(candidates,
                {c.digest : c \in allowedContexts(q, candidates)})]
    BY <2>1 DEF Screen, Block
  <2>. QED BY <2>2 DEF TypeOK, Clean, promptContexts, crossTenant
<1>6. CASE RetrieveRefused(q)
  BY <1>6 DEF RetrieveRefused, Block, TypeOK
<1>7. CASE Reserve(q)
  BY <1>7 DEF Reserve, TypeOK
<1>8. CASE ReserveUnacknowledged(q)
  BY <1>8 DEF ReserveUnacknowledged, TypeOK
<1>9. CASE ReserveConditionFailed(q)
  BY <1>9 DEF ReserveConditionFailed, TypeOK
<1>10. CASE ReserveFails(q)
  BY <1>10 DEF ReserveFails, Block, TypeOK
<1>11. CASE ReadReservation(q)
  BY <1>11 DEF ReadReservation, Block, TypeOK
<1>12. CASE InvokeModel(q)
  BY <1>12 DEF InvokeModel, TypeOK
<1>13. CASE ModelReturns(q)
  BY <1>13 DEF ModelReturns, RecordTransit, TypeOK
<1>14. CASE ModelFails(q)
  BY <1>14 DEF ModelFails, RecordTransit, TypeOK
<1>15. CASE SkipMemory(q)
  BY <1>15 DEF SkipMemory, TypeOK
<1>16. CASE WriteMemory(q)
  BY <1>16 DEF WriteMemory, TypeOK
<1>17. CASE WriteMemoryFails(q)
  BY <1>17 DEF WriteMemoryFails, TypeOK
<1>18. CASE EmitReceipt(q)
  BY <1>18 DEF EmitReceipt, Finish, TypeOK
<1>19. CASE EmitReceiptFails(q)
  BY <1>19 DEF EmitReceiptFails, Finish, TypeOK
<1>20. CASE EmitReceiptV2(q)
  BY <1>20 DEF EmitReceiptV2, Finish, TypeOK
<1>21. CASE EmitReceiptV2Fails(q)
  BY <1>21 DEF EmitReceiptV2Fails, Finish, TypeOK
<1>. QED
  BY <1>1, <1>2, <1>3, <1>4, <1>5, <1>6, <1>7, <1>8, <1>9, <1>10, <1>11,
     <1>12, <1>13, <1>14, <1>15, <1>16, <1>17, <1>18, <1>19, <1>20, <1>21
     DEF Step

\* A step builds only clean prompts.
LEMMA PromptsStep ==
    ASSUME TypeOK, PromptsBuiltClean, NEW q \in Calls, Step(q)
    PROVE PromptsBuiltClean'
<1> SUFFICES ASSUME NEW p \in Calls PROVE Clean(p, prompt'[p])
  BY DEF PromptsBuiltClean, Clean
<1>1. Clean(p, prompt[p])
  BY DEF PromptsBuiltClean, Clean
<1>2. CASE p = q
  BY <1>1, <1>2, PromptMoves
<1>3. CASE p # q
  BY <1>1, <1>3, OthersUnmoved DEF Unmoved
<1>. QED BY <1>2, <1>3

-----------------------------------------------------------------------------
(* The invariant                                                           *)

\* The invariant holds initially.
LEMMA InvInit == Init => Inv
<1> SUFFICES ASSUME Init PROVE Inv
  OBVIOUS
<1>1. TypeOK
  BY TypeInit
<1>2. \A q \in Calls : /\ stage[q] = "idle" /\ prompt[q] = {}
                       /\ response[q] = "none" /\ ~memoryWritten[q]
                       /\ result[q].response = "none" /\ ~attested[q]
  BY DEF Init, Pending
<1>3. StagesAgree /\ ReceiptStands /\ ReleasedIsReceipted
      /\ PromptsBuiltClean /\ ReservationsHeld
  BY <1>2 DEF Init, StagesAgree, CallAgrees, ReceiptStands,
     ReleasedIsReceipted, PromptsBuiltClean, ReservationsHeld
<1>4. NoPhantomMemory /\ RecordsAreLate /\ MemoryIsGoverned /\ AnswersRecorded
  BY <1>2, GovernedInvokeAssumption
     DEF Init, NoPhantomMemory, RecordsAreLate, MemoryIsGoverned,
     AnswersRecorded
<1>. QED BY <1>1, <1>3, <1>4 DEF Inv

\* A crash keeps the invariant: it only stops a call.
LEMMA InvCrash ==
    ASSUME Inv, NEW q \in Calls, Crash(q)
    PROVE Inv'
<1>1. TypeOK'
  BY TypeNext DEF Inv, Next
<1>2. /\ UNCHANGED << tables, model, decided, attested, answer, result >>
      /\ stage'[q] = "crashed" /\ stage[q] \in Working
      /\ \A p \in Calls : p # q => stage'[p] = stage[p]
  BY DEF Crash, Inv, TypeOK
<1>3. \A p \in Calls : ReceiptContent(p)' = ReceiptContent(p)
  BY <1>2 DEF ReceiptContent
<1>4. ReservationsHeld'
  BY <1>2 DEF Inv, ReservationsHeld, nonceKey
<1>5. StagesAgree'
  <2> SUFFICES ASSUME NEW p \in Calls PROVE CallAgrees(p)'
    BY DEF StagesAgree
  <2>1. CallAgrees(p)
    BY DEF Inv, StagesAgree
  <2>. QED BY <1>2, <2>1 DEF CallAgrees, AfterModel, Settled, Working, recordId
<1>6. ReceiptStands' /\ ReleasedIsReceipted'
  BY <1>2, <1>3 DEF Inv, ReceiptStands, ReleasedIsReceipted, requestKey
<1>7. NoPhantomMemory' /\ MemoryIsGoverned'
  BY <1>2 DEF Inv, NoPhantomMemory, MemoryIsGoverned, requestKey, recordId
<1>8. RecordsAreLate'
  BY <1>2 DEF Inv, RecordsAreLate, Settled
<1>9. AnswersRecorded' /\ PromptsBuiltClean'
  BY <1>2, <1>3 DEF Inv, AnswersRecorded, PromptsBuiltClean, unrecordedEgress,
     requestKey, Working
<1>. QED BY <1>1, <1>4, <1>5, <1>6, <1>7, <1>8, <1>9 DEF Inv

\* An expiring reservation keeps the invariant: its holder has settled.
LEMMA InvExpire ==
    ASSUME Inv, NEW k \in NonceKey, ExpireReservation(k)
    PROVE Inv'
<1>1. TypeOK'
  BY TypeNext DEF Inv, Next
<1>2. UNCHANGED << vault, receipts, model, stage, decided, attested, answer,
                   result >>
  BY DEF ExpireReservation
<1>3. ReservationsHeld'
  <2>1. \A q \in Calls : stage[q] \in {"invoke", "model"} => stage[q] \notin Settled
    BY DEF Settled
  <2>2. \A q \in Calls : nonceKey(q) # k => nonces'[nonceKey(q)] = nonces[nonceKey(q)]
    BY KeysOfCalls DEF ExpireReservation, Inv, TypeOK
  <2>3. k \in expired' /\ expired \subseteq expired' /\ stage[nonces[k]] \in Settled
    BY DEF ExpireReservation
  <2>. QED BY <1>2, <2>1, <2>2, <2>3 DEF Inv, ReservationsHeld, TypeOK, nonceKey
<1>4. \A p \in Calls : ReceiptContent(p)' = ReceiptContent(p)
  BY <1>2 DEF ReceiptContent
<1>5. StagesAgree' /\ RecordsAreLate' /\ AnswersRecorded' /\ PromptsBuiltClean'
  BY <1>2, <1>4 DEF Inv, StagesAgree, CallAgrees, RecordsAreLate,
     AnswersRecorded, PromptsBuiltClean, recordId, unrecordedEgress, requestKey
<1>6. ReceiptStands' /\ ReleasedIsReceipted'
  BY <1>2, <1>4 DEF Inv, ReceiptStands, ReleasedIsReceipted, requestKey
<1>7. NoPhantomMemory' /\ MemoryIsGoverned'
  BY <1>2 DEF Inv, NoPhantomMemory, MemoryIsGoverned, requestKey, recordId
<1>. QED BY <1>1, <1>3, <1>5, <1>6, <1>7 DEF Inv

\* The invariant is inductive.
LEMMA InvNext == Inv /\ [Next]_vars => Inv'
<1> SUFFICES ASSUME Inv, [Next]_vars PROVE Inv'
  OBVIOUS
<1>1. ASSUME NEW q \in Calls, Step(q) PROVE Inv'
  BY <1>1, TypeStep, StagesStep, ReservationsStep, ReceiptStandsStep,
     ReleasedStep, PhantomStep, RecordsStep, GovernedStep, AnswersStep,
     PromptsStep DEF Inv
<1>2. CASE \E q \in Calls : Crash(q)
  BY <1>2, InvCrash
<1>3. CASE \E k \in NonceKey : ExpireReservation(k)
  BY <1>3, InvExpire
<1>4. CASE UNCHANGED vars
  <2>1. TypeOK'
    BY TypeNext DEF Inv
  <2>2. \A p \in Calls : ReceiptContent(p)' = ReceiptContent(p)
    BY <1>4 DEF ReceiptContent, vars
  <2>3. StagesAgree' /\ RecordsAreLate' /\ AnswersRecorded'
        /\ PromptsBuiltClean' /\ ReservationsHeld'
    BY <1>4, <2>2 DEF Inv, StagesAgree, CallAgrees, RecordsAreLate,
       AnswersRecorded, PromptsBuiltClean, ReservationsHeld, recordId,
       nonceKey, unrecordedEgress, requestKey, vars
  <2>4. ReceiptStands' /\ ReleasedIsReceipted'
    BY <1>4, <2>2 DEF Inv, ReceiptStands, ReleasedIsReceipted, requestKey, vars
  <2>5. NoPhantomMemory' /\ MemoryIsGoverned'
    BY <1>4 DEF Inv, NoPhantomMemory, MemoryIsGoverned, requestKey, recordId,
       vars
  <2>. QED BY <2>1, <2>3, <2>4, <2>5 DEF Inv
<1>. QED BY <1>1, <1>2, <1>3, <1>4 DEF Next, AllSettled

\* The inductive invariant holds of the lifecycle.
THEOREM InvCorrect == Spec => []Inv
BY InvInit, InvNext, PTL DEF Spec

\* A live reservation lets one prompt through.
THEOREM OneExecutionPerReservationAlways == Spec => []OneExecutionPerReservation
<1>1. Inv => OneExecutionPerReservation
  BY DEF Inv, ReservationsHeld, OneExecutionPerReservation
<1>. QED BY <1>1, InvCorrect, PTL

\* No text without the receipt that accounts for it.
THEOREM ReleasedIsReceiptedAlways == Spec => []ReleasedIsReceipted
<1>1. Inv => ReleasedIsReceipted
  BY DEF Inv
<1>. QED BY <1>1, InvCorrect, PTL

\* A receipt's claim that memory was written is backed by the vault.
THEOREM NoPhantomMemoryAlways == Spec => []NoPhantomMemory
<1>1. Inv => NoPhantomMemory
  BY DEF Inv
<1>. QED BY <1>1, InvCorrect, PTL

\* Memory is written only past the model, the suppression and the consent.
THEOREM MemoryIsGovernedAlways == Spec => []MemoryIsGoverned
<1>1. Inv => MemoryIsGoverned
  BY DEF Inv
<1>. QED BY <1>1, InvCorrect, PTL

\* Prompts that were sent carry no foreign and no untrusted text.
THEOREM PromptsStayCleanAlways == Spec => []PromptsStayClean
<1>1. Inv => PromptsStayClean
  BY DEF Inv, PromptsBuiltClean, PromptsStayClean, TypeOK
<1>. QED BY <1>1, InvCorrect, PTL

\* A v2 receipt with an empty trace stands for no answer that was used, with
\* or without a gateway.
THEOREM CustodyIsCompleteAlways == Spec => []CustodyIsComplete
<1>1. ASSUME Inv PROVE CustodyIsComplete
  <2> SUFFICES ASSUME NEW q \in Calls, attested[q], transits[q] = {}
               PROVE /\ receipts[requestKey(q)] # NoReceipt
                     /\ receipts[requestKey(q)].output = NoOutput
                     /\ \A k \in MemoryKey : vault[k] # q
                     /\ result[q].response = "none"
    BY DEF CustodyIsComplete
  <2>1. output[q] = NoOutput /\ receipts[requestKey(q)] = ReceiptContent(q)
    BY <1>1 DEF Inv, AnswersRecorded, unrecordedEgress
  <2>2. ReceiptContent(q) # NoReceipt /\ ReceiptContent(q).output = output[q]
    BY DEF ReceiptContent, NoReceipt
  <2>. QED BY <1>1, <2>1, <2>2 DEF Inv, AnswersRecorded
<1>. QED BY <1>1, InvCorrect, PTL

-----------------------------------------------------------------------------
(* The calls use the receipts through the interface of ReceiptStore.       *)

PastEmission == {"emitV2"} \cup Settled

\* Call q has emitted nothing yet and does not now.
Quiet(q) ==
    /\ stage[q] \notin PastEmission /\ stage'[q] \notin PastEmission
    /\ receipts' = receipts /\ result' = result

\* Call q is answered without a receipt of its own, which may be stored.
Rejects(q) ==
    /\ stage[q] \notin PastEmission /\ stage'[q] = "done"
    /\ ~result'[q].emitted /\ result'[q].status = "failed_closed"
    /\ \/ receipts' = receipts
       \/ /\ stage[q] = "emit" /\ mayRecord(q)
          /\ receipts' = [receipts EXCEPT ![requestKey(q)] = ReceiptContent(q)]

\* Call q is handed its receipt.
Emits(q) ==
    /\ stage[q] = "emit" /\ mayRecord(q)
    /\ receipts' = [receipts EXCEPT ![requestKey(q)] = ReceiptContent(q)]
    /\ \/ stage'[q] = "emitV2" /\ result' = result
       \/ stage'[q] = "done" /\ result'[q].emitted

\* Call q ends with its receipt, or drops it because the v2 layer failed.
Concludes(q) ==
    /\ stage[q] = "emitV2" /\ stage'[q] = "done"
    /\ receipts' = receipts
    /\ \/ result'[q].emitted
       \/ ~result'[q].emitted /\ result'[q].status = "failed_closed"

\* A step of a call is one of the four.
LEMMA EmissionMoves ==
    ASSUME TypeOK, NEW q \in Calls, Step(q)
    PROVE  Quiet(q) \/ Rejects(q) \/ Emits(q) \/ Concludes(q)
<1> USE DEF PastEmission
<1>1. CASE Admit(q)
  BY <1>1 DEF Admit, Quiet, TypeOK, Settled
<1>2. CASE RejectRequest(q)
  BY <1>2 DEF RejectRequest, FailClosed, Rejects, TypeOK, Settled
<1>3. CASE LoadPolicies(q)
  BY <1>3 DEF LoadPolicies, Block, Quiet, TypeOK, Settled
<1>4. CASE LoadPoliciesFails(q)
  BY <1>4 DEF LoadPoliciesFails, FailClosed, Rejects, TypeOK, Settled
<1>5. CASE Retrieve(q)
  BY <1>5 DEF Retrieve, Screen, Block, Quiet, TypeOK, Settled
<1>6. CASE RetrieveRefused(q)
  BY <1>6 DEF RetrieveRefused, Block, Quiet, TypeOK, Settled
<1>7. CASE Reserve(q)
  BY <1>7 DEF Reserve, Quiet, TypeOK, Settled
<1>8. CASE ReserveUnacknowledged(q)
  BY <1>8 DEF ReserveUnacknowledged, Quiet, TypeOK, Settled
<1>9. CASE ReserveConditionFailed(q)
  BY <1>9 DEF ReserveConditionFailed, Quiet, TypeOK, Settled
<1>10. CASE ReserveFails(q)
  BY <1>10 DEF ReserveFails, Block, Quiet, TypeOK, Settled
<1>11. CASE ReadReservation(q)
  BY <1>11 DEF ReadReservation, Block, Quiet, TypeOK, Settled
<1>12. CASE InvokeModel(q)
  BY <1>12 DEF InvokeModel, Quiet, TypeOK, Settled
<1>13. CASE ModelReturns(q)
  BY <1>13 DEF ModelReturns, Quiet, TypeOK, Settled
<1>14. CASE ModelFails(q)
  BY <1>14 DEF ModelFails, Quiet, TypeOK, Settled
<1>15. CASE SkipMemory(q)
  BY <1>15 DEF SkipMemory, Quiet, TypeOK, Settled
<1>16. CASE WriteMemory(q)
  BY <1>16 DEF WriteMemory, Quiet, TypeOK, Settled
<1>17. CASE WriteMemoryFails(q)
  BY <1>17 DEF WriteMemoryFails, Quiet, TypeOK, Settled
<1>18. CASE EmitReceipt(q)
  BY <1>18 DEF EmitReceipt, Finish, Emits, TypeOK, Settled
<1>19. CASE EmitReceiptFails(q)
  BY <1>19 DEF EmitReceiptFails, Finish, Rejects, TypeOK, Settled
<1>20. CASE EmitReceiptV2(q)
  BY <1>20 DEF EmitReceiptV2, Finish, Concludes, TypeOK, Settled
<1>21. CASE EmitReceiptV2Fails(q)
  BY <1>21 DEF EmitReceiptV2Fails, Finish, Concludes, TypeOK, Settled
<1>. QED
  BY <1>1, <1>2, <1>3, <1>4, <1>5, <1>6, <1>7, <1>8, <1>9, <1>10, <1>11,
     <1>12, <1>13, <1>14, <1>15, <1>16, <1>17, <1>18, <1>19, <1>20, <1>21
     DEF Step

\* A call that has emitted, or ends in this step, keeps what its receipt
\* records.
LEMMA ContentKept ==
    ASSUME TypeOK, NEW q \in Calls, Step(q), NEW p \in Calls,
           p # q \/ stage[p] \in {"emit", "emitV2"} \cup Settled
    PROVE  ReceiptContent(p)' = ReceiptContent(p)
<1>1. CASE p = q
  BY <1>1, LateMoves
<1>2. CASE p # q
  BY <1>2, OthersUnmoved DEF Unmoved, ReceiptContent
<1>. QED BY <1>1, <1>2

\* A step answers with a receipt only when it is stored, and leaves earlier
\* answers and their receipts alone.
LEMMA AnswersReceiptedStep ==
    ASSUME TypeOK, ReceiptStands, AnswersAreReceipted, NEW q \in Calls, Step(q)
    PROVE  AnswersAreReceipted'
<1> DEFINE Answered(p) == \/ result[p].emitted
                          \/ result[p].status \notin {"pending", "failed_closed"}
<1> SUFFICES ASSUME NEW p \in Calls, Answered(p)'
             PROVE  /\ stage'[p] = "done" /\ result'[p].emitted
                    /\ receipts'[requestKey(p)] = ReceiptContent(p)'
  BY DEF AnswersAreReceipted, requestKey
<1>1. ASSUME Answered(p), stage[p] = "done" => Unmoved(p)
      PROVE  /\ stage'[p] = "done" /\ result'[p].emitted
             /\ receipts'[requestKey(p)] = ReceiptContent(p)'
  <2>1. /\ stage[p] = "done" /\ result[p].emitted
        /\ receipts[requestKey(p)] = ReceiptContent(p)
    BY <1>1 DEF AnswersAreReceipted
  <2>2. stage'[p] = "done" /\ result'[p].emitted
        /\ ReceiptContent(p)' = ReceiptContent(p)
    BY <1>1, <2>1 DEF Unmoved, ReceiptContent
  <2>3. receipts'[requestKey(p)] = ReceiptContent(p)
    BY <2>1, TablesGrow, KeysOfCalls, ContentIsReceipt
  <2>. QED BY <2>2, <2>3
<1>2. CASE p # q
  <2>1. Unmoved(p)
    BY <1>2, OthersUnmoved
  <2>2. Answered(p)
    BY <2>1 DEF Unmoved
  <2>. QED BY <1>1, <2>1, <2>2
<1>3. CASE p = q
  <2>1. stage[q] # "done"
    BY EmissionMoves DEF Quiet, Rejects, Emits, Concludes, PastEmission, Settled
  <2>2. ~Answered(q)
    BY <2>1 DEF AnswersAreReceipted
  <2>3. CASE Quiet(q)
    BY <1>3, <2>2, <2>3 DEF Quiet
  <2>4. CASE Rejects(q)
    BY <1>3, <2>4 DEF Rejects
  <2>5. CASE Emits(q)
    <3>1. result' # result
      BY <1>3, <2>2
    <3>2. stage'[q] = "done" /\ result'[q].emitted
      BY <2>5, <3>1 DEF Emits
    <3>3. receipts'[requestKey(q)] = ReceiptContent(q)
      BY <2>5, KeysOfCalls DEF Emits, TypeOK
    <3>4. ReceiptContent(q)' = ReceiptContent(q)
      BY <2>5, ContentKept DEF Emits
    <3>. QED BY <1>3, <3>2, <3>3, <3>4
  <2>6. CASE Concludes(q)
    <3>1. stage'[q] = "done" /\ result'[q].emitted /\ receipts' = receipts
          /\ stage[q] = "emitV2"
      BY <1>3, <2>6 DEF Concludes
    <3>2. ReceiptContent(q)' = ReceiptContent(q)
      BY <3>1, ContentKept
    <3>3. receipts[requestKey(q)] = ReceiptContent(q)
      BY <3>1 DEF ReceiptStands
    <3>. QED BY <1>3, <3>1, <3>2, <3>3
  <2>. QED BY <2>3, <2>4, <2>5, <2>6, EmissionMoves
<1>. QED BY <1>2, <1>3

\* Steps that are no step of a call keep answers and receipts as they are.
LEMMA OtherSteps ==
    ASSUME Inv, [Next]_vars, ~ \E q \in Calls : Step(q)
    PROVE  /\ receipts' = receipts /\ result' = result
           /\ \A p \in Calls : ReceiptContent(p)' = ReceiptContent(p)
           /\ \/ stage' = stage
              \/ \E q \in Calls :
                    /\ stage[q] \in Working
                    /\ stage' = [stage EXCEPT ![q] = "crashed"]
<1>1. ASSUME NEW q \in Calls, Crash(q)
      PROVE  /\ UNCHANGED << receipts, result, digests, pre, post, memoryWritten, output >>
             /\ stage[q] \in Working
             /\ stage' = [stage EXCEPT ![q] = "crashed"]
  BY <1>1 DEF Crash, tables, decided, model, Goto
<1>2. ASSUME NEW k \in NonceKey, ExpireReservation(k)
      PROVE  UNCHANGED << receipts, result, digests, pre, post, memoryWritten, output, stage >>
  BY <1>2 DEF ExpireReservation, decided, model
<1>3. CASE UNCHANGED vars
  BY <1>3 DEF vars, ReceiptContent
<1>4. CASE \E q \in Calls : Crash(q)
  BY <1>1, <1>4 DEF ReceiptContent
<1>5. CASE \E k \in NonceKey : ExpireReservation(k)
  BY <1>2, <1>5 DEF ReceiptContent
<1>. QED BY <1>3, <1>4, <1>5 DEF Next, AllSettled

\* Whatever a call returned, except failed_closed, is on the stored receipt
\* of its request, for good.
THEOREM AnswersAreReceiptedAlways == Spec => []AnswersAreReceipted
<1>1. Init => AnswersAreReceipted
  BY DEF Init, AnswersAreReceipted, Pending
<1>2. Inv /\ AnswersAreReceipted /\ [Next]_vars => AnswersAreReceipted'
  <2> SUFFICES ASSUME Inv, AnswersAreReceipted, [Next]_vars
               PROVE  AnswersAreReceipted'
    OBVIOUS
  <2>1. CASE \E q \in Calls : Step(q)
    BY <2>1, AnswersReceiptedStep DEF Inv
  <2>2. CASE ~ \E q \in Calls : Step(q)
    <3>1. /\ receipts' = receipts /\ result' = result
          /\ \A p \in Calls : ReceiptContent(p)' = ReceiptContent(p)
      BY <2>2, OtherSteps
    <3>2. \A p \in Calls : stage[p] = "done" => stage'[p] = "done"
      BY <2>2, OtherSteps DEF Inv, TypeOK, Working
    <3>. QED BY <3>1, <3>2 DEF AnswersAreReceipted, requestKey
  <2>. QED BY <2>1, <2>2
<1>. QED BY <1>1, <1>2, InvCorrect, PTL DEF Spec

Holdings == [q \in Calls |-> HeldBy(q)]
NoHold == [kind |-> "lost"]

\* What a call is holding, by how far it has come.
LEMMA HoldingOf ==
    ASSUME AnswersAreReceipted, NEW q \in Calls
    PROVE  /\ stage[q] \notin PastEmission => HeldBy(q) = NoReceipt
           /\ stage[q] = "emitV2" => HeldBy(q) = ReceiptContent(q)
BY DEF AnswersAreReceipted, HeldBy, PastEmission, Settled

\* Only what the call that moves is holding can change.
LEMMA HoldingMoves ==
    ASSUME TypeOK, NEW q \in Calls, Step(q)
    PROVE  Holdings' = [Holdings EXCEPT ![q] = HeldBy(q)']
<1>1. ASSUME NEW p \in Calls, p # q PROVE HeldBy(p)' = HeldBy(p)
  <2>1. Unmoved(p) /\ ReceiptContent(p)' = ReceiptContent(p)
    BY <1>1, OthersUnmoved, ContentKept
  <2>. QED BY <2>1 DEF Unmoved, HeldBy
<1>2. Holdings' = [p \in Calls |-> HeldBy(p)']
  BY DEF Holdings
<1>. QED BY <1>1, <1>2 DEF Holdings

\* A receipt's content is none of the two ways of having no receipt.
LEMMA ContentIsSome ==
    ASSUME NEW q \in Calls
    PROVE  ReceiptContent(q) # NoReceipt /\ ReceiptContent(q) # NoHold
<1>1. /\ ReceiptContent(q).kind = "receipt"
      /\ NoReceipt.kind = "none" /\ NoHold.kind = "lost"
  BY DEF ReceiptContent, NoReceipt, NoHold
<1>. QED BY <1>1

\* Every step of a call is a step of the interface or invisible in it.
LEMMA StoreStep ==
    ASSUME TypeOK, AnswersAreReceipted, AnswersAreReceipted', NEW q \in Calls,
           Step(q)
    PROVE  Store!StoreNext \/ UNCHANGED Store!storeVars
<1> DEFINE k == requestKey(q)
<1>1. /\ k \in RequestKey /\ receipts \in [RequestKey -> Receipt \cup {NoReceipt}]
      /\ [p \in Calls |-> requestKey(p)][q] = k
  BY KeysOfCalls DEF TypeOK
<1>2. /\ Holdings[q] = HeldBy(q)
      /\ Holdings' = [Holdings EXCEPT ![q] = HeldBy(q)']
  BY HoldingMoves DEF Holdings
<1>3. \/ receipts' = receipts
      \/ mayRecord(q) /\ receipts' = [receipts EXCEPT ![k] = ReceiptContent(q)]
  BY EmissionMoves DEF Quiet, Rejects, Emits, Concludes
<1>4. /\ receipts' = [receipts EXCEPT ![k] = receipts'[k]]
      /\ receipts[k] \in {NoReceipt, receipts'[k]}
  <2>1. CASE receipts' = receipts
    BY <1>1, <2>1
  <2>2. CASE mayRecord(q) /\ receipts' = [receipts EXCEPT ![k] = ReceiptContent(q)]
    <3>1. receipts'[k] = ReceiptContent(q)
      BY <1>1, <2>2
    <3>. QED BY <2>2, <3>1 DEF mayRecord
  <2>. QED BY <1>3, <2>1, <2>2
<1>5. Store!MayRecord(q)
  BY <1>1, <1>4 DEF Store!MayRecord, Store!None, NoReceipt
<1>6. CASE Quiet(q)
  <2>1. HeldBy(q) = NoReceipt /\ HeldBy(q)' = NoReceipt
    <3>1. /\ stage[q] \notin PastEmission /\ stage'[q] \notin PastEmission
          /\ result' = result
      BY <1>6 DEF Quiet
    <3>2. stage'[q] # "emitV2" /\ stage'[q] \notin Settled /\ stage[q] # "done"
      BY <3>1 DEF PastEmission, Settled
    <3>3. ~result'[q].emitted
      BY <3>1, <3>2 DEF AnswersAreReceipted
    <3>4. HeldBy(q)' = NoReceipt
      BY <3>2, <3>3 DEF HeldBy
    <3>. QED BY <3>1, <3>4, HoldingOf
  <2>2. Holdings' = Holdings
    BY <1>2, <2>1 DEF Holdings
  <2>. QED BY <1>6, <2>2 DEF Quiet, Store!storeVars, Holdings
<1>7. CASE Rejects(q)
  <2>1. HeldBy(q) = NoReceipt /\ HeldBy(q)' = NoHold
    <3>1. HeldBy(q) = NoReceipt
      BY <1>7, HoldingOf DEF Rejects
    <3>2. stage'[q] = "done" /\ ~result'[q].emitted
      BY <1>7 DEF Rejects
    <3>. QED BY <3>1, <3>2 DEF HeldBy, NoHold, Settled
  <2>2. Store!Fail(q)
    BY <1>2, <1>5, <2>1
       DEF Store!Fail, Store!None, Store!Lost, Holdings, NoReceipt, NoHold
  <2>. QED BY <2>2 DEF Store!StoreNext
<1>8. CASE Emits(q)
  <2>1. HeldBy(q) = NoReceipt
    BY <1>8, HoldingOf DEF Emits, PastEmission, Settled
  <2>2. receipts'[k] = ReceiptContent(q) /\ ReceiptContent(q)' = ReceiptContent(q)
    BY <1>1, <1>8, ContentKept DEF Emits
  <2>3. stage'[q] = "emitV2" \/ result'[q].emitted
    BY <1>8 DEF Emits
  <2>4. HeldBy(q)' = receipts'[k]
    BY <2>2, <2>3 DEF HeldBy
  <2>5. receipts'[k] # NoReceipt
    BY <2>2, ContentIsSome
  <2>6. Store!Return(q)
    BY <1>1, <1>2, <1>5, <2>1, <2>4, <2>5
       DEF Store!Return, Store!None, Holdings, NoReceipt
  <2>. QED BY <2>6 DEF Store!StoreNext
<1>9. CASE Concludes(q)
  <2>1. /\ stage[q] = "emitV2" /\ stage'[q] = "done" /\ receipts' = receipts
        /\ HeldBy(q) = ReceiptContent(q)
        /\ ReceiptContent(q)' = ReceiptContent(q)
    BY <1>9, HoldingOf, ContentKept DEF Concludes
  <2>2. CASE result'[q].emitted
    <3>1. HeldBy(q)' = HeldBy(q)
      BY <2>1, <2>2 DEF HeldBy
    <3>2. Holdings' = Holdings
      BY <1>2, <3>1 DEF Holdings
    <3>. QED BY <2>1, <3>2 DEF Store!storeVars, Holdings
  <2>3. CASE ~result'[q].emitted
    <3>1. HeldBy(q)' = NoHold
      BY <2>1, <2>3 DEF HeldBy, NoHold, Settled
    <3>2. Store!Drop(q)
      BY <1>2, <2>1, <3>1, ContentIsSome
         DEF Store!Drop, Store!None, Store!Lost, Holdings, NoReceipt, NoHold
    <3>. QED BY <3>2 DEF Store!StoreNext
  <2>. QED BY <2>2, <2>3
<1>. QED BY <1>6, <1>7, <1>8, <1>9, EmissionMoves

\* A crash is a failed emission, or the loss of a receipt the call was
\* holding while the v2 layer ran.
LEMMA StoreCrash ==
    ASSUME TypeOK, AnswersAreReceipted, receipts' = receipts, result' = result,
           \A p \in Calls : ReceiptContent(p)' = ReceiptContent(p),
           NEW q \in Calls, stage[q] \in Working,
           stage' = [stage EXCEPT ![q] = "crashed"]
    PROVE  Store!StoreNext \/ UNCHANGED Store!storeVars
<1>1. /\ stage'[q] = "crashed"
      /\ \A p \in Calls : p # q => stage'[p] = stage[p]
  BY DEF TypeOK
<1>2. \A p \in Calls : p # q => HeldBy(p)' = HeldBy(p)
  BY <1>1 DEF HeldBy
<1>3. ~result[q].emitted
  BY DEF AnswersAreReceipted, Working
<1>4. HeldBy(q)' = NoHold
  BY <1>1, <1>3 DEF HeldBy, NoHold, Settled
<1>5. Holdings' = [p \in Calls |-> HeldBy(p)']
  BY DEF Holdings
<1>6. Holdings' = [Holdings EXCEPT ![q] = NoHold]
  BY <1>2, <1>4, <1>5 DEF Holdings
<1>7. CASE stage[q] = "emitV2"
  <2>1. HeldBy(q) \notin {NoReceipt, NoHold}
    BY <1>7, HoldingOf, ContentIsSome
  <2>2. Store!Drop(q)
    BY <1>6, <2>1
       DEF Store!Drop, Store!None, Store!Lost, Holdings, NoReceipt, NoHold
  <2>. QED BY <2>2 DEF Store!StoreNext
<1>8. CASE stage[q] # "emitV2"
  <2>1. HeldBy(q) = NoReceipt
    BY <1>8, HoldingOf DEF PastEmission, Settled, Working
  <2>2. /\ receipts' = [receipts EXCEPT ![requestKey(q)] = receipts'[requestKey(q)]]
        /\ receipts[requestKey(q)] = receipts'[requestKey(q)]
    BY KeysOfCalls DEF TypeOK
  <2>3. Store!MayRecord(q)
    BY <2>2 DEF Store!MayRecord
  <2>4. Store!Fail(q)
    BY <1>6, <2>1, <2>3
       DEF Store!Fail, Store!None, Store!Lost, Holdings, NoReceipt, NoHold
  <2>. QED BY <2>4 DEF Store!StoreNext
<1>. QED BY <1>7, <1>8

\* The lifecycle asks of its receipts no more than ReceiptStore allows, which
\* is what ReceiptChain provides: receipts as the lifecycle keeps them are a
\* sound account of the chained, concurrently written table.
THEOREM StoreRefinement == Spec => ImplementsStore
<1>1. Init => Store!StoreInit
  <2> SUFFICES ASSUME Init PROVE Store!StoreInit
    OBVIOUS
  <2>1. ASSUME NEW q \in Calls PROVE HeldBy(q) = NoReceipt
    BY DEF Init, HeldBy, Pending, Settled
  <2>2. {[p \in Calls |-> requestKey(p)][q] : q \in Calls} = RequestKey
    BY DEF requestKey, RequestKey
  <2>. QED BY <2>1, <2>2 DEF Init, Store!StoreInit, Store!None, NoReceipt
<1>2. Inv /\ AnswersAreReceipted /\ AnswersAreReceipted' /\ [Next]_vars
        => [Store!StoreNext]_(Store!storeVars)
  <2> SUFFICES ASSUME Inv, AnswersAreReceipted, AnswersAreReceipted', [Next]_vars
               PROVE  Store!StoreNext \/ UNCHANGED Store!storeVars
    OBVIOUS
  <2>1. CASE \E q \in Calls : Step(q)
    BY <2>1, StoreStep DEF Inv
  <2>2. CASE ~ \E q \in Calls : Step(q)
    <3>1. /\ receipts' = receipts /\ result' = result
          /\ \A p \in Calls : ReceiptContent(p)' = ReceiptContent(p)
      BY <2>2, OtherSteps
    <3>2. CASE stage' = stage
      <4>1. Holdings' = Holdings
        BY <3>1, <3>2 DEF Holdings, HeldBy
      <4>. QED BY <3>1, <4>1 DEF Store!storeVars, Holdings
    <3>3. ASSUME NEW q \in Calls, stage[q] \in Working,
                 stage' = [stage EXCEPT ![q] = "crashed"]
          PROVE  Store!StoreNext \/ UNCHANGED Store!storeVars
      BY <3>1, <3>3, StoreCrash DEF Inv
    <3>. QED BY <2>2, <3>2, <3>3, OtherSteps
  <2>. QED BY <2>1, <2>2
<1>. QED BY <1>1, <1>2, InvCorrect, AnswersAreReceiptedAlways, PTL
        DEF Spec, ImplementsStore, Store!StoreSpec

-----------------------------------------------------------------------------
(* The receipt is the last effect of a call.                               *)

\* Call q reaches the model and the vault no further, and what its receipt
\* records of it stays true.
NoMoreEffects(q) ==
    /\ q \in egress' <=> q \in egress
    /\ q \in responded' <=> q \in responded
    /\ \A k \in MemoryKey : vault'[k] = q <=> vault[k] = q
    /\ ReceiptContent(q)' = ReceiptContent(q)

\* Past its emission a call has no more effects.
LEMMA EffectsEnd ==
    ASSUME Inv, NEW p \in Calls, Step(p), NEW q \in Calls,
           stage[q] \in PastEmission
    PROVE  NoMoreEffects(q) /\ (stage[q] = "done" => result'[q] = result[q])
<1>1. TypeOK /\ Effects(p)
  BY StepEffects DEF Inv
<1>2. CASE p = q
  <2>1. stage[q] = "emitV2"
    BY <1>1, <1>2, EmissionMoves
       DEF Quiet, Rejects, Emits, Concludes, PastEmission, Settled
  <2>2. vault' = vault /\ egress' = egress /\ responded' = responded
    BY <1>1, <1>2, <2>1 DEF Effects
  <2>3. ReceiptContent(q)' = ReceiptContent(q)
    BY <1>1, <1>2, <2>1, LateMoves
  <2>. QED BY <2>1, <2>2, <2>3 DEF NoMoreEffects
<1>3. CASE p # q
  <2>1. Unmoved(q) /\ ReceiptContent(q)' = ReceiptContent(q)
    BY <1>1, <1>3, OthersUnmoved, ContentKept
  <2>2. \A k \in MemoryKey : vault'[k] = q <=> vault[k] = q
    <3>1. CASE vault' = vault
      BY <3>1
    <3>2. CASE /\ vault[recordId(p)] = Free
               /\ vault' = [vault EXCEPT ![recordId(p)] = p]
      <4>1. vault \in [MemoryKey -> Calls \cup {Free}] /\ Free \notin Calls
        BY <1>1, GovernedInvokeAssumption DEF TypeOK
      <4>2. ASSUME NEW k \in MemoryKey PROVE vault'[k] = q <=> vault[k] = q
        BY <1>3, <3>2, <4>1
      <4>. QED BY <4>2
    <3>. QED BY <1>1, <3>1, <3>2 DEF Effects
  <2>. QED BY <2>1, <2>2 DEF NoMoreEffects, Unmoved
<1>. QED BY <1>2, <1>3

\* The receipt is written last: once a call has emitted it, was rejected or
\* died, no step of any call adds a prompt, an answer of the model or a
\* memory record of it, and neither its answer nor what the receipt records
\* of it changes any more (the order of governedInvoke's awaits).
THEOREM ReceiptIsLast ==
    Spec => [][\A q \in Calls :
                  stage[q] \in PastEmission =>
                      /\ NoMoreEffects(q)
                      /\ stage[q] = "done" => result'[q] = result[q]]_vars
<1> DEFINE A == \A q \in Calls :
                   stage[q] \in PastEmission =>
                       /\ NoMoreEffects(q)
                       /\ stage[q] = "done" => result'[q] = result[q]
<1>1. Inv /\ [Next]_vars => [A]_vars
  <2> SUFFICES ASSUME Inv, Next, ~UNCHANGED vars PROVE A
    OBVIOUS
  <2>1. CASE \E p \in Calls : Step(p)
    BY <2>1, EffectsEnd
  <2>2. CASE \E p \in Calls : Crash(p)
    <3>1. UNCHANGED << tables, model, decided, result >>
      BY <2>2 DEF Crash
    <3>. QED BY <3>1 DEF NoMoreEffects, ReceiptContent
  <2>3. CASE \E k \in NonceKey : ExpireReservation(k)
    <3>1. UNCHANGED << vault, model, decided, result >>
      BY <2>3 DEF ExpireReservation
    <3>. QED BY <3>1 DEF NoMoreEffects, ReceiptContent
  <2>. QED BY <2>1, <2>2, <2>3 DEF Next, AllSettled
<1>. QED BY <1>1, InvCorrect, PTL DEF Spec
=============================================================================
