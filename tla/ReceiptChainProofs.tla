------------------------- MODULE ReceiptChainProofs -------------------------
(***************************************************************************)
(* Proofs about ReceiptChain, for every set of emissions, tenants and      *)
(* requests and every bound on the attempts.                               *)
(***************************************************************************)
EXTENDS ReceiptChain, SequenceTheorems, TLAPS

USE ReceiptChainAssumption

\* What emit builds is a well-formed receipt with a well-formed hash.
LEMMA BuiltType ==
    ASSUME TypeOK, NEW e \in Emissions
    PROVE  /\ ContentOf(e) \in Content
           /\ Built(e) \in SignedReceipt
           /\ ReceiptId(Built(e)) \in [content : Content, prev : Hash]
           /\ [content |-> ContentOf(e), by |-> e] \in Entry
           /\ SignedHash(Built(e)) \in Hash
<1>1. ContentOf(e) \in Content
  BY DEF TypeOK, ContentOf, Content
<1>2. Built(e) \in SignedReceipt
  BY <1>1 DEF TypeOK, Built, SignedReceipt
<1>3. [content |-> ContentOf(e), by |-> e] \in Entry
  BY <1>1 DEF Entry
<1>4. SignedHash(Built(e)) = Append(prevHash[e], [content |-> ContentOf(e), by |-> e])
  BY DEF SignedHash, Built
<1>5. prevHash[e] \in Seq(Entry)
  BY DEF TypeOK, Hash
<1>6. SignedHash(Built(e)) \in Hash
  BY <1>3, <1>4, <1>5, AppendProperties DEF Hash
<1>7. ReceiptId(Built(e)) \in [content : Content, prev : Hash]
  BY <1>1, <1>5 DEF ReceiptId, Built, Hash
<1>8. QED
  BY <1>1, <1>2, <1>3, <1>6, <1>7

\* The transactional write keeps the table well-formed.
LEMMA WriteType ==
    ASSUME TypeOK, NEW e \in Emissions, WriteItems(e)
    PROVE  /\ receipts' \in [Tenants -> SUBSET SignedReceipt]
           /\ markers' \in [Tenants -> [Requests -> Marker \cup {NoMarker}]]
           /\ headHash' \in [Tenants -> Hash]
<1> DEFINE t == TenantOf[e]
<1>0. Built(e) \in SignedReceipt /\ SignedHash(Built(e)) \in Hash
  BY BuiltType
<1>1. receipts' \in [Tenants -> SUBSET SignedReceipt]
  <2>1. /\ receipts \in [Tenants -> SUBSET SignedReceipt]
        /\ receipts' = [receipts EXCEPT ![t] = receipts[t] \cup {Built(e)}]
    BY DEF TypeOK, WriteItems
  <2> QED
    BY <1>0, <2>1
<1>2. headHash' \in [Tenants -> Hash]
  <2>1. /\ headHash \in [Tenants -> Hash]
        /\ headHash' = [headHash EXCEPT ![t] = SignedHash(Built(e))]
    BY DEF TypeOK, WriteItems
  <2> QED
    BY <1>0, <2>1
<1>3. [kind |-> "marker", digest |-> ContentOf(e),
       target |-> ReceiptId(Built(e))] \in Marker
  BY BuiltType DEF Marker
<1>4. markers' \in [Tenants -> [Requests -> Marker \cup {NoMarker}]]
  BY <1>3 DEF TypeOK, WriteItems
<1>5. QED
  BY <1>1, <1>2, <1>4

\* A stored receipt is well-formed.
LEMMA StoredType ==
    ASSUME TypeOK, NEW t \in Tenants, NEW id, NEW r \in Stored(t, id)
    PROVE  r \in receipts[t] /\ r \in SignedReceipt /\ ReceiptId(r) = id
BY DEF TypeOK, Stored

\* Every step keeps the variables in their types: in particular the loop
\* counter of emit never reaches MaxAttempts.
LEMMA TypeStep == TypeOK /\ [Next]_vars => TypeOK'
<1> SUFFICES ASSUME TypeOK, [Next]_vars PROVE TypeOK'
  OBVIOUS
<1> USE DEF TypeOK, table
<1>1. ASSUME NEW e \in Emissions, Start(e) PROVE TypeOK'
  <2>1. PICK now \in {clock, clock + 1} :
           clock' = now /\ timestamp' = [timestamp EXCEPT ![e] = now]
    BY <1>1 DEF Start
  <2>2. PICK seen \in {Null, headHash[TenantOf[e]]} :
           prevHash' = [prevHash EXCEPT ![e] = seen]
    BY <1>1 DEF Start
  <2>3. Null \in Hash /\ headHash[TenantOf[e]] \in Hash
    BY DEF Null, Hash
  <2>4. clock' \in Nat /\ timestamp' \in [Emissions -> Nat]
    BY <2>1
  <2>5. prevHash' \in [Emissions -> Hash]
    BY <2>2, <2>3
  <2>6. QED
    BY <1>1, <2>4, <2>5 DEF Start, Active
<1>2. ASSUME NEW e \in Emissions, ReadHead(e) PROVE TypeOK'
  BY <1>2 DEF ReadHead, Active
<1>3. ASSUME NEW e \in Emissions, Lookup(e) PROVE TypeOK'
  <2>1. result' \in [Emissions -> SignedReceipt \cup {NoReceipt}]
    BY <1>3, StoredType DEF Lookup
  <2>2. pc' \in [Emissions -> {"idle"} \cup Active \cup Outcomes]
    BY <1>3 DEF Lookup, Active, Outcomes, Returned
  <2>3. QED
    BY <1>3, <2>1, <2>2 DEF Lookup
<1>4. ASSUME NEW e \in Emissions, Sign(e) PROVE TypeOK'
  BY <1>4 DEF Sign, Active
<1>5. ASSUME NEW e \in Emissions, Commit(e) PROVE TypeOK'
  BY <1>5, WriteType, BuiltType DEF Commit, Outcomes, Returned
<1>6. ASSUME NEW e \in Emissions, CommitUnacknowledged(e) PROVE TypeOK'
  BY <1>6, WriteType DEF CommitUnacknowledged, Outcomes, Failed
<1>7. ASSUME NEW e \in Emissions, ConditionFailed(e) PROVE TypeOK'
  BY <1>7 DEF ConditionFailed, Active
<1>8. ASSUME NEW e \in Emissions, ReadMarker(e) PROVE TypeOK'
  <2>1. markers[TenantOf[e]][RequestOf[e]] \in Marker \cup {NoMarker}
    OBVIOUS
  <2>2. found' \in [Emissions -> Marker \cup {NoMarker}]
    BY <1>8, <2>1 DEF ReadMarker
  <2>3. pc' \in [Emissions -> {"idle"} \cup Active \cup Outcomes]
    <3>1. PICK to \in {"target", "receipt"} : pc' = [pc EXCEPT ![e] = to]
      BY <1>8 DEF ReadMarker
    <3>2. to \in Active
      BY DEF Active
    <3> QED
      BY <3>1, <3>2
  <2>4. QED
    BY <1>8, <2>2, <2>3 DEF ReadMarker
<1>9. ASSUME NEW e \in Emissions, ResolveMarker(e) PROVE TypeOK'
  <2>1. result' \in [Emissions -> SignedReceipt \cup {NoReceipt}]
    BY <1>9, StoredType DEF ResolveMarker
  <2>2. pc' \in [Emissions -> {"idle"} \cup Active \cup Outcomes]
    BY <1>9 DEF ResolveMarker, Outcomes, Failed, Returned
  <2>3. QED
    BY <1>9, <2>1, <2>2 DEF ResolveMarker
<1>10. ASSUME NEW e \in Emissions, ReadReceipt(e) PROVE TypeOK'
  <2>1. result' \in [Emissions -> SignedReceipt \cup {NoReceipt}]
    BY <1>10, StoredType DEF ReadReceipt
  <2>2. pc' \in [Emissions -> {"idle"} \cup Active \cup Outcomes]
    BY <1>10 DEF ReadReceipt, Active, Outcomes, Returned
  <2>3. QED
    BY <1>10, <2>1, <2>2 DEF ReadReceipt
<1>11. ASSUME NEW e \in Emissions, RecheckHead(e) PROVE TypeOK'
  <2>1. attempt' \in [Emissions -> 0 .. MaxAttempts - 1]
    <3>1. attempt[e] \in 0 .. MaxAttempts - 1
      OBVIOUS
    <3>2. CASE MayRetry(e) /\ attempt' = [attempt EXCEPT ![e] = @ + 1]
      <4>1. attempt[e] + 1 \in 0 .. MaxAttempts - 1
        BY <3>1, <3>2, ReceiptChainAssumption DEF MayRetry
      <4> QED
        BY <3>2, <4>1
    <3>3. CASE UNCHANGED attempt
      BY <3>3
    <3> QED
      BY <1>11, <3>2, <3>3 DEF RecheckHead
  <2>2. pc' \in [Emissions -> {"idle"} \cup Active \cup Outcomes]
    <3>1. PICK to \in {"noExisting", "head", "conflict"} : pc' = [pc EXCEPT ![e] = to]
      BY <1>11 DEF RecheckHead
    <3>2. to \in Active \cup Outcomes
      BY DEF Active, Outcomes, Failed
    <3> QED
      BY <3>1, <3>2
  <2> QED
    BY <1>11, <2>1, <2>2 DEF RecheckHead
<1>12. ASSUME NEW e \in Emissions, Abort(e) PROVE TypeOK'
  BY <1>12 DEF Abort, Outcomes, Failed
<1>13. ASSUME UNCHANGED vars PROVE TypeOK'
  BY <1>13 DEF vars
<1>14. QED
  BY <1>1, <1>2, <1>3, <1>4, <1>5, <1>6, <1>7, <1>8, <1>9, <1>10, <1>11,
     <1>12, <1>13 DEF Next, Advance, Finished

\* The empty table and the idle emissions are well typed.
LEMMA TypeInit == Init => TypeOK
<1> SUFFICES ASSUME Init PROVE TypeOK
  OBVIOUS
<1>1. Null \in Hash
  BY DEF Null, Hash
<1>2. QED
  BY <1>1 DEF Init, TypeOK

\* Type correctness of the emitter and of the table it writes.
THEOREM TypeCorrect == Spec => []TypeOK
<1>1. QED
  BY TypeInit, TypeStep, PTL DEF Spec

-----------------------------------------------------------------------------
(* What the transactional write does to the chain.                         *)

EntryOf(e) == [content |-> ContentOf(e), by |-> e]

\* The prefixes of a sequence survive an append.
LEMMA PrefixOfAppend ==
    ASSUME NEW S, NEW s \in Seq(S), NEW x \in S, NEW n \in 1 .. Len(s)
    PROVE  SubSeq(Append(s, x), 1, n) = SubSeq(s, 1, n)
<1> DEFINE a == Append(s, x)
<1>1. /\ a \in Seq(S)
      /\ Len(a) = Len(s) + 1
      /\ \A i \in 1 .. Len(s) : a[i] = s[i]
  BY AppendProperties
<1>2. \A i \in 1 .. n : s[i] \in S /\ a[i] \in S /\ a[i] = s[i]
  BY <1>1, ElementOfSeq
<1>3. /\ SubSeq(s, 1, n) \in Seq(S) /\ Len(SubSeq(s, 1, n)) = n
      /\ \A i \in 1 .. n : SubSeq(s, 1, n)[i] = s[i]
  BY <1>2, SubSeqProperties
<1>4. /\ SubSeq(a, 1, n) \in Seq(S) /\ Len(SubSeq(a, 1, n)) = n
      /\ \A i \in 1 .. n : SubSeq(a, 1, n)[i] = a[i]
  BY <1>2, SubSeqProperties
<1>5. QED
  BY <1>2, <1>3, <1>4, SeqEqual

\* The last entry of a prefix is the entry at its end.
LEMMA LastOfPrefix ==
    ASSUME NEW S, NEW s \in Seq(S), NEW p \in Seq(S), NEW x \in S,
           NEW n \in 1 .. Len(s), Append(p, x) = SubSeq(s, 1, n)
    PROVE  s[n] = x /\ Len(p) + 1 = n
<1>1. \A i \in 1 .. n : s[i] \in S
  BY ElementOfSeq
<1>2. /\ Len(SubSeq(s, 1, n)) = n
      /\ \A i \in 1 .. n : SubSeq(s, 1, n)[i] = s[i]
  BY <1>1, SubSeqProperties
<1>3. /\ Len(Append(p, x)) = Len(p) + 1
      /\ Append(p, x)[Len(p) + 1] = x
  BY AppendProperties
<1>4. QED
  BY <1>2, <1>3

\* A write whose conditions hold appends one entry to the chain of its
\* tenant and leaves the other chains alone.
LEMMA WriteAppends ==
    ASSUME TypeOK, NEW e \in Emissions, PutConditions(e), WriteItems(e)
    PROVE  LET t == TenantOf[e] IN
           /\ EntryOf(e) \in Entry
           /\ SignedHash(Built(e)) = Append(headHash[t], EntryOf(e))
           /\ headHash' = [headHash EXCEPT ![t] = Append(headHash[t], EntryOf(e))]
           /\ receipts' = [receipts EXCEPT ![t] = receipts[t] \cup {Built(e)}]
           /\ Len(headHash'[t]) = Len(headHash[t]) + 1
           /\ headHash'[t][Len(headHash[t]) + 1] = EntryOf(e)
           /\ SubSeq(headHash'[t], 1, Len(headHash[t]) + 1) = headHash'[t]
           /\ \A i \in 1 .. Len(headHash[t]) : headHash'[t][i] = headHash[t][i]
           /\ \A i \in 1 .. Len(headHash[t]) :
                 SubSeq(headHash'[t], 1, i) = SubSeq(headHash[t], 1, i)
           /\ \A u \in Tenants \ {t} : /\ headHash'[u] = headHash[u]
                                       /\ receipts'[u] = receipts[u]
                                       /\ markers'[u] = markers[u]
<1> DEFINE t == TenantOf[e]
           x == EntryOf(e)
           h == headHash[t]
<1>1. x \in Entry /\ h \in Seq(Entry) /\ t \in Tenants
  BY BuiltType DEF EntryOf, TypeOK, Hash
<1>2. SignedHash(Built(e)) = Append(h, x)
  BY DEF PutConditions, HeadUnmoved, SignedHash, Built, EntryOf
<1>3. headHash' = [headHash EXCEPT ![t] = Append(h, x)] /\ headHash'[t] = Append(h, x)
  BY <1>1, <1>2 DEF WriteItems, TypeOK
<1>4. receipts' = [receipts EXCEPT ![t] = receipts[t] \cup {Built(e)}]
  BY <1>1 DEF WriteItems, TypeOK
<1>5. /\ Append(h, x) \in Seq(Entry)
      /\ Len(Append(h, x)) = Len(h) + 1
      /\ Append(h, x)[Len(h) + 1] = x
      /\ \A i \in 1 .. Len(h) : Append(h, x)[i] = h[i]
  BY <1>1, AppendProperties
<1>6. SubSeq(Append(h, x), 1, Len(h) + 1) = Append(h, x)
  BY <1>5, SubSeqFull
<1>7. \A i \in 1 .. Len(h) : SubSeq(Append(h, x), 1, i) = SubSeq(h, 1, i)
  BY <1>1, PrefixOfAppend
<1>8. \A u \in Tenants \ {t} : /\ headHash'[u] = headHash[u]
                               /\ receipts'[u] = receipts[u]
                               /\ markers'[u] = markers[u]
  BY <1>1 DEF WriteItems, TypeOK
<1>9. QED
  BY <1>1, <1>2, <1>3, <1>4, <1>5, <1>6, <1>7, <1>8

\* Entry n of a chain and the stored receipt with that hash say the same.
LEMMA EntryOfReceipt ==
    ASSUME TypeOK, NEW t \in Tenants, NEW r \in receipts[t],
           NEW n \in 1 .. Len(headHash[t]),
           SignedHash(r) = SubSeq(headHash[t], 1, n)
    PROVE  headHash[t][n] = [content |-> r.content, by |-> r.by]
<1>1. r \in SignedReceipt
  BY DEF TypeOK
<1>2. r.prev \in Seq(Entry) /\ [content |-> r.content, by |-> r.by] \in Entry
  BY <1>1 DEF SignedReceipt, Hash, Entry
<1>3. headHash[t] \in Seq(Entry)
  BY DEF TypeOK, Hash
<1>4. QED
  BY <1>2, <1>3, LastOfPrefix DEF SignedHash

-----------------------------------------------------------------------------
(* The table: one unforked chain per tenant, one receipt per request.      *)

\* The two ways a step can write the table.
Writes(e) == PutConditions(e) /\ WriteItems(e)

\* A step either writes once under the conditions of put or leaves the table.
LEMMA TableStep ==
    ASSUME Next
    PROVE  (\E e \in Emissions : Writes(e) /\ pc[e] = "put") \/ UNCHANGED table
BY DEF Next, Advance, Finished, Start, ReadHead, Lookup, Sign, Commit,
       CommitUnacknowledged, ConditionFailed, ReadMarker, ResolveMarker,
       ReadReceipt, RecheckHead, Abort, Writes, vars, table

\* The write keeps the chain of every tenant intact.
LEMMA WriteChain ==
    ASSUME TypeOK, ChainIntact, NEW e \in Emissions, Writes(e)
    PROVE  ChainIntact'
<1> DEFINE t == TenantOf[e]
<1> USE DEF Writes
<1>1. SUFFICES ASSUME NEW u \in Tenants
               PROVE  /\ \A r \in receipts'[u] :
                            \E n \in 1 .. Len(headHash'[u]) :
                                SignedHash(r) = SubSeq(headHash'[u], 1, n)
                      /\ \A n \in 1 .. Len(headHash'[u]) :
                            \E r \in receipts'[u] :
                                SignedHash(r) = SubSeq(headHash'[u], 1, n)
  BY DEF ChainIntact, SignedHash
<1>2. CASE u # t
  <2>1. headHash'[u] = headHash[u] /\ receipts'[u] = receipts[u]
    BY <1>2, WriteAppends
  <2> QED
    BY <2>1 DEF ChainIntact
<1>3. CASE u = t
  <2>1. t \in Tenants /\ headHash[t] \in Seq(Entry) /\ Len(headHash[t]) \in Nat
    BY DEF TypeOK, Hash
  <2>2. /\ receipts'[t] = receipts[t] \cup {Built(e)}
        /\ Len(headHash'[t]) = Len(headHash[t]) + 1
        /\ SignedHash(Built(e)) = SubSeq(headHash'[t], 1, Len(headHash[t]) + 1)
        /\ \A i \in 1 .. Len(headHash[t]) :
              SubSeq(headHash'[t], 1, i) = SubSeq(headHash[t], 1, i)
    <3>1. receipts'[t] = receipts[t] \cup {Built(e)}
      BY <2>1 DEF WriteItems, TypeOK
    <3>2. headHash'[t] = SignedHash(Built(e))
      BY <2>1 DEF WriteItems, TypeOK
    <3>3. QED
      BY <2>1, <3>1, <3>2, WriteAppends
  <2>3. ASSUME NEW r \in receipts'[t]
        PROVE  \E n \in 1 .. Len(headHash'[t]) :
                   SignedHash(r) = SubSeq(headHash'[t], 1, n)
    <3>1. CASE r \in receipts[t]
      <4>1. PICK n \in 1 .. Len(headHash[t]) :
               SignedHash(r) = SubSeq(headHash[t], 1, n)
        BY <2>1, <3>1 DEF ChainIntact
      <4>2. n \in 1 .. Len(headHash'[t])
        BY <2>1, <2>2
      <4>3. QED
        BY <2>2, <4>1, <4>2
    <3>2. CASE r = Built(e)
      BY <2>1, <2>2, <3>2
    <3>3. QED
      BY <2>2, <2>3, <3>1, <3>2
  <2>4. ASSUME NEW n \in 1 .. Len(headHash'[t])
        PROVE  \E r \in receipts'[t] :
                   SignedHash(r) = SubSeq(headHash'[t], 1, n)
    <3>1. CASE n \in 1 .. Len(headHash[t])
      BY <2>1, <2>2, <3>1 DEF ChainIntact
    <3>2. CASE n = Len(headHash[t]) + 1
      BY <2>2, <3>2
    <3>3. QED
      BY <2>1, <2>2, <3>1, <3>2
  <2>5. QED
    BY <1>3, <2>3, <2>4
<1>4. QED
  BY <1>2, <1>3

\* The write adds the first receipt of its request, with its marker.
LEMMA WriteMarker ==
    ASSUME TypeOK, OneReceiptPerRequest, NEW e \in Emissions, Writes(e)
    PROVE  OneReceiptPerRequest'
<1> DEFINE t == TenantOf[e]
           q == RequestOf[e]
           b == Built(e)
<1> USE DEF Writes
<1>1. t \in Tenants /\ q \in Requests
  OBVIOUS
<1>2. /\ b.content = ContentOf(e) /\ b.content.req = q
      /\ b.prev = prevHash[e]
  BY DEF Built, ContentOf
<1>3. /\ markers'[t][q] = [kind |-> "marker", digest |-> ContentOf(e),
                           target |-> ReceiptId(b)]
      /\ \A p \in Requests \ {q} : markers'[t][p] = markers[t][p]
      /\ receipts'[t] = receipts[t] \cup {b}
  BY <1>1 DEF WriteItems, TypeOK
<1>4. markers'[t][q] # NoMarker
  BY <1>3 DEF NoMarker
<1>5. \A u \in Tenants \ {t} : receipts'[u] = receipts[u] /\ markers'[u] = markers[u]
  BY WriteAppends
<1>6. {r \in receipts[t] : r.content.req = q} = {}
  <2>1. markers[t][q] = NoMarker
    BY DEF PutConditions, MarkerAbsent
  <2>2. QED
    BY <1>1, <2>1 DEF OneReceiptPerRequest
<1>7. SUFFICES ASSUME NEW u \in Tenants, NEW p \in Requests
               PROVE  LET m == markers'[u][p]
                          of == {r \in receipts'[u] : r.content.req = p} IN
                      \/ m = NoMarker /\ of = {}
                      \/ \E r \in of : /\ of = {r}
                                       /\ m # NoMarker
                                       /\ m.target = ReceiptId(r)
                                       /\ m.digest = r.content
  BY DEF OneReceiptPerRequest, ReceiptId, NoMarker
<1>8. CASE u # t
  <2>1. receipts'[u] = receipts[u] /\ markers'[u] = markers[u]
    BY <1>5, <1>8
  <2>2. LET m == markers[u][p]
            of == {r \in receipts[u] : r.content.req = p} IN
        \/ m = NoMarker /\ of = {}
        \/ \E r \in of : /\ of = {r}
                         /\ m # NoMarker
                         /\ m.target = ReceiptId(r)
                         /\ m.digest = r.content
    BY DEF OneReceiptPerRequest
  <2>3. QED
    BY <2>1, <2>2
<1>9. CASE u = t /\ p # q
  <2>1. {r \in receipts'[t] : r.content.req = p} = {r \in receipts[t] : r.content.req = p}
    BY <1>2, <1>3, <1>9
  <2>2. QED
    BY <1>1, <1>3, <1>9, <2>1 DEF OneReceiptPerRequest
<1>10. CASE u = t /\ p = q
  <2>1. {r \in receipts'[t] : r.content.req = q} = {b}
    BY <1>2, <1>3, <1>6
  <2>2. QED
    BY <1>2, <1>3, <1>4, <1>10, <2>1
<1>11. QED
  BY <1>8, <1>9, <1>10

-----------------------------------------------------------------------------
(* What a step of one emission means to the others.                        *)

Step(e) == Start(e) \/ Advance(e) \/ Abort(e)

\* The locals of emission f are left alone.
Frame(f) ==
    /\ pc'[f] = pc[f] /\ attempt'[f] = attempt[f]
    /\ prevHash'[f] = prevHash[f] /\ timestamp'[f] = timestamp[f]
    /\ found'[f] = found[f] /\ result'[f] = result[f]

\* The table only grows: heads are extended, receipts and markers stay.
Grows ==
    /\ \A t \in Tenants : IsPrefixOf(headHash[t], headHash'[t])
    /\ \A t \in Tenants : receipts[t] \subseteq receipts'[t]
    /\ \A t \in Tenants, q \in Requests :
          markers[t][q] # NoMarker => markers'[t][q] = markers[t][q]

\* A step of one emission leaves the local state of the others alone.
LEMMA FrameStep ==
    ASSUME TypeOK, NEW e \in Emissions, Step(e), NEW f \in Emissions, f # e
    PROVE  Frame(f)
BY DEF TypeOK, Frame, Step, Advance, Start, ReadHead, Lookup, Sign, Commit,
       CommitUnacknowledged, ConditionFailed, ReadMarker, ResolveMarker,
       ReadReceipt, RecheckHead, Abort

\* The transactional write appends to the chain and drops no marker.
LEMMA WriteGrows ==
    ASSUME TypeOK, NEW e \in Emissions, Writes(e)
    PROVE  Grows
<1> DEFINE t == TenantOf[e]
<1>1. t \in Tenants /\ RequestOf[e] \in Requests
      /\ \A u \in Tenants : Len(headHash[u]) \in Nat
  BY LenProperties DEF TypeOK, Hash
<1>2. \A u \in Tenants : IsPrefixOf(headHash[u], headHash'[u])
  <2>1. IsPrefixOf(headHash[t], headHash'[t])
    BY <1>1, WriteAppends DEF Writes, IsPrefixOf
  <2>2. ASSUME NEW u \in Tenants, u # t
        PROVE  IsPrefixOf(headHash[u], headHash'[u])
    BY <1>1, <2>2, WriteAppends DEF Writes, IsPrefixOf
  <2>3. QED
    BY <2>1, <2>2
<1>3. \A u \in Tenants : receipts[u] \subseteq receipts'[u]
  BY <1>1 DEF Writes, WriteItems, TypeOK
<1>4. \A u \in Tenants, q \in Requests :
         markers[u][q] # NoMarker => markers'[u][q] = markers[u][q]
  BY <1>1 DEF Writes, WriteItems, TypeOK, PutConditions, MarkerAbsent
<1>5. QED
  BY <1>2, <1>3, <1>4 DEF Grows

\* No step shortens a chain or drops a marker.
LEMMA StepGrows ==
    ASSUME TypeOK, NEW e \in Emissions, Step(e)
    PROVE  Grows
<1>1. (\E f \in Emissions : Writes(f)) \/ UNCHANGED table
  BY TableStep DEF Step, Next
<1>2. CASE UNCHANGED table
  <2>1. \A u \in Tenants : Len(headHash[u]) \in Nat
    BY LenProperties DEF TypeOK, Hash
  <2>2. QED
    BY <1>2, <2>1 DEF table, Grows, IsPrefixOf
<1>3. QED
  BY <1>1, <1>2, WriteGrows

\* Emission f keeps its part of the invariant when it does not move itself.
OwnPart(f) ==
    LET t == TenantOf[f] IN
    /\ IsPrefixOf(prevHash[f], headHash[t])
    /\ pc[f] = "marker" => Behind(f) \/ markers[t][RequestOf[f]] # NoMarker
    /\ pc[f] \in {"receipt", "recheck"} => Behind(f)
    /\ pc[f] = "target" => /\ markers[t][RequestOf[f]] # NoMarker
                           /\ found[f] = markers[t][RequestOf[f]]
    /\ f \notin Pinned =>
          /\ pc[f] = "idle" => attempt[f] = 0
          /\ pc[f] = "head" => attempt[f] <= Len(headHash[t])
          /\ pc[f] \in Active \ {"head"} => attempt[f] <= Len(prevHash[f])
    /\ pc[f] = Returned => /\ result[f] \in receipts[t]
                           /\ result[f].content = ContentOf(f)
    /\ pc[f] \notin {"noTarget", "noExisting"}
    /\ pc[f] = "mismatch" => \E r \in receipts[t] :
                                 /\ r.content.req = RequestOf[f]
                                 /\ r.content # ContentOf(f)
    /\ pc[f] = "conflict" =>
          Len(headHash[t]) >= IF f \in Pinned THEN 1 ELSE MaxAttempts

\* A growing table keeps the part of the invariant about an emission that
\* does not move.
LEMMA OthersKeep ==
    ASSUME TypeOK, TypeOK', NEW f \in Emissions, OwnPart(f), Frame(f), Grows
    PROVE  OwnPart(f)'
<1> DEFINE t == TenantOf[f]
<1>1. t \in Tenants /\ RequestOf[f] \in Requests
  OBVIOUS
<1>2. Len(prevHash[f]) \in Nat /\ Len(headHash[t]) \in Nat /\ Len(headHash'[t]) \in Nat
  BY <1>1, LenProperties DEF TypeOK, Hash
<1>3. attempt[f] \in Nat
  BY DEF TypeOK
<1>4. Len(headHash[t]) <= Len(headHash'[t])
  BY <1>1 DEF Grows, IsPrefixOf
<1>5. IsPrefixOf(prevHash[f], headHash'[t])
  BY <1>1, <1>2, <1>4 DEF OwnPart, Grows, IsPrefixOf
<1>6. Behind(f) => Behind(f)'
  BY <1>2, <1>4 DEF Behind, Frame
<1>7. ContentOf(f)' = ContentOf(f)
  BY DEF ContentOf, Frame
<1>8. /\ markers[t][RequestOf[f]] # NoMarker =>
            markers'[t][RequestOf[f]] = markers[t][RequestOf[f]]
      /\ receipts[t] \subseteq receipts'[t]
  BY <1>1 DEF Grows
<1>9. f \notin Pinned => (pc[f] = "head" => attempt[f] <= Len(headHash'[t]))
  BY <1>2, <1>3, <1>4 DEF OwnPart
<1>10. pc[f] = "conflict" =>
          Len(headHash'[t]) >= IF f \in Pinned THEN 1 ELSE MaxAttempts
  BY <1>2, <1>4 DEF OwnPart
<1>11. QED
  BY <1>5, <1>6, <1>7, <1>8, <1>9, <1>10 DEF OwnPart, Frame

-----------------------------------------------------------------------------
(* An emission keeps its part of the invariant by its own steps.           *)

\* An emission's own step keeps the part of the invariant about it.
LEMMA OwnKeeps ==
    ASSUME TypeOK, TypeOK', OneReceiptPerRequest, NEW e \in Emissions,
           OwnPart(e), Step(e)
    PROVE  OwnPart(e)'
<1> DEFINE t == TenantOf[e]
           h == headHash[t]
           m == markers[t][RequestOf[e]]
<1>1. t \in Tenants /\ RequestOf[e] \in Requests
  OBVIOUS
<1>2. Len(prevHash[e]) \in Nat /\ Len(h) \in Nat /\ attempt[e] \in Nat
      /\ MaxAttempts \in Nat /\ h \in Seq(Entry) /\ prevHash[e] \in Seq(Entry)
  BY <1>1, LenProperties DEF TypeOK, Hash
\* A prefix that is not the whole chain is shorter.
<1>3. ~HeadUnmoved(e) => Behind(e)
  <2>1. SUFFICES ASSUME Len(prevHash[e]) >= Len(h) PROVE prevHash[e] = h
    BY <1>2 DEF HeadUnmoved, Behind
  <2>2. Len(prevHash[e]) = Len(h) /\ \A i \in 1 .. Len(h) : prevHash[e][i] = h[i]
    BY <1>2, <2>1 DEF OwnPart, IsPrefixOf
  <2>3. QED
    BY <1>2, <2>2, SeqEqual
<1>4. Behind(e) => ~HeadUnmoved(e)
  BY <1>2 DEF Behind, HeadUnmoved
\* A stored receipt has a marker, so a missing marker explains nothing else.
<1>5. Stored(t, ReceiptId(Built(e))) # {} => m # NoMarker
  <2>1. SUFFICES ASSUME NEW r \in Stored(t, ReceiptId(Built(e))) PROVE m # NoMarker
    OBVIOUS
  <2>2. r \in receipts[t] /\ ReceiptId(r) = ReceiptId(Built(e))
    BY DEF Stored
  <2>3. r.content = ContentOf(e) /\ r.content.req = RequestOf[e]
    BY <2>2 DEF ReceiptId, Built, ContentOf
  <2>4. QED
    BY <1>1, <2>2, <2>3 DEF OneReceiptPerRequest
<1>6. ASSUME UNCHANGED << headHash, prevHash >>
      PROVE  /\ Behind(e)' = Behind(e)
             /\ IsPrefixOf(prevHash[e], headHash[t])' = IsPrefixOf(prevHash[e], headHash[t])
  BY <1>6 DEF Behind, IsPrefixOf
<1>7. ASSUME UNCHANGED timestamp PROVE ContentOf(e)' = ContentOf(e)
  BY <1>7 DEF ContentOf
<1> USE DEF table
<1>8. CASE Start(e)
  <2>1. PICK seen \in {Null, h} : prevHash' = [prevHash EXCEPT ![e] = seen]
    BY <1>8 DEF Start
  <2>2. prevHash'[e] = seen
    BY <2>1 DEF TypeOK
  <2>3. IsPrefixOf(seen, h)
    BY <1>2, <2>1 DEF IsPrefixOf, Null
  <2>4. pc'[e] = "head" /\ headHash' = headHash /\ attempt' = attempt /\ pc[e] = "idle"
    BY <1>8 DEF Start, TypeOK
  <2>5. QED
    BY <1>2, <2>2, <2>3, <2>4 DEF OwnPart, Returned, Active
<1>9. CASE ReadHead(e)
  <2>1. IsPrefixOf(prevHash'[e], h)
    BY <1>2, <1>9 DEF ReadHead, OwnPart, IsPrefixOf, TypeOK
  <2>2. e \notin Pinned => attempt[e] <= Len(prevHash'[e])
    BY <1>9 DEF ReadHead, OwnPart, TypeOK
  <2>3. pc'[e] = "lookup" /\ headHash' = headHash /\ attempt' = attempt
    BY <1>9 DEF ReadHead, TypeOK
  <2>4. QED
    BY <2>1, <2>2, <2>3 DEF OwnPart, Returned, Active
<1>10. CASE Lookup(e)
  <2>1. \A r \in Stored(t, ReceiptId(Built(e))) :
           r \in receipts[t] /\ r.content = ContentOf(e)
    BY DEF Stored, ReceiptId, Built
  <2>2. /\ pc[e] = "lookup"
        /\ \/ pc'[e] = "sign"
           \/ pc'[e] = Returned /\ result'[e] \in receipts[t]
                                /\ result'[e].content = ContentOf(e)
        /\ UNCHANGED << headHash, prevHash, markers, receipts, attempt, timestamp >>
    BY <1>10, <2>1 DEF Lookup, TypeOK
  <2>3. QED
    BY <1>6, <1>7, <2>2 DEF OwnPart, Returned, Active
<1>11. CASE Sign(e)
  <2>1. /\ pc[e] = "sign" /\ pc'[e] = "put"
        /\ UNCHANGED << headHash, prevHash, markers, receipts, attempt, timestamp >>
    BY <1>11 DEF Sign, TypeOK
  <2>2. QED
    BY <1>6, <2>1 DEF OwnPart, Returned, Active
<1>12. CASE Commit(e) \/ CommitUnacknowledged(e)
  <2>1. Writes(e) /\ UNCHANGED << prevHash, attempt, timestamp >>
    BY <1>12 DEF Writes, Commit, CommitUnacknowledged
  <2>2. IsPrefixOf(prevHash[e], headHash[t])'
    <3>1. IsPrefixOf(h, headHash'[t])
      BY <1>1, <2>1, WriteGrows DEF Grows
    <3>2. prevHash'[e] = h
      BY <2>1 DEF Writes, PutConditions, HeadUnmoved
    <3>3. QED
      BY <3>1, <3>2
  <2>3. Built(e) \in receipts'[t] /\ Built(e).content = ContentOf(e)
    BY <1>1, <2>1 DEF Writes, WriteItems, TypeOK, Built
  <2>4. \/ pc'[e] = "error"
        \/ pc'[e] = Returned /\ result'[e] = Built(e)
    BY <1>12 DEF Commit, CommitUnacknowledged, TypeOK
  <2>5. QED
    BY <1>7, <2>1, <2>2, <2>3, <2>4 DEF OwnPart, Returned, Active
<1>13. CASE ConditionFailed(e)
  <2>1. /\ pc[e] = "put" /\ pc'[e] = "marker" /\ ~PutConditions(e)
        /\ UNCHANGED << headHash, prevHash, markers, receipts, attempt, timestamp >>
    BY <1>13 DEF ConditionFailed, TypeOK
  <2>2. Behind(e) \/ m # NoMarker
    BY <1>3, <1>5, <2>1 DEF PutConditions, ReceiptAbsent, MarkerAbsent
  <2>3. QED
    BY <1>6, <2>1, <2>2 DEF OwnPart, Returned, Active
<1>14. CASE ReadMarker(e)
  <2>1. /\ pc[e] = "marker"
        /\ \/ m # NoMarker /\ pc'[e] = "target" /\ found'[e] = m
           \/ m = NoMarker /\ pc'[e] = "receipt"
        /\ UNCHANGED << headHash, prevHash, markers, receipts, attempt, timestamp >>
    BY <1>14 DEF ReadMarker, TypeOK
  <2>2. QED
    BY <1>6, <2>1 DEF OwnPart, Returned, Active
<1>15. CASE ResolveMarker(e)
  <2>1. pc[e] = "target" /\ m # NoMarker /\ found[e] = m
    BY <1>15 DEF ResolveMarker, OwnPart
  <2>2. PICK r \in receipts[t] : /\ r.content.req = RequestOf[e]
                                 /\ m.target = ReceiptId(r)
                                 /\ m.digest = r.content
    BY <1>1, <2>1 DEF OneReceiptPerRequest
  <2>3. r \in Stored(t, m.target)
    BY <2>2 DEF Stored
  <2>4. \A s \in Stored(t, m.target) : s \in receipts[t] /\ s.content = m.digest
    BY <2>2 DEF Stored, ReceiptId
  <2>5. /\ \/ pc'[e] = "mismatch" /\ r.content # ContentOf(e)
           \/ pc'[e] = Returned /\ result'[e] \in receipts[t]
                                /\ result'[e].content = ContentOf(e)
        /\ UNCHANGED << headHash, prevHash, markers, receipts, attempt, timestamp >>
    BY <1>15, <2>1, <2>2, <2>3, <2>4 DEF ResolveMarker, TypeOK
  <2>6. QED
    BY <1>6, <1>7, <2>1, <2>2, <2>5 DEF OwnPart, Returned, Active
<1>16. CASE ReadReceipt(e)
  <2>1. \A r \in Stored(t, ReceiptId(Built(e))) :
           r \in receipts[t] /\ r.content = ContentOf(e)
    BY DEF Stored, ReceiptId, Built
  <2>2. /\ pc[e] = "receipt"
        /\ \/ pc'[e] = "recheck"
           \/ pc'[e] = Returned /\ result'[e] \in receipts[t]
                                /\ result'[e].content = ContentOf(e)
        /\ UNCHANGED << headHash, prevHash, markers, receipts, attempt, timestamp >>
    BY <1>16, <2>1 DEF ReadReceipt, TypeOK
  <2>3. QED
    BY <1>6, <1>7, <2>2 DEF OwnPart, Returned, Active
<1>17. CASE RecheckHead(e)
  <2>1. /\ pc[e] = "recheck" /\ Behind(e) /\ ~HeadUnmoved(e)
        /\ UNCHANGED << headHash, prevHash, markers, receipts, timestamp >>
    BY <1>4, <1>17 DEF RecheckHead, OwnPart
  <2>2. \/ MayRetry(e) /\ pc'[e] = "head" /\ attempt'[e] = attempt[e] + 1
        \/ ~MayRetry(e) /\ pc'[e] = "conflict" /\ attempt'[e] = attempt[e]
    BY <1>17, <2>1 DEF RecheckHead, TypeOK
  <2>3. e \notin Pinned => attempt[e] + 1 <= Len(h)
    BY <1>2, <2>1 DEF OwnPart, Behind, Active
  <2>4. ~MayRetry(e) => Len(h) >= IF e \in Pinned THEN 1 ELSE MaxAttempts
    BY <1>2, <2>1, <2>3 DEF MayRetry, Behind
  <2>5. QED
    BY <1>6, <2>1, <2>2, <2>3, <2>4 DEF OwnPart, Returned, Active
<1>18. CASE Abort(e)
  <2>1. pc'[e] = "error" /\ UNCHANGED << headHash, prevHash >>
    BY <1>18 DEF Abort, TypeOK
  <2>2. QED
    BY <1>6, <2>1 DEF OwnPart, Returned, Active
<1>19. QED
  BY <1>8, <1>9, <1>10, <1>11, <1>12, <1>13, <1>14, <1>15, <1>16, <1>17,
     <1>18 DEF Step, Advance

\* An emission that has returned or failed takes no further step, and one
\* that writes the table returns or fails in the same step.
LEMMA WriterStops ==
    ASSUME TypeOK, NEW e \in Emissions, Step(e)
    PROVE  /\ pc[e] \notin {Returned, "error"}
           /\ \/ Writes(e) /\ pc'[e] \in {Returned, "error"}
              \/ UNCHANGED table
BY DEF TypeOK, Step, Advance, Start, ReadHead, Lookup, Sign, Commit,
       CommitUnacknowledged, ConditionFailed, ReadMarker, ResolveMarker,
       ReadReceipt, RecheckHead, Abort, Writes, Returned, Active, table

\* Only an emission that is leaving its loop enters the chain.
LEMMA OwnEntriesStep ==
    ASSUME TypeOK, OwnEntries, NEW e \in Emissions, Step(e)
    PROVE  OwnEntries'
<1> SUFFICES ASSUME NEW f \in Emissions,
                    NEW n \in 1 .. Len(headHash'[TenantOf[f]]),
                    headHash'[TenantOf[f]][n].by = f
             PROVE  pc'[f] \in {Returned, "error"}
  BY DEF OwnEntries, Returned
<1> DEFINE t == TenantOf[f]
<1>1. t \in Tenants /\ Len(headHash[t]) \in Nat
  BY LenProperties DEF TypeOK, Hash
<1>2. CASE UNCHANGED table
  <2>1. pc[f] \in {Returned, "error"}
    BY <1>2 DEF OwnEntries, table
  <2>2. f # e
    BY <2>1, WriterStops
  <2>3. QED
    BY <2>1, <2>2, FrameStep DEF Frame
<1>3. CASE Writes(e) /\ pc'[e] \in {Returned, "error"}
  <2>1. CASE f = e
    BY <1>3, <2>1
  <2>2. CASE f # e
    <3>1. n \in 1 .. Len(headHash[t]) /\ headHash'[t][n] = headHash[t][n]
      <4>1. CASE t # TenantOf[e]
        BY <1>1, <1>3, <4>1, WriteAppends DEF Writes
      <4>2. CASE t = TenantOf[e]
        <5>1. /\ Len(headHash'[t]) = Len(headHash[t]) + 1
              /\ headHash'[t][Len(headHash[t]) + 1].by = e
              /\ \A i \in 1 .. Len(headHash[t]) : headHash'[t][i] = headHash[t][i]
          <6>1. headHash'[t][Len(headHash[t]) + 1] = EntryOf(e)
            BY <1>3, <4>2, WriteAppends DEF Writes
          <6>2. EntryOf(e).by = e
            BY DEF EntryOf
          <6>3. QED
            BY <1>3, <4>2, <6>1, <6>2, WriteAppends DEF Writes
        <5>2. n # Len(headHash[t]) + 1
          BY <2>2, <5>1
        <5>3. n \in 1 .. Len(headHash[t]) + 1
          BY <5>1
        <5>4. n \in 1 .. Len(headHash[t])
          BY <1>1, <5>2, <5>3
        <5>5. QED
          BY <5>1, <5>4
      <4>3. QED
        BY <4>1, <4>2
    <3>2. pc[f] \in {Returned, "error"}
      BY <3>1 DEF OwnEntries
    <3>3. QED
      BY <2>2, <3>2, FrameStep DEF Frame
  <2>3. QED
    BY <2>1, <2>2
<1>4. QED
  BY <1>2, <1>3, WriterStops

-----------------------------------------------------------------------------
(* The inductive invariant.                                                *)

\* Inv is the type invariant, the facts about the table, and one part per
\* emission: OwnPart puts it together and takes it apart.
LEMMA InvParts ==
    ASSUME TypeOK, ChainIntact, OneReceiptPerRequest, OwnEntries,
           \A f \in Emissions : OwnPart(f)
    PROVE  Inv
<1>1. Snapshots /\ Resolving /\ Attempts
  BY DEF OwnPart, Snapshots, Resolving, Attempts
<1>2. ReturnedIsDurable /\ CollisionsAreReal
  BY DEF OwnPart, ReturnedIsDurable, CollisionsAreReal
<1>3. ConflictMeansProgress
  BY DEF OwnPart, ConflictMeansProgress, OwnEntries, Returned
<1>4. QED
  BY <1>1, <1>2, <1>3 DEF Inv

\* The invariant gives every emission its part.
LEMMA InvOwnPart ==
    ASSUME Inv, NEW f \in Emissions
    PROVE  OwnPart(f)
BY DEF Inv, OwnPart, Snapshots, Resolving, Attempts, ReturnedIsDurable,
       CollisionsAreReal, ConflictMeansProgress

\* The invariant holds of the empty table.
LEMMA InvInit == Init => Inv
<1> SUFFICES ASSUME Init PROVE Inv
  OBVIOUS
<1>1. TypeOK
  BY TypeInit
<1>2. \A t \in Tenants : headHash[t] = Null /\ receipts[t] = {}
  BY DEF Init
<1>3. Len(Null) = 0
  BY DEF Null
<1>4. ChainIntact /\ OwnEntries
  BY <1>2, <1>3 DEF ChainIntact, OwnEntries
<1>5. OneReceiptPerRequest
  BY DEF Init, OneReceiptPerRequest
<1>6. ASSUME NEW f \in Emissions PROVE OwnPart(f)
  <2>1. pc[f] = "idle" /\ prevHash[f] = Null /\ attempt[f] = 0
    BY DEF Init
  <2>2. IsPrefixOf(prevHash[f], headHash[TenantOf[f]])
    BY <1>2, <2>1 DEF IsPrefixOf, Null
  <2>3. QED
    BY <2>1, <2>2 DEF OwnPart, Returned, Active
<1>7. QED
  BY <1>1, <1>4, <1>5, <1>6, InvParts

\* The invariant is inductive.
LEMMA InvStep == Inv /\ [Next]_vars => Inv'
<1> SUFFICES ASSUME Inv, [Next]_vars PROVE Inv'
  OBVIOUS
<1>1. TypeOK /\ TypeOK'
  BY TypeStep DEF Inv
<1>2. ASSUME NEW e \in Emissions, Step(e) PROVE Inv'
  <2>1. ChainIntact'
    <3>1. CASE Writes(e)
      BY <1>1, <3>1, WriteChain DEF Inv
    <3>2. CASE UNCHANGED table
      BY <3>2 DEF Inv, ChainIntact, table, SignedHash
    <3>3. QED
      BY <1>1, <1>2, <3>1, <3>2, WriterStops
  <2>2. OneReceiptPerRequest'
    <3>1. CASE Writes(e)
      BY <1>1, <3>1, WriteMarker DEF Inv
    <3>2. CASE UNCHANGED table
      BY <3>2 DEF Inv, OneReceiptPerRequest, table, ReceiptId, NoMarker
    <3>3. QED
      BY <1>1, <1>2, <3>1, <3>2, WriterStops
  <2>3. OwnEntries'
    BY <1>1, <1>2, OwnEntriesStep DEF Inv
  <2>4. ASSUME NEW f \in Emissions PROVE OwnPart(f)'
    <3>1. OwnPart(f)
      BY InvOwnPart
    <3>2. CASE f = e
      BY <1>1, <1>2, <3>1, <3>2, OwnKeeps DEF Inv
    <3>3. CASE f # e
      BY <1>1, <1>2, <3>1, <3>3, FrameStep, StepGrows, OthersKeep
    <3>4. QED
      BY <3>2, <3>3
  <2>5. QED
    <3>1. (Snapshots /\ Resolving /\ Attempts)'
      BY <2>4 DEF OwnPart, Snapshots, Resolving, Attempts
    <3>2. (ReturnedIsDurable /\ CollisionsAreReal)'
      BY <2>4 DEF OwnPart, ReturnedIsDurable, CollisionsAreReal
    <3>3. ConflictMeansProgress'
      BY <2>3, <2>4 DEF OwnPart, ConflictMeansProgress, OwnEntries, Returned
    <3>4. QED
      BY <1>1, <2>1, <2>2, <2>3, <3>1, <3>2, <3>3 DEF Inv
<1>3. CASE UNCHANGED vars
  <2>1. (Snapshots /\ Attempts /\ OwnEntries)'
    BY <1>3 DEF Inv, Snapshots, Attempts, OwnEntries, IsPrefixOf, vars
  <2>2. Resolving'
    BY <1>3 DEF Inv, Resolving, Behind, vars
  <2>3. ChainIntact'
    BY <1>3 DEF Inv, ChainIntact, vars
  <2>4. OneReceiptPerRequest'
    BY <1>3 DEF Inv, OneReceiptPerRequest, vars
  <2>5. (ReturnedIsDurable /\ CollisionsAreReal)'
    BY <1>3 DEF Inv, ReturnedIsDurable, CollisionsAreReal, ContentOf, vars
  <2>6. ConflictMeansProgress'
    BY <1>3 DEF Inv, ConflictMeansProgress, vars
  <2>7. QED
    BY <1>1, <2>1, <2>2, <2>3, <2>4, <2>5, <2>6 DEF Inv
<1>4. QED
  BY <1>2, <1>3 DEF Next, Step, Finished

\* Every reachable state of the receipt store satisfies Inv.
THEOREM InvCorrect == Spec => []Inv
<1>1. QED
  BY InvInit, InvStep, PTL DEF Spec

\* The stored receipts of every tenant are one unforked chain ending at the
\* chain head, however emissions interleave, fail or lose answers.
THEOREM ChainIntactAlways == Spec => []ChainIntact
<1>1. Inv => ChainIntact
  BY DEF Inv
<1>2. QED
  BY <1>1, InvCorrect, PTL

\* No request id ever has two receipts, and its marker is never wrong.
THEOREM OneReceiptPerRequestAlways == Spec => []OneReceiptPerRequest
<1>1. Inv => OneReceiptPerRequest
  BY DEF Inv
<1>2. QED
  BY <1>1, InvCorrect, PTL

\* What emit returns is stored and has the content it was called with.
THEOREM ReturnedIsDurableAlways == Spec => []ReturnedIsDurable
<1>1. Inv => ReturnedIsDurable
  BY DEF Inv
<1>2. QED
  BY <1>1, InvCorrect, PTL

\* The collision resolution of put never reports a collision that is none.
THEOREM CollisionsAreRealAlways == Spec => []CollisionsAreReal
<1>1. Inv => CollisionsAreReal
  BY DEF Inv
<1>2. QED
  BY <1>1, InvCorrect, PTL

\* emit gives up only to the progress of others.
THEOREM ConflictMeansProgressAlways == Spec => []ConflictMeansProgress
<1>1. Inv => ConflictMeansProgress
  BY DEF Inv
<1>2. QED
  BY <1>1, InvCorrect, PTL

-----------------------------------------------------------------------------
(* The receipt store implements ReceiptLog.                                *)

Answers == [f \in Emissions |-> AnswerOf(pc[f])]

\* Only the answer of the emission that moves can change.
LEMMA AnswerStep ==
    ASSUME TypeOK, TypeOK', NEW e \in Emissions, Step(e)
    PROVE  /\ Answers' = [Answers EXCEPT ![e] = AnswerOf(pc'[e])]
           /\ Answers[e] = "pending"
<1>1. \A f \in Emissions \ {e} : pc'[f] = pc[f]
  BY FrameStep DEF Frame
<1>2. Answers' = [f \in Emissions |-> AnswerOf(pc'[f])]
  BY DEF Answers
<1>3. Answers' = [Answers EXCEPT ![e] = AnswerOf(pc'[e])]
  BY <1>1, <1>2 DEF Answers
<1>4. pc[e] \in {"idle"} \cup Active
  BY DEF Step, Advance, Start, ReadHead, Lookup, Sign, Commit,
         CommitUnacknowledged, ConditionFailed, ReadMarker, ResolveMarker,
         ReadReceipt, RecheckHead, Abort, Active
<1>5. Answers[e] = "pending"
  BY <1>4 DEF Answers, AnswerOf, Active, Returned, Failed
<1>6. QED
  BY <1>3, <1>5

\* Every step of the store is a step of the log or leaves the log as it is.
LEMMA LogStep ==
    ASSUME Inv, Inv', NEW e \in Emissions, Step(e)
    PROVE  Log!LogNext \/ UNCHANGED Log!logVars
<1> DEFINE t == TenantOf[e]
<1>1. TypeOK /\ TypeOK' /\ t \in Tenants /\ headHash[t] \in Seq(Entry)
      /\ Len(headHash[t]) \in Nat
  BY LenProperties DEF Inv, TypeOK, Hash
<1>2. /\ Answers' = [Answers EXCEPT ![e] = AnswerOf(pc'[e])]
      /\ Answers[e] = "pending"
  BY <1>1, AnswerStep
<1>3. CASE Writes(e) /\ pc'[e] \in {Returned, "error"}
  <2>1. AnswerOf(pc'[e]) \in {"receipt", "failure"}
    BY <1>3 DEF AnswerOf, Returned, Failed
  <2>2. ~Log!Recorded(t, RequestOf[e])
    <3>1. SUFFICES ASSUME NEW n \in 1 .. Len(headHash[t]),
                          headHash[t][n].content.req = RequestOf[e]
                   PROVE  FALSE
      BY DEF Log!Recorded
    <3>2. PICK r \in receipts[t] : SignedHash(r) = SubSeq(headHash[t], 1, n)
      BY <1>1 DEF Inv, ChainIntact
    <3>3. headHash[t][n] = [content |-> r.content, by |-> r.by]
      BY <1>1, <3>2, EntryOfReceipt
    <3>4. r.content.req = RequestOf[e]
      BY <3>1, <3>3
    <3>5. markers[t][RequestOf[e]] = NoMarker
      BY <1>3 DEF Writes, PutConditions, MarkerAbsent
    <3>6. QED
      BY <1>1, <3>4, <3>5 DEF Inv, OneReceiptPerRequest
  <2>3. /\ Len(headHash'[t]) = Len(headHash[t]) + 1
        /\ headHash'[t][Len(headHash[t]) + 1] = EntryOf(e)
        /\ headHash' = [headHash EXCEPT ![t] = Append(headHash[t], EntryOf(e))]
    BY <1>1, <1>3, WriteAppends DEF Writes
  <2>4. /\ EntryOf(e).by = e
        /\ EntryOf(e).content.req = RequestOf[e]
        /\ EntryOf(e).content.body = BodyOf[e]
    BY DEF EntryOf, ContentOf
  <2>5. Log!Record(e)
    BY <1>2, <2>1, <2>2, <2>3, <2>4 DEF Log!Record, Answers
  <2>6. QED
    BY <2>5 DEF Log!LogNext
<1>4. CASE UNCHANGED table
  <2>1. headHash' = headHash /\ receipts' = receipts
    BY <1>4 DEF table
  <2>2. CASE pc'[e] = Returned
    <3>1. result'[e] \in receipts[t] /\ result'[e].content = ContentOf(e)'
      BY <2>1, <2>2 DEF Inv, ReturnedIsDurable
    <3>2. PICK r \in receipts[t] : r = result'[e]
      BY <3>1
    <3>3. PICK n \in 1 .. Len(headHash[t]) :
             SignedHash(r) = SubSeq(headHash[t], 1, n)
      BY <1>1 DEF Inv, ChainIntact
    <3>4. headHash[t][n] = [content |-> r.content, by |-> r.by]
      BY <1>1, <3>3, EntryOfReceipt
    <3>5. /\ r.content.req = RequestOf[e]
          /\ r.content.body = BodyOf[e]
      BY <3>1, <3>2 DEF ContentOf
    <3>6. Log!Receipted(e)
      BY <3>4, <3>5 DEF Log!Receipted
    <3>7. AnswerOf(pc'[e]) = "receipt"
      BY <2>2 DEF AnswerOf
    <3>8. Log!Acknowledge(e)
      BY <1>2, <2>1, <3>6, <3>7 DEF Log!Acknowledge, Answers
    <3>9. QED
      BY <3>8 DEF Log!LogNext
  <2>3. CASE pc'[e] \in Failed
    <3>1. AnswerOf(pc'[e]) = "failure"
      BY <2>3 DEF AnswerOf, Failed, Returned
    <3>2. Log!Refuse(e)
      BY <1>2, <2>1, <3>1 DEF Log!Refuse, Answers
    <3>3. QED
      BY <3>2 DEF Log!LogNext
  <2>4. CASE pc'[e] # Returned /\ pc'[e] \notin Failed
    <3>1. AnswerOf(pc'[e]) = Answers[e]
      BY <1>2, <2>4 DEF AnswerOf
    <3>2. Answers' = [Answers EXCEPT ![e] = Answers[e]]
      BY <1>2, <3>1
    <3>3. Answers' = Answers
      BY <3>2 DEF Answers
    <3>4. QED
      BY <2>1, <3>3 DEF Log!logVars, Answers
  <2>5. QED
    BY <2>2, <2>3, <2>4
<1>5. QED
  BY <1>1, <1>3, <1>4, WriterStops

\* The emitters and the three-item table implement the append-only log with
\* exactly-once requests of ReceiptLog.
THEOREM Refinement == Spec => ImplementsLog
<1>1. Init => Log!LogInit
  BY DEF Init, Log!LogInit, AnswerOf, Returned, Failed, Null
<1>2. Inv /\ Inv' /\ [Next]_vars => [Log!LogNext]_(Log!logVars)
  <2> SUFFICES ASSUME Inv, Inv', [Next]_vars
               PROVE  Log!LogNext \/ UNCHANGED Log!logVars
    OBVIOUS
  <2>1. CASE UNCHANGED vars
    BY <2>1 DEF vars, Log!logVars
  <2>2. ASSUME NEW e \in Emissions, Step(e)
        PROVE  Log!LogNext \/ UNCHANGED Log!logVars
    BY <2>2, LogStep
  <2>3. QED
    BY <2>1, <2>2 DEF Next, Step, Finished
<1>3. QED
  BY <1>1, <1>2, InvCorrect, PTL DEF Spec, ImplementsLog, Log!LogSpec
-----------------------------------------------------------------------------
(* The table only grows, and an answer is final.                           *)

\* No step, of whatever emission, takes a receipt, a marker or the prefix of
\* a chain back, and an emission that has returned or failed keeps its
\* outcome and its receipt for good (repository.put, emit).
THEOREM TableOnlyGrows ==
    Spec => [][/\ Grows
               /\ \A e \in Emissions : pc[e] \in Outcomes => Frame(e)]_vars
<1> DEFINE A == /\ Grows
                /\ \A e \in Emissions : pc[e] \in Outcomes => Frame(e)
<1>1. TypeOK /\ [Next]_vars => [A]_vars
  <2> SUFFICES ASSUME TypeOK, Next PROVE A \/ UNCHANGED vars
    OBVIOUS
  <2>1. ASSUME NEW e \in Emissions, Step(e) PROVE A
    <3>1. Grows
      BY <2>1, StepGrows
    <3>2. pc[e] \notin Outcomes
      BY <2>1 DEF Step, Advance, Start, ReadHead, Lookup, Sign, Commit,
             CommitUnacknowledged, ConditionFailed, ReadMarker, ResolveMarker,
             ReadReceipt, RecheckHead, Abort, Active, Outcomes, Returned, Failed
    <3>3. \A f \in Emissions : pc[f] \in Outcomes => Frame(f)
      BY <2>1, <3>2, FrameStep
    <3> QED
      BY <3>1, <3>3
  <2> QED
    BY <2>1 DEF Next, Step, Finished
<1> QED
  BY <1>1, TypeCorrect, PTL DEF Spec

-----------------------------------------------------------------------------
(* The receipt store gives its callers the interface of ReceiptStore.      *)

Keys == {requestKey[e] : e \in Emissions}
Contents == [k \in Keys |-> ContentFor(k)]
Holdings == [e \in Emissions |-> HeldBy(e)]

\* The key of an emission is its tenant and its request.
LEMMA KeyParts ==
    ASSUME NEW e \in Emissions
    PROVE  /\ requestKey[e] \in Keys
           /\ requestKey[e][1] = TenantOf[e] /\ requestKey[e][2] = RequestOf[e]
           /\ TenantOf[e] \in Tenants /\ RequestOf[e] \in Requests
BY ReceiptChainAssumption DEF requestKey, Keys

\* The receipt of a request is what the table records for it.
LEMMA ContentOfReceipt ==
    ASSUME OneReceiptPerRequest, NEW e \in Emissions,
           NEW r \in receipts[TenantOf[e]], r.content.req = RequestOf[e]
    PROVE  ContentFor(requestKey[e]) = r.content
<1> DEFINE k == requestKey[e]
           of == {s \in receipts[TenantOf[e]] : s.content.req = RequestOf[e]}
<1>1. ReceiptsFor(k) = of
  BY KeyParts DEF ReceiptsFor
<1>2. r \in of
  OBVIOUS
<1>3. of = {r}
  <2>1. \/ of = {}
        \/ \E s \in of : of = {s}
    BY KeyParts DEF OneReceiptPerRequest
  <2> HIDE DEF of
  <2> QED
    BY <1>2, <2>1
<1> HIDE DEF of
<1>4. (CHOOSE s \in {r} : TRUE) = r
  OBVIOUS
<1>5. ReceiptsFor(k) = {r}
  BY <1>1, <1>3
<1> QED
  BY <1>4, <1>5 DEF ContentFor

\* Signed content is neither of the two ways of having none.
LEMMA ContentIsSome ==
    ASSUME NEW e \in Emissions
    PROVE  ContentOf(e) # NoReceipt /\ ContentOf(e)' # NoReceipt
<1>1. DOMAIN ContentOf(e) = {"req", "body", "ts"}
      /\ DOMAIN ContentOf(e)' = {"req", "body", "ts"}
  BY DEF ContentOf
<1>2. DOMAIN NoReceipt = {"kind"}
  BY DEF NoReceipt
<1> QED
  BY <1>1, <1>2

\* The write records the content of the emission for its request, which had
\* none, and leaves every other request alone.
LEMMA WriteRecords ==
    ASSUME Inv, Inv', NEW e \in Emissions, Writes(e),
           ContentOf(e)' = ContentOf(e)
    PROVE  LET k == requestKey[e] IN
           /\ Contents[k] = NoReceipt
           /\ Contents'[k] = ContentOf(e)
           /\ Contents' = [Contents EXCEPT ![k] = Contents'[k]]
<1> DEFINE k == requestKey[e]
           t == TenantOf[e]
<1>1. /\ k \in Keys /\ k[1] = t /\ k[2] = RequestOf[e]
      /\ t \in Tenants /\ RequestOf[e] \in Requests
  BY KeyParts
<1>2. /\ receipts'[t] = receipts[t] \cup {Built(e)}
      /\ \A u \in Tenants \ {t} : receipts'[u] = receipts[u]
  <2>1. /\ receipts \in [Tenants -> SUBSET SignedReceipt]
        /\ receipts' = [receipts EXCEPT ![t] = receipts[t] \cup {Built(e)}]
    BY DEF Inv, TypeOK, Writes, WriteItems
  <2> QED
    BY <1>1, <2>1
<1>3. ReceiptsFor(k) = {}
  <2>1. markers[t][RequestOf[e]] = NoMarker
    BY DEF Writes, PutConditions, MarkerAbsent
  <2>2. {s \in receipts[t] : s.content.req = RequestOf[e]} = {}
    BY <1>1, <2>1 DEF Inv, OneReceiptPerRequest
  <2> QED
    BY <1>1, <2>2 DEF ReceiptsFor
<1>4. ContentFor(k) = NoReceipt
  BY <1>3 DEF ContentFor
<1>5. Built(e).content = ContentOf(e) /\ Built(e).content.req = RequestOf[e]
  BY DEF Built, ContentOf
<1>6. ReceiptsFor(k)' = {Built(e)}
  BY <1>1, <1>2, <1>3, <1>5 DEF ReceiptsFor
<1>7. ContentFor(k)' = ContentOf(e)
  <2>1. (CHOOSE s \in {Built(e)} : TRUE) = Built(e)
    OBVIOUS
  <2> QED
    BY <1>5, <1>6, <2>1 DEF ContentFor
<1>8. ASSUME NEW j \in Keys, j # k PROVE ContentFor(j)' = ContentFor(j)
  <2>1. PICK f \in Emissions : j = requestKey[f]
    BY DEF Keys
  <2>2. /\ j[1] = TenantOf[f] /\ j[2] = RequestOf[f] /\ TenantOf[f] \in Tenants
        /\ j = << TenantOf[f], RequestOf[f] >>
    BY <2>1, KeyParts DEF requestKey
  <2>3. k = << t, RequestOf[e] >>
    BY DEF requestKey
  <2>4. ReceiptsFor(j)' = ReceiptsFor(j)
    <3>1. CASE TenantOf[f] = t
      <4>1. RequestOf[f] # RequestOf[e]
        BY <1>8, <2>2, <2>3, <3>1
      <4> QED
        BY <1>2, <1>5, <2>2, <3>1, <4>1 DEF ReceiptsFor
    <3>2. CASE TenantOf[f] # t
      BY <1>2, <2>2, <3>2 DEF ReceiptsFor
    <3> QED
      BY <3>1, <3>2
  <2> QED
    BY <2>4 DEF ContentFor
<1>9. Contents' = [j \in Keys |-> ContentFor(j)']
  BY DEF Contents, Keys, requestKey
<1>10. Contents[k] = NoReceipt /\ Contents'[k] = ContentOf(e)
  BY <1>1, <1>4, <1>7, <1>9 DEF Contents
<1>11. Contents' = [Contents EXCEPT ![k] = Contents'[k]]
  <2>1. \A j \in Keys : Contents'[j] = IF j = k THEN Contents'[k] ELSE Contents[j]
    BY <1>8, <1>9 DEF Contents
  <2> QED
    BY <1>9, <2>1 DEF Contents
<1> QED
  BY <1>10, <1>11

\* Only what the emission that moves is holding can change, and it was
\* holding nothing.
LEMMA HoldingStep ==
    ASSUME TypeOK, NEW e \in Emissions, Step(e)
    PROVE  /\ Holdings[e] = NoReceipt
           /\ Holdings' = [Holdings EXCEPT ![e] = HeldBy(e)']
           /\ pc'[e] \in Outcomes => ContentOf(e)' = ContentOf(e)
<1>1. ASSUME NEW f \in Emissions, f # e PROVE HeldBy(f)' = HeldBy(f)
  <2>1. pc'[f] = pc[f] /\ timestamp'[f] = timestamp[f]
    BY <1>1, FrameStep DEF Frame
  <2> QED
    BY <2>1 DEF HeldBy, ContentOf
<1>2. Holdings' = [f \in Emissions |-> HeldBy(f)']
  BY DEF Holdings
<1>3. Holdings' = [Holdings EXCEPT ![e] = HeldBy(e)']
  BY <1>1, <1>2 DEF Holdings
<1>4. pc[e] \in {"idle"} \cup Active
  BY DEF Step, Advance, Start, ReadHead, Lookup, Sign, Commit,
         CommitUnacknowledged, ConditionFailed, ReadMarker, ResolveMarker,
         ReadReceipt, RecheckHead, Abort, Active
<1>5. Holdings[e] = NoReceipt
  BY <1>4 DEF Holdings, HeldBy, Active, Returned, Failed
<1>6. ASSUME pc'[e] \in Outcomes PROVE ContentOf(e)' = ContentOf(e)
  <2>1. CASE Start(e)
    <3>1. pc'[e] = "head"
      BY <2>1 DEF Start, TypeOK
    <3> QED
      BY <1>6, <3>1 DEF Outcomes, Returned, Failed
  <2>2. CASE Advance(e) \/ Abort(e)
    <3>1. timestamp' = timestamp
      BY <2>2 DEF Advance, ReadHead, Lookup, Sign, Commit,
             CommitUnacknowledged, ConditionFailed, ReadMarker, ResolveMarker,
             ReadReceipt, RecheckHead, Abort
    <3> QED
      BY <3>1 DEF ContentOf
  <2> QED
    BY <2>1, <2>2 DEF Step
<1> QED
  BY <1>3, <1>5, <1>6

\* Every step of an emission is a step of the interface or invisible in it.
LEMMA StoreStep ==
    ASSUME Inv, Inv', NEW e \in Emissions, Step(e)
    PROVE  Store!StoreNext \/ UNCHANGED Store!storeVars
<1> DEFINE k == requestKey[e]
           Lost == [kind |-> "lost"]
<1>1. TypeOK /\ k \in Keys
  BY KeyParts DEF Inv
<1>2. /\ Holdings[e] = NoReceipt
      /\ Holdings' = [Holdings EXCEPT ![e] = HeldBy(e)']
      /\ pc'[e] \in Outcomes => ContentOf(e)' = ContentOf(e)
  BY <1>1, HoldingStep
<1>3. /\ pc'[e] = Returned => HeldBy(e)' = ContentOf(e)'
      /\ pc'[e] \in Failed => HeldBy(e)' = Lost
      /\ pc'[e] \notin Outcomes => HeldBy(e)' = NoReceipt
  BY DEF HeldBy, Returned, Failed, Outcomes
<1>4. /\ Contents' = [Contents EXCEPT ![k] = Contents'[k]]
      /\ Contents[k] \in {NoReceipt, Contents'[k]}
      /\ pc'[e] \notin Outcomes => Contents' = Contents
      /\ pc'[e] = Returned => Contents'[k] = ContentOf(e)'
  <2>1. CASE Writes(e) /\ pc'[e] \in {Returned, "error"}
    <3>1. pc'[e] \in Outcomes
      BY <2>1 DEF Outcomes, Failed
    <3>2. /\ Contents[k] = NoReceipt
          /\ Contents'[k] = ContentOf(e)
          /\ Contents' = [Contents EXCEPT ![k] = Contents'[k]]
      BY <1>2, <2>1, <3>1, WriteRecords
    <3> QED
      BY <1>2, <3>1, <3>2
  <2>2. CASE UNCHANGED table
    <3>1. receipts' = receipts
      BY <2>2 DEF table
    <3>2. Contents' = Contents
      BY <3>1 DEF Contents, ContentFor, ReceiptsFor
    <3>3. Contents' = [Contents EXCEPT ![k] = Contents'[k]]
      BY <1>1, <3>2 DEF Contents
    <3>4. ASSUME pc'[e] = Returned PROVE Contents'[k] = ContentOf(e)'
      <4>1. /\ result'[e] \in receipts[TenantOf[e]]
            /\ result'[e].content = ContentOf(e)'
        BY <3>1, <3>4 DEF Inv, ReturnedIsDurable
      <4>2. result'[e].content.req = RequestOf[e]
        BY <4>1 DEF ContentOf
      <4>3. ContentFor(k) = result'[e].content
        BY <4>1, <4>2, ContentOfReceipt DEF Inv
      <4> QED
        BY <1>1, <3>2, <4>1, <4>3 DEF Contents
    <3> QED
      BY <3>2, <3>3, <3>4
  <2> QED
    BY <1>1, <2>1, <2>2, WriterStops
<1>5. Store!MayRecord(e)
  BY <1>4 DEF Store!MayRecord, Store!None, Contents, Keys, NoReceipt
<1>6. CASE pc'[e] = Returned
  <2>1. Contents'[k] # NoReceipt /\ HeldBy(e)' = Contents'[k]
    BY <1>3, <1>4, <1>6, ContentIsSome
  <2>2. Store!Return(e)
    BY <1>2, <1>5, <2>1
       DEF Store!Return, Store!None, Contents, Keys, Holdings, NoReceipt
  <2> QED
    BY <2>2 DEF Store!StoreNext
<1>7. CASE pc'[e] \in Failed
  <2>1. Store!Fail(e)
    BY <1>2, <1>3, <1>5, <1>7
       DEF Store!Fail, Store!None, Store!Lost, Holdings, NoReceipt
  <2> QED
    BY <2>1 DEF Store!StoreNext
<1>8. CASE pc'[e] \notin Outcomes
  <2>1. Holdings' = Holdings
    BY <1>2, <1>3, <1>8 DEF Holdings
  <2> QED
    BY <1>4, <1>8, <2>1 DEF Store!storeVars, Contents, Keys, Holdings
<1> QED
  BY <1>6, <1>7, <1>8 DEF Outcomes

\* emit gives its callers the interface of ReceiptStore, which is how
\* GovernedInvoke uses it: for any emissions and interleavings the first
\* content of a request stays, and only that content is ever acknowledged.
THEOREM StoreRefinement == Spec => ImplementsStore
<1>1. Init => Store!StoreInit
  <2> SUFFICES ASSUME Init PROVE Store!StoreInit
    OBVIOUS
  <2>1. ASSUME NEW k \in Keys PROVE ContentFor(k) = NoReceipt
    <3>1. PICK e \in Emissions : k = requestKey[e]
      BY <2>1 DEF Keys
    <3>2. receipts[k[1]] = {}
      BY <3>1, KeyParts DEF Init
    <3> QED
      BY <3>2 DEF ContentFor, ReceiptsFor
  <2>2. ASSUME NEW e \in Emissions PROVE HeldBy(e) = NoReceipt
    BY DEF Init, HeldBy, Returned, Failed
  <2> QED
    BY <2>1, <2>2 DEF Store!StoreInit, Store!None, Keys, NoReceipt
<1>2. Inv /\ Inv' /\ [Next]_vars => [Store!StoreNext]_(Store!storeVars)
  <2> SUFFICES ASSUME Inv, Inv', [Next]_vars
               PROVE  Store!StoreNext \/ UNCHANGED Store!storeVars
    OBVIOUS
  <2>1. CASE UNCHANGED vars
    <3>1. receipts' = receipts /\ pc' = pc /\ timestamp' = timestamp
      BY <2>1 DEF vars
    <3>2. Contents' = Contents /\ Holdings' = Holdings
      BY <3>1 DEF Contents, ContentFor, ReceiptsFor, Holdings, HeldBy, ContentOf
    <3> QED
      BY <3>2 DEF Store!storeVars, Contents, Keys, Holdings
  <2>2. ASSUME NEW e \in Emissions, Step(e)
        PROVE  Store!StoreNext \/ UNCHANGED Store!storeVars
    BY <2>2, StoreStep
  <2>3. QED
    BY <2>1, <2>2 DEF Next, Step, Finished
<1>3. QED
  BY <1>1, <1>2, InvCorrect, PTL DEF Spec, ImplementsStore, Store!StoreSpec
=============================================================================
