---------------------- MODULE ReceiptVerifiersProofs ----------------------
(***************************************************************************)
(* Proofs about ReceiptVerifiers, for any keys, bodies and number of       *)
(* alterations.  The inductive invariant says what a signer writes         *)
(* (AsSigned) and that the signature of the copy under examination, however *)
(* it was pieced together, was made for some receipt (Borrowed).           *)
(***************************************************************************)
EXTENDS ReceiptVerifiers, TLAPS

\* A receipt as signDecisionReceipt leaves it.
Pristine(m) ==
  /\ m \in Receipt
  /\ m.unsigned.id = m.unsigned.content
  /\ m.unsigned.content.extra = FALSE /\ m.unsigned.content.omitted = FALSE
  /\ validBody(m.unsigned.content.body)
  /\ m.unsigned.content.alg = algorithmOf(m.env.sig.by)
  /\ m.env.alg = m.unsigned.content.alg
  /\ m.env.digest = m.unsigned
  /\ m.env.sig.over = m.unsigned
  /\ m.env.exact = TRUE /\ m.env.text = "canonical"
  /\ m.env.keyId.key = m.env.sig.by
  /\ m.env.keyId.form = IF m.env.sig.by = DevSecret THEN "name" ELSE "arn"
  /\ m.env.sig.treatment = "hmac" <=> m.env.sig.by = DevSecret

AsSigned == \A m \in made : Pristine(m)

Borrowed == held # None => \E m \in made : held.env.sig = m.env.sig

Inv == TypeOK /\ AsSigned /\ Borrowed

-----------------------------------------------------------------------------
\* What the signer writes is pristine (signer.ts:200).
LEMMA SignedIsPristine ==
  ASSUME now \in 0 .. MaxTime,
         NEW k \in Keys, NEW b \in Bodies, validBody(b),
         NEW f, NEW t \in Treatment,
         [key |-> k, form |-> f] \in KeyId,
         f = IF k = DevSecret THEN "name" ELSE "arn",
         t = "hmac" <=> k = DevSecret
  PROVE  Pristine(signDecisionReceipt(k, b, f, t))
<1> DEFINE c == [body |-> b, time |-> now, alg |-> algorithmOf(k), extra |-> FALSE, omitted |-> FALSE]
           u == [content |-> c, id |-> c]
           s == [by |-> k, over |-> u, treatment |-> t]
           e == [keyId |-> [key |-> k, form |-> f], alg |-> algorithmOf(k), digest |-> u,
                 sig |-> s, text |-> "canonical", exact |-> TRUE]
<1>1. algorithmOf(k) \in Alg
  BY DEF algorithmOf, Alg
<1>2. c \in Content
  BY <1>1 DEF Content
<1>3. u \in Unsigned
  BY <1>2 DEF Unsigned
<1>4. s \in Signature
  BY <1>3 DEF Signature
<1>5. e \in Envelope
  BY <1>1, <1>3, <1>4 DEF Envelope, Text
<1>6. signDecisionReceipt(k, b, f, t) = [unsigned |-> u, env |-> e]
  BY DEF signDecisionReceipt, receiptId
<1>7. [unsigned |-> u, env |-> e] \in Receipt
  BY <1>3, <1>5 DEF Receipt
<1> DEFINE r == [unsigned |-> u, env |-> e]
<1>8. /\ r.unsigned = u /\ r.env = e /\ u.id = c /\ u.content = c
      /\ c.extra = FALSE /\ c.omitted = FALSE /\ c.body = b /\ c.alg = algorithmOf(k)
  OBVIOUS
<1>9. /\ e.sig = s /\ e.alg = algorithmOf(k) /\ e.digest = u /\ e.exact = TRUE
      /\ e.text = "canonical" /\ e.keyId.key = k /\ e.keyId.form = f
      /\ s.by = k /\ s.over = u /\ s.treatment = t
  OBVIOUS
<1> HIDE DEF r, e, s, u, c
<1>10. Pristine(r)
  BY <1>7, <1>8, <1>9 DEF Pristine, r
<1> QED
  BY <1>6, <1>10 DEF r

\* Filling in defaults stays within the type of an unsigned receipt.
LEMMA FilledType ==
  ASSUME NEW u \in Unsigned
  PROVE  filled(u) \in Unsigned
BY DEF filled, Unsigned, Content

\* A rewritten receipt is still one.
LEMMA RewrittenType ==
  ASSUME NEW u \in Unsigned, NEW v \in rewritten(u)
  PROVE  v \in Unsigned
<1>1. filled(u) \in Unsigned
  BY FilledType
<1>2. u.content \in Content /\ u.id \in Content /\ filled(u).content \in Content
  BY <1>1 DEF Unsigned
<1>3. ASSUME NEW b \in Bodies, NEW t \in 0 .. MaxTime, NEW a \in Alg, NEW x \in BOOLEAN, NEW y \in BOOLEAN
      PROVE  content(b, t, a, x, y) \in Content
  BY DEF content, Content
<1>4. /\ u.content.body \in Bodies /\ u.content.time \in 0 .. MaxTime /\ u.content.alg \in Alg
      /\ u.content.extra \in BOOLEAN /\ u.content.omitted \in BOOLEAN
  BY <1>2 DEF Content
<1>5. \/ \E d \in Content : v = [content |-> d, id |-> u.id]
      \/ \E d \in Content : v = [content |-> u.content, id |-> d]
  BY <1>2, <1>3, <1>4 DEF rewritten, receiptId
<1> QED
  BY <1>2, <1>5 DEF Unsigned

\* A relabelled envelope is one, with its own signature or a made one.
LEMMA RelabelledType ==
  ASSUME NEW u \in Unsigned, NEW e \in Envelope, made \in SUBSET Receipt, NEW d \in relabelled(e, u)
  PROVE  d \in Envelope /\ (d.sig = e.sig \/ \E m \in made : d.sig = m.env.sig)
<1>1. filled(u) \in Unsigned
  BY FilledType
<1>2. /\ e.keyId \in KeyId /\ e.alg \in Alg /\ e.digest \in Unsigned /\ e.sig \in Signature
      /\ e.text \in Text /\ e.exact \in BOOLEAN
  BY DEF Envelope
<1>3. ASSUME NEW m \in made PROVE m.env.sig \in Signature
  BY DEF Receipt, Envelope
<1>4. ASSUME NEW k \in KeyId, NEW a \in Alg, NEW g \in Unsigned, NEW s \in Signature, NEW t \in Text,
             NEW x \in BOOLEAN
      PROVE  envelope(k, a, g, s, t, x) \in Envelope /\ envelope(k, a, g, s, t, x).sig = s
  BY DEF envelope, Envelope
<1>5. CASE \E k \in KeyId : d = envelope(k, e.alg, e.digest, e.sig, e.text, e.exact)
  BY <1>2, <1>4, <1>5
<1>6. CASE \E a \in Alg : d = envelope(e.keyId, a, e.digest, e.sig, e.text, e.exact)
  BY <1>2, <1>4, <1>6
<1>7. CASE \E g \in {u, filled(u)} : d = envelope(e.keyId, e.alg, g, e.sig, e.text, e.exact)
  BY <1>1, <1>2, <1>4, <1>7
<1>8. CASE \E m \in made : d = envelope(e.keyId, e.alg, e.digest, m.env.sig, e.text, e.exact)
  BY <1>2, <1>3, <1>4, <1>8
<1>9. CASE \E t \in Text : d = envelope(e.keyId, e.alg, e.digest, e.sig, t, e.exact)
  BY <1>2, <1>4, <1>9
<1>10. CASE \E x \in BOOLEAN : d = envelope(e.keyId, e.alg, e.digest, e.sig, e.text, x)
  BY <1>2, <1>4, <1>10
<1> QED
  BY <1>5, <1>6, <1>7, <1>8, <1>9, <1>10 DEF relabelled

-----------------------------------------------------------------------------
\* Every initial state satisfies the invariant.
LEMMA InvInit == Init => Inv
<1> SUFFICES ASSUME Init PROVE Inv
  OBVIOUS
<1>1. [alg |-> "KMS", from |-> 0, until |-> None, status |-> "ACTIVE", revokedAt |-> None] \in Entry
  BY BoundsAssumption DEF Entry, Alg
<1>2. manifest \in [KeyId -> Entry \cup {None}]
  BY <1>1 DEF Init
<1> QED
  BY <1>2, BoundsAssumption DEF Init, Inv, TypeOK, AsSigned, Borrowed

\* Every step preserves the invariant.
LEMMA InvNext == Inv /\ [Next]_vars => Inv'
<1> SUFFICES ASSUME Inv, [Next]_vars PROVE Inv'
  OBVIOUS
<1> USE DEF Inv
<1>1. ASSUME NEW k \in KmsKeys, NEW b \in Bodies, NEW t \in PssMode, SignKms(k, b, t)
      PROVE  Inv'
  <2> DEFINE r == signDecisionReceipt(k, b, "arn", t)
  <2>1. [key |-> k, form |-> "arn"] \in KeyId
    BY DEF KeyId
  <2>2. Pristine(r)
    BY <1>1, <2>1, SignedIsPristine, KeysAssumption DEF SignKms, TypeOK, Keys, Treatment, PssMode
  <2>3. made' = made \cup {r} /\ UNCHANGED <<now, manifest, held, alterations>>
    BY <1>1 DEF SignKms
  <2> HIDE DEF r
  <2>4. r \in Receipt
    BY <2>2 DEF Pristine
  <2> QED
    BY <2>2, <2>3, <2>4 DEF TypeOK, AsSigned, Borrowed
<1>2. ASSUME NEW b \in Bodies, SignDev(b)
      PROVE  Inv'
  <2> DEFINE r == signDecisionReceipt(DevSecret, b, "name", "hmac")
  <2>1. [key |-> DevSecret, form |-> "name"] \in KeyId
    BY DEF KeyId
  <2>2. Pristine(r)
    BY <1>2, <2>1, SignedIsPristine DEF SignDev, TypeOK, Keys, Treatment
  <2>3. made' = made \cup {r} /\ UNCHANGED <<now, manifest, held, alterations>>
    BY <1>2 DEF SignDev
  <2> HIDE DEF r
  <2>4. r \in Receipt
    BY <2>2 DEF Pristine
  <2> QED
    BY <2>2, <2>3, <2>4 DEF TypeOK, AsSigned, Borrowed
<1>3. ASSUME NEW id \in KeyId, Deprecate(id)
      PROVE  Inv'
  <2> DEFINE e == [alg |-> manifest[id].alg, from |-> manifest[id].from, until |-> now + 1,
                   status |-> "DEPRECATED", revokedAt |-> None]
  <2>1. manifest[id] \in Entry
    BY <1>3 DEF Deprecate, TypeOK
  <2>2. now + 1 \in 0 .. MaxTime + 1
    BY BoundsAssumption DEF TypeOK
  <2>3. e \in Entry
    BY <2>1, <2>2 DEF Entry
  <2>4. manifest' = [manifest EXCEPT ![id] = e] /\ UNCHANGED <<now, made, held, alterations>>
    BY <1>3 DEF Deprecate
  <2> HIDE DEF e
  <2> QED
    BY <2>3, <2>4 DEF TypeOK, AsSigned, Borrowed
<1>4. ASSUME NEW id \in KeyId, NEW at \in 0 .. MaxTime, Revoke(id, at)
      PROVE  Inv'
  <2> DEFINE e == [alg |-> manifest[id].alg, from |-> manifest[id].from, until |-> manifest[id].until,
                   status |-> "REVOKED", revokedAt |-> at]
  <2>1. manifest[id] \in Entry
    BY <1>4 DEF Revoke, TypeOK
  <2>2. e \in Entry
    BY <2>1 DEF Entry
  <2>3. manifest' = [manifest EXCEPT ![id] = e] /\ UNCHANGED <<now, made, held, alterations>>
    BY <1>4 DEF Revoke
  <2> HIDE DEF e
  <2> QED
    BY <2>2, <2>3 DEF TypeOK, AsSigned, Borrowed
<1>5. ASSUME NEW m \in made, Fetch(m)
      PROVE  Inv'
  BY <1>5 DEF Fetch, TypeOK, AsSigned, Borrowed
<1>6. CASE Alter
  <2>1. held \in Receipt /\ held.unsigned \in Unsigned /\ held.env \in Envelope
    BY <1>6 DEF Alter, TypeOK, Receipt
  <2>2. alterations' \in 0 .. MaxAlterations
    BY <1>6, BoundsAssumption DEF Alter, TypeOK
  <2>3. /\ held' \in Receipt
        /\ held'.env.sig = held.env.sig \/ \E m \in made : held'.env.sig = m.env.sig
    <3>1. ASSUME NEW u \in rewritten(held.unsigned), held' = [unsigned |-> u, env |-> held.env]
          PROVE  /\ held' \in Receipt
                 /\ held'.env.sig = held.env.sig
      <4>1. u \in Unsigned
        BY <2>1, RewrittenType
      <4> QED
        BY <2>1, <3>1, <4>1 DEF Receipt
    <3>2. ASSUME NEW e \in relabelled(held.env, held.unsigned),
                 held' = [unsigned |-> held.unsigned, env |-> e]
          PROVE  /\ held' \in Receipt
                 /\ held'.env.sig = held.env.sig \/ \E m \in made : held'.env.sig = m.env.sig
      <4>1. e \in Envelope /\ (e.sig = held.env.sig \/ \E m \in made : e.sig = m.env.sig)
        BY <2>1, RelabelledType DEF TypeOK
      <4> QED
        BY <2>1, <3>2, <4>1 DEF Receipt
    <3> QED
      BY <1>6, <3>1, <3>2 DEF Alter
  <2>4. UNCHANGED <<now, manifest, made>> /\ held # None
    BY <1>6 DEF Alter
  <2> QED
    BY <2>2, <2>3, <2>4 DEF TypeOK, AsSigned, Borrowed
<1>7. CASE Tick
  BY <1>7, BoundsAssumption DEF Tick, TypeOK, AsSigned, Borrowed
<1>8. CASE UNCHANGED vars
  BY <1>8 DEF vars, TypeOK, AsSigned, Borrowed
<1> QED
  BY <1>1, <1>2, <1>3, <1>4, <1>5, <1>6, <1>7, <1>8 DEF Next

\* The invariant holds in every reachable state.
THEOREM InvAlways == Spec => []Inv
BY InvInit, InvNext, PTL DEF Spec

-----------------------------------------------------------------------------
\* For any keys, bodies, bounds and alterations the state stays well typed
\* (signer.ts:200, keyManifest.ts:8).
THEOREM TypeCorrect == Spec => []TypeOK
<1>1. Inv => TypeOK
  BY DEF Inv
<1> QED
  BY <1>1, InvAlways, PTL

\* A signature that verifies over the raw or the filled receipt was made for it.
LEMMA VerifiedWasMade ==
  ASSUME Inv, held # None, NEW k, NEW t,
         \/ signatureVerifies(held.env.sig, k, t, filled(held.unsigned))
         \/ signatureVerifies(held.env.sig, k, t, held.unsigned)
  PROVE  SignedBy(held, k)
<1>1. PICK m \in made : held.env.sig = m.env.sig
  BY DEF Inv, Borrowed
<1>2. Pristine(m)
  BY DEF Inv, AsSigned
<1>3. m.env.sig.by = k
  BY <1>1 DEF signatureVerifies
<1>4. CASE m.unsigned = held.unsigned
  <2>1. SaysTheSame(held, m)
    BY <1>2, <1>4 DEF SaysTheSame, Pristine
  <2> QED
    BY <1>3, <2>1 DEF SignedBy
<1>5. CASE m.unsigned = filled(held.unsigned)
  <2>1. /\ m.unsigned.id = held.unsigned.id
        /\ m.unsigned.content.body = held.unsigned.content.body
        /\ m.unsigned.content.time = held.unsigned.content.time
        /\ m.unsigned.content.alg = held.unsigned.content.alg
        /\ m.unsigned.content.extra = held.unsigned.content.extra
        /\ m.unsigned.content.omitted = (held.unsigned.content.omitted /\ held.unsigned.content.body \notin Defaulting)
    BY <1>5 DEF filled
  <2>2. m.unsigned.content.omitted = FALSE
    BY <1>2 DEF Pristine
  <2>3. SaysTheSame(held, m)
    BY <2>1, <2>2 DEF SaysTheSame
  <2> QED
    BY <1>3, <2>3 DEF SignedBy
<1> QED
  BY <1>1, <1>2, <1>4, <1>5 DEF signatureVerifies, Pristine

\* Whatever any of the six verifiers accepts under a key, its holder signed,
\* field for field (verifier.ts:52, ghost_receipt_verify.mjs:510).
THEOREM AcceptedWasSignedAlways == Spec => []AcceptedWasSigned
<1>1. Inv => AcceptedWasSigned
  <2> SUFFICES ASSUME Inv, held # None PROVE AcceptedWasSigned
    BY DEF AcceptedWasSigned
  <2>1. ASSUME NEW o \in Options,
               runtimeAccepts(held, o) \/ nodeAccepts(held, o) \/ pythonAccepts(held, o)
                 \/ thirdpartyAccepts(held, o) \/ webAccepts(held, o)
        PROVE  SignedBy(held, o.key)
    <3>1. \/ signatureVerifies(held.env.sig, o.key, o.treatment, filled(held.unsigned))
          \/ signatureVerifies(held.env.sig, o.key, o.treatment, held.unsigned)
      BY <2>1 DEF runtimeAccepts, nodeAccepts, pythonAccepts, thirdpartyAccepts, webAccepts
    <3> QED
      BY <3>1, VerifiedWasMade
  <2>2. ASSUME NEW key \in KmsKeys \cup {None}, NEW mf \in {manifest, None}, toolAccepts(held, key, mf)
        PROVE  SignedBy(held, toolKey(held, key, mf))
    <3>1. signatureVerifies(held.env.sig, toolKey(held, key, mf), "message", held.unsigned)
      BY <2>2 DEF toolAccepts
    <3> QED
      BY <3>1, VerifiedWasMade
  <2> QED
    BY <2>1, <2>2 DEF AcceptedWasSigned
<1> QED
  BY <1>1, InvAlways, PTL

\* Node and python accept only what the runtime accepts, and so does the
\* third-party arm where the runtime agrees that the key id is the expected one
\* (verifier.ts:52, schema.ts:11, thirdparty.py:187).
THEOREM VerdictsNestAlways == Spec => []VerdictsNest
<1>1. Inv => VerdictsNest
  <2> SUFFICES ASSUME Inv, held # None, NEW o \in Bound,
                      \/ nodeAccepts(held, o) \/ pythonAccepts(held, o)
                      \/ /\ thirdpartyAccepts(held, o)
                         /\ keyIdPassed(held.env.keyId, held.unsigned.content.alg, o.keyId)
               PROVE  runtimeAccepts(held, o)
    BY DEF VerdictsNest
  <2>1. PICK m \in made : held.env.sig = m.env.sig
    BY DEF Inv, Borrowed
  <2>2. Pristine(m)
    BY DEF Inv, AsSigned
  <2>3. CASE nodeAccepts(held, o) \/ pythonAccepts(held, o)
    <3>1. m.unsigned = filled(held.unsigned)
      BY <2>1, <2>2, <2>3 DEF nodeAccepts, pythonAccepts, signatureVerifies, Pristine
    <3>2. validBody(filled(held.unsigned).content.body)
      BY <2>2, <3>1 DEF Pristine
    <3> QED
      BY <2>3, <3>2 DEF nodeAccepts, pythonAccepts, runtimeAccepts, signatureVerifies
  <2>4. CASE /\ thirdpartyAccepts(held, o)
             /\ keyIdPassed(held.env.keyId, held.unsigned.content.alg, o.keyId)
    <3>1. m.unsigned = held.unsigned
      BY <2>1, <2>2, <2>4 DEF thirdpartyAccepts, signatureVerifies, Pristine
    <3>2. /\ validBody(held.unsigned.content.body)
          /\ held.unsigned.content.extra = FALSE /\ held.unsigned.content.omitted = FALSE
      BY <2>2, <3>1 DEF Pristine
    <3>3. held.unsigned \in Unsigned
      BY DEF Inv, TypeOK, Receipt
    <3>4. filled(held.unsigned) = held.unsigned
      BY <3>2, <3>3 DEF filled, Unsigned, Content
    <3> QED
      BY <2>4, <3>2, <3>4 DEF thirdpartyAccepts, runtimeAccepts, signatureVerifies
  <2> QED
    BY <2>3, <2>4
<1> QED
  BY <1>1, InvAlways, PTL

\* Which receipts, as signed, each verifier told the right key passes: for the
\* runtime and the web all, for the others exactly those their number text and
\* their list of decisions admit (signer.ts:200, verifier.ts:52).
THEOREM SignedIsAcceptedAlways == Spec => []SignedIsAccepted
<1>1. Inv => SignedIsAccepted
  <2> SUFFICES ASSUME Inv, NEW m \in made, NEW o \in Bound,
                      o.key = m.env.sig.by,
                      IF o.key = DevSecret THEN o.keyId = m.env.keyId
                      ELSE o.keyId.form \in {"arn", "uuid"} /\ o.treatment = m.env.sig.treatment
               PROVE  /\ runtimeAccepts(m, o) /\ webAccepts(m, o)
                      /\ thirdpartyAccepts(m, o) <=> m.unsigned.content.body \notin Small
                      /\ nodeAccepts(m, o) <=>
                           /\ m.unsigned.content.body \notin Unsafe
                           /\ DecisionsOf[m.unsigned.content.body] \subseteq DECISION_KINDS
                      /\ pythonAccepts(m, o) <=>
                           /\ m.unsigned.content.body \notin Fractional
                           /\ DecisionsOf[m.unsigned.content.body] \subseteq DECISION_KINDS
                      /\ m.env.sig.treatment = "message" =>
                           /\ toolAccepts(m, o.key, None)
                           /\ runtimeAcceptsUnder(m, o, manifest) => toolAccepts(m, None, manifest)
    BY DEF SignedIsAccepted
  <2>1. Pristine(m)
    BY DEF Inv, AsSigned
  <2>2. m.unsigned \in Unsigned /\ m.env \in Envelope /\ m.env.sig \in Signature
    BY <2>1 DEF Pristine, Receipt, Envelope
  <2>3. filled(m.unsigned) = m.unsigned
    BY <2>1, <2>2 DEF filled, Unsigned, Content, Pristine
  <2>4. m.unsigned.id = receiptId(m.unsigned.content)
    BY <2>1 DEF Pristine, receiptId
  <2>5. signatureVerifies(m.env.sig, o.key, o.treatment, m.unsigned)
    BY <2>1 DEF Pristine, signatureVerifies, algorithmOf
  <2>6. /\ keyIdPassed(m.env.keyId, m.unsigned.content.alg, o.keyId)
        /\ keyUuidPassed(m.env.keyId, m.unsigned.content.alg, o.keyId)
    <3>1. CASE o.key = DevSecret
      BY <2>1, <3>1 DEF Pristine, keyIdPassed, keyUuidPassed, algorithmOf
    <3>2. CASE o.key # DevSecret
      <4>1. m.env.sig.by \in KmsKeys
        BY <2>2, <3>2 DEF Signature, Keys
      <4>2. isImmutableKmsKeyId(m.env.keyId) /\ m.env.keyId.form = "arn"
        BY <2>1, <3>2, <4>1 DEF Pristine, isImmutableKmsKeyId
      <4>3. o.keyId.key = m.env.keyId.key /\ isImmutableKmsKeyId(o.keyId)
        BY <2>1, <3>2, <4>1 DEF Bound, Pristine, isImmutableKmsKeyId
      <4>4. m.unsigned.content.alg = "KMS"
        BY <2>1, <3>2 DEF Pristine, algorithmOf
      <4>5. immutableKmsKeyIdsMatch(m.env.keyId, o.keyId) /\ keyUuidsMatch(m.env.keyId, o.keyId)
        BY <3>2, <4>2, <4>3 DEF immutableKmsKeyIdsMatch, keyUuidsMatch, isArn
      <4> QED
        BY <4>2, <4>4, <4>5 DEF keyIdPassed, keyUuidPassed
    <3> QED
      BY <3>1, <3>2
  <2>7. /\ m.unsigned.content.extra = FALSE /\ m.unsigned.content.omitted = FALSE
        /\ validBody(m.unsigned.content.body) /\ m.unsigned.content.body \notin Invalid
        /\ m.unsigned.content.alg = algorithmOf(o.key)
        /\ m.env.alg = m.unsigned.content.alg /\ m.env.exact = TRUE /\ m.env.text = "canonical"
        /\ m.env.digest = m.unsigned
        /\ m.env.keyId.key = o.key
    BY <2>1 DEF Pristine, validBody
  <2>8. runtimeAccepts(m, o)
    BY <2>3, <2>4, <2>5, <2>6, <2>7 DEF runtimeAccepts
  <2>9. webAccepts(m, o)
    BY <2>4, <2>5, <2>6, <2>7 DEF webAccepts
  <2>10. thirdpartyAccepts(m, o) <=> m.unsigned.content.body \notin Small
    BY <2>4, <2>5, <2>6, <2>7 DEF thirdpartyAccepts
  <2>11. nodeAccepts(m, o) <=>
           /\ m.unsigned.content.body \notin Unsafe
           /\ DecisionsOf[m.unsigned.content.body] \subseteq DECISION_KINDS
    BY <2>3, <2>4, <2>5, <2>6, <2>7 DEF nodeAccepts
  <2>12. pythonAccepts(m, o) <=>
           /\ m.unsigned.content.body \notin Fractional
           /\ DecisionsOf[m.unsigned.content.body] \subseteq DECISION_KINDS
    BY <2>3, <2>4, <2>5, <2>6, <2>7 DEF pythonAccepts
  <2>13. ASSUME m.env.sig.treatment = "message"
         PROVE  /\ toolAccepts(m, o.key, None)
                /\ runtimeAcceptsUnder(m, o, manifest) => toolAccepts(m, None, manifest)
    <3>1. o.key # DevSecret /\ o.key \in KmsKeys
      BY <2>1, <2>2, <2>13 DEF Pristine, Signature, Keys
    <3>2. m.unsigned.content.alg = "KMS"
      BY <2>7, <3>1 DEF algorithmOf
    <3>3. signatureVerifies(m.env.sig, o.key, "message", m.unsigned)
      BY <2>5, <2>13, <3>1
    <3>4. toolAccepts(m, o.key, None)
      BY <2>4, <2>7, <3>1, <3>2, <3>3 DEF toolAccepts, toolKey
    <3>5. ASSUME runtimeAcceptsUnder(m, o, manifest) PROVE toolAccepts(m, None, manifest)
      <4>1. verifyKeyManifestEpoch(manifest, m.env.keyId, m.unsigned.content.alg, m.unsigned.content.time)
        BY <3>5 DEF runtimeAcceptsUnder
      <4>2. manifest # None /\ manifest[m.env.keyId] # None
        BY <4>1, NoneAssumption DEF verifyKeyManifestEpoch, Inv, TypeOK
      <4> QED
        BY <2>4, <2>7, <3>2, <3>3, <4>1, <4>2 DEF toolAccepts, toolKey
    <3> QED
      BY <3>4, <3>5
  <2> QED
    BY <2>8, <2>9, <2>10, <2>11, <2>12, <2>13
<1> QED
  BY <1>1, InvAlways, PTL

\* A manifest step takes a verdict back only from receipts dated at or after
\* the end or the revocation it states (keyManifest.ts:80-158).
THEOREM HistoryIsKeptAlways == Spec => HistoryIsKept
<1> DEFINE Kept ==
      \A m \in made, o \in Bound :
        runtimeAcceptsUnder(m, o, manifest) /\ ~runtimeAcceptsUnder(m, o, manifest')
        => LET e == manifest'[m.env.keyId] IN
           \/ e.until # None /\ m.unsigned.content.time >= e.until
           \/ e.revokedAt # None /\ m.unsigned.content.time >= e.revokedAt
<1>1. Inv /\ [Next]_vars => Kept
  <2> SUFFICES ASSUME Inv, [Next]_vars, NEW m \in made, NEW o \in Bound,
                      runtimeAcceptsUnder(m, o, manifest), ~runtimeAcceptsUnder(m, o, manifest')
               PROVE  \/ /\ manifest'[m.env.keyId].until # None
                         /\ m.unsigned.content.time >= manifest'[m.env.keyId].until
                      \/ /\ manifest'[m.env.keyId].revokedAt # None
                         /\ m.unsigned.content.time >= manifest'[m.env.keyId].revokedAt
    OBVIOUS
  <2> DEFINE a == m.unsigned.content.alg
             t == m.unsigned.content.time
             x == m.env.keyId
  <2>1. verifyKeyManifestEpoch(manifest, x, a, t) /\ ~verifyKeyManifestEpoch(manifest', x, a, t)
    BY DEF runtimeAcceptsUnder
  <2>2. t \in 0 .. MaxTime /\ x \in KeyId
    BY DEF Inv, TypeOK, Receipt, Unsigned, Content, Envelope
  <2>3. manifest \in [KeyId -> Entry \cup {None}] /\ now \in 0 .. MaxTime
    BY DEF Inv, TypeOK
  <2>4. manifest' # manifest
    BY <2>1
  <2> HIDE DEF a, t, x
  <2>5. \/ \E id \in KeyId : Deprecate(id)
        \/ \E id \in KeyId, at \in 0 .. MaxTime : Revoke(id, at)
    BY <2>4 DEF Next, SignKms, SignDev, Fetch, Alter, Tick, vars
  <2>6. manifest[x] \in Entry /\ manifest[x] # None
    BY <2>1, <2>2, <2>3 DEF verifyKeyManifestEpoch
  <2>7. ASSUME NEW id \in KeyId, Deprecate(id)
        PROVE  manifest'[x].until # None /\ t >= manifest'[x].until
    <3>1. x = id
      BY <2>1, <2>2, <2>3, <2>7 DEF Deprecate, verifyKeyManifestEpoch
    <3>2. /\ manifest'[x] = [alg |-> manifest[x].alg, from |-> manifest[x].from, until |-> now + 1,
                             status |-> "DEPRECATED", revokedAt |-> None]
      BY <2>2, <2>3, <2>7, <3>1 DEF Deprecate
    <3>3. manifest'[x].alg = manifest[x].alg /\ manifest'[x].from = manifest[x].from
          /\ manifest'[x].until = now + 1 /\ manifest'[x].status = "DEPRECATED"
          /\ manifest'[x].revokedAt = None
      BY <3>2
    <3>4. manifest'[x] # None
      <4>1. now + 1 \in 0 .. MaxTime + 1
        BY <2>3, BoundsAssumption
      <4>2. manifest'[x] \in Entry
        BY <2>6, <3>2, <4>1 DEF Entry
      <4> QED
        BY <4>2, NoneAssumption
    <3>5. ~(t < now + 1)
      BY <2>1, <3>3, <3>4 DEF verifyKeyManifestEpoch
    <3> QED
      BY <2>2, <2>3, <3>3, <3>5, NoneAssumption
  <2>8. ASSUME NEW id \in KeyId, NEW at \in 0 .. MaxTime, Revoke(id, at)
        PROVE  manifest'[x].revokedAt # None /\ t >= manifest'[x].revokedAt
    <3>1. x = id
      BY <2>1, <2>2, <2>3, <2>8 DEF Revoke, verifyKeyManifestEpoch
    <3>2. manifest'[x] = [alg |-> manifest[x].alg, from |-> manifest[x].from, until |-> manifest[x].until,
                          status |-> "REVOKED", revokedAt |-> at]
      BY <2>2, <2>3, <2>8, <3>1 DEF Revoke
    <3>3. /\ manifest'[x].alg = manifest[x].alg /\ manifest'[x].from = manifest[x].from
          /\ manifest'[x].until = manifest[x].until /\ manifest'[x].status = "REVOKED"
          /\ manifest'[x].revokedAt = at
      BY <3>2
    <3>4. manifest'[x] # None
      <4>1. manifest'[x] \in Entry
        BY <2>6, <3>2 DEF Entry
      <4> QED
        BY <4>1, NoneAssumption
    <3>5. ~(t < at)
      BY <2>1, <3>3, <3>4, NoneAssumption DEF verifyKeyManifestEpoch
    <3> QED
      BY <2>2, <3>3, <3>5, NoneAssumption
  <2> QED
    BY <2>5, <2>7, <2>8 DEF a, t, x
<1> QED
  BY <1>1, InvAlways, PTL DEF Spec, HistoryIsKept

=============================================================================
