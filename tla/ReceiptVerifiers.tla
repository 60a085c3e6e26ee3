------------------------- MODULE ReceiptVerifiers -------------------------
(***************************************************************************)
(* A signed decision receipt and the six programs of the repository that   *)
(* judge one without talking to the runtime that wrote it:                 *)
(*                                                                         *)
(*   runtime     receipts/verifier.ts with its KMS or HMAC verifier        *)
(*   node        verifiers/node/ghost_receipt_verify.mjs                   *)
(*   python      verifiers/python/ghost_receipt_verify.py                  *)
(*   thirdparty  verifiers/thirdparty/ghost_receipt_verify_thirdparty.py   *)
(*   web         apps/glasshouse/lib/decisionVerifier.ts                   *)
(*   tool        tools/ghost-verify.mjs with a key, a key manifest or both *)
(*                                                                         *)
(* Each was written on its own and is strict about other things, and the   *)
(* copy it is shown may have been altered since it was signed.  Hashes are *)
(* symbolic: the digest of an unsigned receipt is the unsigned receipt, a  *)
(* signature names the key that made it and what it is over.               *)
(***************************************************************************)
EXTENDS Integers, FiniteSets

CONSTANTS
  KmsKeys,         \* asymmetric keys whose private half KMS holds
  Listed,          \* those the key manifest lists, by their ARN
  DevSecret,       \* the published secret of the development HMAC
  Bodies,          \* what the fields of a receipt say, its time aside
  DecisionsOf,     \* [Bodies -> sets]: decision_pre and decision_post
  Fractional,      \* bodies with a number that is not an integer
  Small,           \* those with one below 10^-4, which CPython writes otherwise
  Unsafe,          \* bodies with an integer above 2^53 - 1
  Invalid,         \* bodies with a number outside its range
  Defaulting,      \* bodies whose defaulted fields hold their defaults
  MaxTime,         \* bound on time
  MaxSigned,       \* bound on the receipts signed
  MaxAlterations,  \* bound on the alterations of one copy
  None             \* no expectation, no entry, no copy, never

ASSUME BodiesAssumption ==
  /\ Fractional \subseteq Bodies /\ Unsafe \subseteq Bodies
  /\ Small \subseteq Fractional
  /\ Invalid \subseteq Bodies /\ Defaulting \subseteq Bodies
ASSUME BoundsAssumption == MaxTime \in Nat /\ MaxSigned \in Nat /\ MaxAlterations \in Nat
ASSUME KeysAssumption == DevSecret \notin KmsKeys /\ Listed \subseteq KmsKeys

VARIABLES
  now,          \* the clock
  manifest,     \* the published key manifest: key id -> its entry
  made,         \* receipts as their signers wrote them
  held,         \* the copy under examination
  alterations   \* how often that copy was altered

vars == <<now, manifest, made, held, alterations>>

Keys == KmsKeys \cup {DevSecret}
Alg == {"KMS", "HMAC"}

\* How a signature treats the digest it is given: KMS signs it as it is, a
\* local RSA key hashes it once more.
PssMode == {"mhash", "message"}
Treatment == PssMode \cup {"hmac"}

\* A key id is the ARN of a key, the ARN another account or region would give
\* its UUID, the bare UUID, the UUID in capitals, or a name that can be pointed
\* elsewhere.
KeyId ==
  [key : KmsKeys, form : {"arn", "otherArn", "uuid", "upperUuid", "name"}]
    \cup [key : {DevSecret}, form : {"name"}]

\* policy/decisions.ts, which the signer and the runtime's schema use, and the
\* kinds that the node and the python verifier know.
decisionVocabulary ==
  {"ALLOW", "MODIFY", "REDACT", "REFUSE", "SILENCE", "ESCALATE", "REQUIRE_CONSENT",
   "MEMORY_SUPPRESS", "RECEIPT_ONLY", "HUMAN_REVIEW"}
DECISION_KINDS == {"ALLOW", "ALLOW_WITH_CONSTRAINTS", "REDACT", "REFUSE", "ESCALATE"}

\* The fields of a receipt: extra is a field the schema does not know,
\* omitted the absence of those that have a default.
Content ==
  [body : Bodies, time : 0 .. MaxTime, alg : Alg, extra : BOOLEAN, omitted : BOOLEAN]

Unsigned == [content : Content, id : Content]

Signature == [by : Keys, over : Unsigned, treatment : Treatment]

\* How the envelope is written: byte for byte canonical, with its JSON or
\* base64url spelt another way, or with slack bits in the signature's text.
Text == {"canonical", "respelt", "slack"}

Envelope ==
  [keyId : KeyId, alg : Alg, digest : Unsigned, sig : Signature, text : Text, exact : BOOLEAN]

Receipt == [unsigned : Unsigned, env : Envelope]

Entry ==
  [alg : Alg, from : 0 .. MaxTime, until : (0 .. MaxTime + 1) \cup {None},
   status : {"ACTIVE", "DEPRECATED", "REVOKED"}, revokedAt : (0 .. MaxTime) \cup {None}]

\* What a verifier is called with: the key, the key id it expects if any, and
\* the treatment of the digest it was told or is built with, for asymmetric keys.
Options == [key : Keys, keyId : KeyId \cup {None}, treatment : PssMode]

ASSUME NoneAssumption == None \notin Int /\ None \notin Entry /\ None \notin Receipt
                         /\ None \notin [KeyId -> Entry \cup {None}]

\* The caller names the key it verifies with.
Bound == {o \in Options : o.keyId # None /\ o.keyId.key = o.key}

-----------------------------------------------------------------------------
(* Checks that several of the verifiers share.                             *)

receiptId(content) == content

algorithmOf(key) == IF key = DevSecret THEN "HMAC" ELSE "KMS"

\* The schema the signer validates with and the runtime verifies with.
validBody(body) == body \notin Invalid /\ DecisionsOf[body] \subseteq decisionVocabulary

isArn(keyId) == keyId.form \in {"arn", "otherArn"}
isImmutableKmsKeyId(keyId) == keyId.key \in KmsKeys /\ keyId.form # "name"

\* A plausible slip: key ids are compared as text.
immutableKmsKeyIdsEqual(a, b) == isImmutableKmsKeyId(a) /\ isImmutableKmsKeyId(b) /\ a = b

\* Two ARNs match as text; otherwise the UUIDs do, as they are spelt.  Names
\* match nothing.
immutableKmsKeyIdsMatch(a, b) ==
  /\ isImmutableKmsKeyId(a) /\ isImmutableKmsKeyId(b)
  /\ a.key = b.key
  /\ IF isArn(a) /\ isArn(b) THEN a.form = b.form
     ELSE (a.form = "upperUuid") = (b.form = "upperUuid")

\* The third-party arm and the web look at the UUIDs alone, in lower case.
keyUuidsMatch(a, b) == isImmutableKmsKeyId(a) /\ isImmutableKmsKeyId(b) /\ a.key = b.key

keyUuidPassed(keyId, alg, expected) ==
  IF alg = "KMS"
  THEN isImmutableKmsKeyId(keyId) /\ (expected = None \/ keyUuidsMatch(keyId, expected))
  ELSE expected = None \/ keyId = expected

keyIdPassed(keyId, alg, expected) ==
  IF alg = "KMS"
  THEN /\ isImmutableKmsKeyId(keyId)
       /\ expected = None \/ immutableKmsKeyIdsMatch(keyId, expected)
  ELSE expected = None \/ keyId = expected

\* A plausible slip: a schema that strips unknown fields instead of refusing them.
filledStripping(u) ==
  [content |-> [body |-> u.content.body, time |-> u.content.time, alg |-> u.content.alg,
                extra |-> FALSE,
                omitted |-> u.content.omitted /\ u.content.body \notin Defaulting],
   id |-> u.id]

\* Absent fields take their defaults before anything is hashed.
filled(u) ==
  [content |-> [body |-> u.content.body, time |-> u.content.time, alg |-> u.content.alg,
                extra |-> u.content.extra,
                omitted |-> u.content.omitted /\ u.content.body \notin Defaulting],
   id |-> u.id]

\* The signature is by the key given, over exactly this unsigned receipt.
signatureVerifies(sig, key, treatment, u) ==
  /\ sig.by = key
  /\ sig.over = u
  /\ sig.treatment = IF u.content.alg = "HMAC" THEN "hmac" ELSE treatment
  /\ algorithmOf(key) = u.content.alg

\* A plausible slip: a key once revoked vouches for nothing, whenever signed.
verifyKeyManifestEpochNow(mf, keyId, alg, time) ==
  /\ mf[keyId] # None
  /\ mf[keyId].alg = alg
  /\ mf[keyId].from <= time
  /\ mf[keyId].until = None \/ time < mf[keyId].until
  /\ mf[keyId].status # "REVOKED"

\* The entry of the key covers the time the receipt states.
verifyKeyManifestEpoch(mf, keyId, alg, time) ==
  /\ mf[keyId] # None
  /\ mf[keyId].alg = alg
  /\ mf[keyId].from <= time
  /\ mf[keyId].until = None \/ time < mf[keyId].until
  /\ mf[keyId].status = "REVOKED" => mf[keyId].revokedAt # None
  /\ mf[keyId].revokedAt = None \/ time < mf[keyId].revokedAt

-----------------------------------------------------------------------------
(* The six verdicts.                                                       *)

\* Strict schema; defaults filled; any spelling of the envelope.
runtimeAccepts(r, o) ==
  LET u == filled(r.unsigned) IN
  /\ ~u.content.extra /\ validBody(u.content.body)
  /\ u.id = receiptId(u.content)
  /\ u.content.alg = algorithmOf(o.key)
  /\ r.env.exact /\ r.env.alg = u.content.alg
  /\ keyIdPassed(r.env.keyId, u.content.alg, o.keyId)
  /\ r.env.digest = u
  /\ signatureVerifies(r.env.sig, o.key, o.treatment, u)

\* The same with a manifest, whose entry must cover the receipt.
runtimeAcceptsUnder(r, o, mf) ==
  /\ runtimeAccepts(r, o)
  /\ verifyKeyManifestEpoch(mf, r.env.keyId, r.unsigned.content.alg, r.unsigned.content.time)

\* The strictest: safe integers only, canonical text only, five decisions.
nodeAccepts(r, o) ==
  LET u == filled(r.unsigned) IN
  /\ ~u.content.extra /\ u.content.body \notin Invalid \cup Unsafe
  /\ DecisionsOf[u.content.body] \subseteq DECISION_KINDS
  /\ u.id = receiptId(u.content)
  /\ r.env.exact /\ r.env.text = "canonical" /\ r.env.alg = u.content.alg
  /\ keyIdPassed(r.env.keyId, u.content.alg, o.keyId)
  /\ r.env.digest = u
  /\ signatureVerifies(r.env.sig, o.key, o.treatment, u)

\* No numeric ranges, no fractions, five decisions; an HMAC is compared as
\* text.  Without a key and with --allow-unverified-signature it passes on the
\* digest alone, and says so: there is no key then to vouch for, and no Options.
pythonAccepts(r, o) ==
  LET u == filled(r.unsigned) IN
  /\ ~u.content.extra /\ u.content.body \notin Fractional
  /\ DecisionsOf[u.content.body] \subseteq DECISION_KINDS
  /\ u.id = receiptId(u.content)
  /\ r.env.exact /\ r.env.alg = u.content.alg
  /\ keyIdPassed(r.env.keyId, u.content.alg, o.keyId)
  /\ r.env.digest = u
  /\ u.content.alg = "HMAC" => r.env.text # "slack"
  /\ signatureVerifies(r.env.sig, o.key, o.treatment, u)

\* A plausible slip, and the arm's own first version: any envelope fields.
thirdpartyAcceptsInexact(r, o) ==
  LET u == r.unsigned IN
  /\ u.content.body \notin Small
  /\ u.id = receiptId(u.content)
  /\ r.env.alg = u.content.alg
  /\ keyUuidPassed(r.env.keyId, u.content.alg, o.keyId)
  /\ r.env.digest = u
  /\ u.content.alg = "HMAC" => r.env.text # "slack"
  /\ signatureVerifies(r.env.sig, o.key, o.treatment, u)

\* The receipt as it is: no schema beyond five fields, no defaults.  The text
\* of a small number is CPython's, so the id recomputed is another one.  Told
\* no treatment, it accepts what it would accept under one of the two.
thirdpartyAccepts(r, o) ==
  LET u == r.unsigned IN
  /\ u.content.body \notin Small
  /\ u.id = receiptId(u.content)
  /\ r.env.exact /\ r.env.alg = u.content.alg
  /\ keyUuidPassed(r.env.keyId, u.content.alg, o.keyId)
  /\ r.env.digest = u
  /\ u.content.alg = "HMAC" => r.env.text # "slack"
  /\ signatureVerifies(r.env.sig, o.key, o.treatment, u)

\* Every field must be there; the envelope may hold more than its fields.
webAccepts(r, o) ==
  LET u == r.unsigned IN
  /\ ~u.content.omitted
  /\ u.id = receiptId(u.content)
  /\ r.env.alg = u.content.alg
  /\ keyUuidPassed(r.env.keyId, u.content.alg, o.keyId)
  /\ r.env.digest = u
  /\ signatureVerifies(r.env.sig, o.key, o.treatment, u)

\* The public key is the one given (--key) or else that of the manifest entry
\* the envelope's key id names.  With a key given and no manifest, the envelope's
\* key id is not looked at; node's crypto hashes the digest once more.
toolKey(r, key, mf) ==
  IF key # None THEN key
  ELSE IF mf # None /\ mf[r.env.keyId] # None THEN r.env.keyId.key ELSE None
toolAccepts(r, key, mf) ==
  LET u == r.unsigned IN
  /\ u.id = receiptId(u.content)
  /\ r.env.digest = u
  /\ mf # None => verifyKeyManifestEpoch(mf, r.env.keyId, u.content.alg, u.content.time)
  /\ u.content.alg = "KMS"
  /\ signatureVerifies(r.env.sig, toolKey(r, key, mf), "message", u)

-----------------------------------------------------------------------------
(* Signing, the manifest, and what befalls a copy.                         *)

signDecisionReceipt(key, body, form, treatment) ==
  LET content == [body |-> body, time |-> now, alg |-> algorithmOf(key),
                  extra |-> FALSE, omitted |-> FALSE]
      u == [content |-> content, id |-> receiptId(content)] IN
  [unsigned |-> u,
   env |-> [keyId |-> [key |-> key, form |-> form], alg |-> algorithmOf(key), digest |-> u,
            sig |-> [by |-> key, over |-> u, treatment |-> treatment],
            text |-> "canonical", exact |-> TRUE]]

Init ==
  /\ now = 0
  /\ manifest = [id \in KeyId |->
       IF id.key \in Listed /\ id.form = "arn"
       THEN [alg |-> "KMS", from |-> 0, until |-> None, status |-> "ACTIVE", revokedAt |-> None]
       ELSE None]
  /\ made = {}
  /\ held = None
  /\ alterations = 0

\* The body must pass the schema; the key id is the ARN that KMS attests.
SignKms(key, body, treatment) ==
  /\ Cardinality(made) < MaxSigned
  /\ validBody(body)
  /\ made' = made \cup {signDecisionReceipt(key, body, "arn", treatment)}
  /\ UNCHANGED <<now, manifest, held, alterations>>

SignDev(body) ==
  /\ Cardinality(made) < MaxSigned
  /\ validBody(body)
  /\ made' = made \cup {signDecisionReceipt(DevSecret, body, "name", "hmac")}
  /\ UNCHANGED <<now, manifest, held, alterations>>

\* The operator publishes a manifest in which the key has a successor ...
Deprecate(id) ==
  /\ manifest[id] # None
  /\ manifest[id].status = "ACTIVE"
  /\ manifest' = [manifest EXCEPT ![id] =
       [alg |-> manifest[id].alg, from |-> manifest[id].from, until |-> now + 1,
        status |-> "DEPRECATED", revokedAt |-> None]]
  /\ UNCHANGED <<now, made, held, alterations>>

\* ... or is revoked as of a time not before it became valid.
Revoke(id, at) ==
  /\ manifest[id] # None
  /\ manifest[id].status # "REVOKED"
  /\ manifest[id].from <= at /\ at <= now
  /\ manifest' = [manifest EXCEPT ![id] =
       [alg |-> manifest[id].alg, from |-> manifest[id].from, until |-> manifest[id].until,
        status |-> "REVOKED", revokedAt |-> at]]
  /\ UNCHANGED <<now, made, held, alterations>>

Fetch(m) ==
  /\ held = None
  /\ held' = m
  /\ UNCHANGED <<now, manifest, made, alterations>>

content(body, time, alg, extra, omitted) ==
  [body |-> body, time |-> time, alg |-> alg, extra |-> extra, omitted |-> omitted]

\* One field of the receipt differs, or its id is recomputed.
rewritten(u) ==
  LET c == u.content
      contents ==
        {content(b, c.time, c.alg, c.extra, c.omitted) : b \in Bodies}
        \cup {content(c.body, t, c.alg, c.extra, c.omitted) : t \in 0 .. MaxTime}
        \cup {content(c.body, c.time, a, c.extra, c.omitted) : a \in Alg}
        \cup {content(c.body, c.time, c.alg, x, c.omitted) : x \in BOOLEAN}
        \cup {content(c.body, c.time, c.alg, c.extra, y) : y \in BOOLEAN} IN
  {[content |-> d, id |-> u.id] : d \in contents}
  \cup {[content |-> c, id |-> receiptId(d)] : d \in {c, filled(u).content}}

envelope(keyId, alg, digest, sig, text, exact) ==
  [keyId |-> keyId, alg |-> alg, digest |-> digest, sig |-> sig, text |-> text, exact |-> exact]

\* One field of the envelope differs; its signature may be another receipt's.
relabelled(e, u) ==
  {envelope(k, e.alg, e.digest, e.sig, e.text, e.exact) : k \in KeyId}
  \cup {envelope(e.keyId, a, e.digest, e.sig, e.text, e.exact) : a \in Alg}
  \cup {envelope(e.keyId, e.alg, d, e.sig, e.text, e.exact) : d \in {u, filled(u)}}
  \cup {envelope(e.keyId, e.alg, e.digest, m.env.sig, e.text, e.exact) : m \in made}
  \cup {envelope(e.keyId, e.alg, e.digest, e.sig, t, e.exact) : t \in Text}
  \cup {envelope(e.keyId, e.alg, e.digest, e.sig, e.text, x) : x \in BOOLEAN}

\* In storage or on its way some part of the copy changes.
Alter ==
  /\ held # None
  /\ alterations < MaxAlterations
  /\ \/ \E u \in rewritten(held.unsigned) : held' = [unsigned |-> u, env |-> held.env]
     \/ \E e \in relabelled(held.env, held.unsigned) :
          held' = [unsigned |-> held.unsigned, env |-> e]
  /\ alterations' = alterations + 1
  /\ UNCHANGED <<now, manifest, made>>

Tick ==
  /\ now < MaxTime
  /\ now' = now + 1
  /\ UNCHANGED <<manifest, made, held, alterations>>

Next ==
  \/ \E k \in KmsKeys, b \in Bodies, t \in PssMode : SignKms(k, b, t)
  \/ \E b \in Bodies : SignDev(b)
  \/ \E id \in KeyId : Deprecate(id)
  \/ \E id \in KeyId, at \in 0 .. MaxTime : Revoke(id, at)
  \/ \E m \in made : Fetch(m)
  \/ Alter
  \/ Tick

Spec == Init /\ [][Next]_vars

-----------------------------------------------------------------------------
\* Clock, manifest, receipts and the copy stay within their types and bounds.
TypeOK ==
  /\ now \in 0 .. MaxTime
  /\ manifest \in [KeyId -> Entry \cup {None}]
  /\ made \in SUBSET Receipt
  /\ held \in Receipt \cup {None}
  /\ alterations \in 0 .. MaxAlterations

\* A copy says what a signed receipt says, in every field it carries; a field
\* it lacks has the default the signed one spelt out.
SaysTheSame(copy, original) ==
  /\ copy.unsigned.id = original.unsigned.id
  /\ copy.unsigned.content.body = original.unsigned.content.body
  /\ copy.unsigned.content.time = original.unsigned.content.time
  /\ copy.unsigned.content.alg = original.unsigned.content.alg
  /\ copy.unsigned.content.extra = original.unsigned.content.extra
  /\ copy.unsigned.content.omitted => original.unsigned.content.body \in Defaulting

SignedBy(copy, key) ==
  \E m \in made : SaysTheSame(copy, m) /\ m.env.sig.by = key

\* However a copy was altered and pieced together, a verifier that accepts it
\* under a key shows a receipt the holder of that key signed, field for field
\* (verifier.ts:52, ghost_receipt_verify.mjs:510 and .py:541, decisionVerifier.ts);
\* the tool vouches for the key it was given or, given only a manifest, for the
\* key the envelope names.
AcceptedWasSigned ==
  held # None =>
    /\ \A o \in Options :
         runtimeAccepts(held, o) \/ nodeAccepts(held, o) \/ pythonAccepts(held, o)
           \/ thirdpartyAccepts(held, o) \/ webAccepts(held, o)
         => SignedBy(held, o.key)
    /\ \A key \in KmsKeys \cup {None}, mf \in {manifest, None} :
         toolAccepts(held, key, mf) => SignedBy(held, toolKey(held, key, mf))

\* The node and the python verifier never accept what the runtime refuses,
\* though python checks no numeric range and both know a decision the runtime
\* does not: the signer's own validation stands in for it.  The third-party arm,
\* with no schema to speak of, accepts more in one point only: a key id the
\* runtime holds to be another one, by its account, region or letter case.
VerdictsNest ==
  held # None =>
    \A o \in Bound :
      /\ nodeAccepts(held, o) \/ pythonAccepts(held, o) => runtimeAccepts(held, o)
      /\ /\ thirdpartyAccepts(held, o)
         /\ keyIdPassed(held.env.keyId, held.unsigned.content.alg, o.keyId)
         => runtimeAccepts(held, o)

\* Which receipts, as signed, a verifier passes that is told the right key, by
\* ARN or by UUID, and the treatment the receipt was signed under: the runtime
\* and the web all of them; node all but those with an unsafe integer or a
\* decision outside its five; python all but those with a fraction or such a
\* decision; the third-party arm all but those with a small number; the tool
\* those a local key signed, within the epoch if there is a manifest.
SignedIsAccepted ==
  \A m \in made, o \in Bound :
    /\ o.key = m.env.sig.by
    /\ IF o.key = DevSecret THEN o.keyId = m.env.keyId
       ELSE o.keyId.form \in {"arn", "uuid"} /\ o.treatment = m.env.sig.treatment
    => LET body == m.unsigned.content.body
           fiveKinds == DecisionsOf[body] \subseteq DECISION_KINDS IN
       /\ runtimeAccepts(m, o) /\ webAccepts(m, o)
       /\ thirdpartyAccepts(m, o) <=> body \notin Small
       /\ nodeAccepts(m, o) <=> body \notin Unsafe /\ fiveKinds
       /\ pythonAccepts(m, o) <=> body \notin Fractional /\ fiveKinds
       /\ m.env.sig.treatment = "message" =>
            /\ toolAccepts(m, o.key, None)
            /\ runtimeAcceptsUnder(m, o, manifest) => toolAccepts(m, None, manifest)

\* "historical receipts may remain verifiable after succession or revocation"
\* (keyManifest.ts:161): a new manifest takes a verdict back only from a
\* receipt dated at or after the end or the revocation it states.
HistoryIsKept ==
  [][\A m \in made, o \in Bound :
       runtimeAcceptsUnder(m, o, manifest) /\ ~runtimeAcceptsUnder(m, o, manifest')
       => LET e == manifest'[m.env.keyId] IN
          \/ e.until # None /\ m.unsigned.content.time >= e.until
          \/ e.revokedAt # None /\ m.unsigned.content.time >= e.revokedAt]_vars

=============================================================================
