----------------------------- MODULE WitnessLog -----------------------------
(***************************************************************************)
(* Revocation by authenticated ledger order (research-frontier             *)
(* authenticatedRevocation.ts): a receipt stands when witnesses' signed    *)
(* checkpoints of a transparency log show it before the record that        *)
(* revokes its key.                                                        *)
(*                                                                         *)
(* The log grows; witnesses sign checkpoints of it.  Honest witnesses sign *)
(* prefixes of the log at the time it is.  Faulty ones sign any root, with *)
(* any size and any time.  Whoever passes a checkpoint on can put entries  *)
(* into its signature list.  A relying party decides on whatever           *)
(* checkpoints and proofs it is shown.                                     *)
(*                                                                         *)
(* The Merkle tree is a parameter: the operators Root, Opens and           *)
(* Consistent and what is assumed of them.  MerkleLog provides them.       *)
(***************************************************************************)
EXTENDS Integers, Sequences, FiniteSets

CONSTANTS
    Witnesses,
    Faulty,             \* witnesses that sign anything
    Quorum,             \* distinct valid witnesses a checkpoint needs
    Manifest,           \* [Witnesses -> entry of the witness key manifest]
    Leaf,               \* payloads committed to the log
    Keys,               \* signing keys
    Forgeable,          \* heads the faulty witnesses may sign
    RecordsOf,          \* [Keys -> SUBSET Leaf]: the key's revocation records,
                        \* one without a reason and one for each reason
    MaxLog,             \* bound of the log's length, and of the tree sizes
                        \* that proofs name
    MaxTime,            \* bound of the clock
    MaxHeads,           \* bound of the checkpoints in circulation
    MaxShadows,         \* bound of the entries shadowed on checkpoints
    Root(_),            \* root of a list of payloads
    Opens(_, _, _, _),  \* some proof opens (root, size, index) to a payload
    Consistent(_, _, _, _)  \* some proof shows (root, size) to be a prefix

Time == 0 .. MaxTime
Never == MaxTime + 1
Trees == UNION {[1 .. n -> Leaf] : n \in 0 .. MaxLog}
Roots == {Root(t) : t \in Trees}
Sizes == 0 .. MaxLog
View == [root : Roots, size : Sizes]
Entry == [validFrom : Time, validUntil : Time \cup {Never},
          status : {"ACTIVE", "DEPRECATED", "REVOKED"},
          revokedAt : Time \cup {Never}]

ASSUME WitnessAssumption ==
    /\ IsFiniteSet(Witnesses)
    /\ Faulty \subseteq Witnesses
    /\ Quorum \in Nat \ {0}
    /\ Manifest \in [Witnesses -> Entry]
    /\ RecordsOf \in [Keys -> SUBSET Leaf]
    /\ Forgeable \subseteq View
    /\ MaxLog \in Nat
    /\ MaxTime \in Nat
    /\ MaxHeads \in Nat
    /\ MaxShadows \in Nat

Prefix(t, n) == SubSeq(t, 1, n)

\* What an accumulator owes the decision: under its own size a root of a log
\* opens each position to the log's leaf there, has only the log's prefixes as
\* predecessors, and every successor opens the log's positions to the log's
\* leaves.  Under another size a root still opens only to leaves of its log,
\* at whatever position.
ASSUME TreeAssumption ==
    /\ \A t \in Trees, i \in Sizes, l \in Leaf :
          Opens(Root(t), Len(t), i, l) => i < Len(t) /\ t[i + 1] = l
    /\ \A t \in Trees, n, i \in Sizes, l \in Leaf :
          Opens(Root(t), n, i, l) => \E j \in 1 .. Len(t) : t[j] = l
    /\ \A t \in Trees, root \in Roots, n \in Sizes :
          n <= Len(t) /\ Consistent(root, n, Root(t), Len(t)) =>
              root = Root(Prefix(t, n))
    /\ \A t \in Trees, root \in Roots, n, i \in Sizes, l \in Leaf :
          /\ Len(t) <= n
          /\ Consistent(Root(t), Len(t), root, n)
          /\ i < Len(t)
          /\ Opens(root, n, i, l)
          => t[i + 1] = l

VARIABLES
    log,        \* the payloads of the log, in order
    now,        \* the clock
    heads       \* checkpoints in circulation

vars == << log, now, heads >>

\* A checkpoint and its list of signatures: sigs are the witnesses with an
\* entry that verifies, shadowed those with an entry before it that does not.
Checkpoint == [root : Roots, size : Sizes, time : Time,
               sigs : SUBSET Witnesses, shadowed : SUBSET Witnesses]

Init ==
    /\ log = << >>
    /\ now = 0
    /\ heads = {}

-----------------------------------------------------------------------------
(* The log and its witnesses.                                              *)

AppendLeaf(l) ==
    /\ Len(log) < MaxLog
    /\ log' = Append(log, l)
    /\ UNCHANGED << now, heads >>

Tick ==
    /\ now < MaxTime
    /\ now' = now + 1
    /\ UNCHANGED << log, heads >>

\* A head a witness signs.  createWitnessCheckpoint signs the root of the
\* payloads it is given; an honest witness is given the log's.
MaySign(w, v, time) ==
    \/ w \in Faulty /\ v \in Forgeable
    \/ v.size <= Len(log) /\ v.root = Root(Prefix(log, v.size)) /\ time <= now

\* Heads a witness can be asked to sign: a forgery, or a prefix of the log.
Offered ==
    Forgeable \cup {[root |-> Root(Prefix(log, n)), size |-> n] : n \in 0 .. Len(log)}

createWitnessCheckpoint(w, v, time) ==
    /\ Cardinality(heads) < MaxHeads
    /\ MaySign(w, v, time)
    /\ heads' = heads \cup {[root |-> v.root, size |-> v.size,
                             time |-> time, sigs |-> {w}, shadowed |-> {}]}
    /\ UNCHANGED << log, now >>

\* A further witness signs a head that is in circulation.
Cosign(w, h) ==
    /\ w \notin h.sigs
    /\ MaySign(w, [root |-> h.root, size |-> h.size], h.time)
    /\ heads' = (heads \ {h}) \cup {[h EXCEPT !.sigs = @ \cup {w}]}
    /\ UNCHANGED << log, now >>

\* The signature list is not signed: whoever passes the checkpoint on puts an
\* entry in the name of a witness before the witness's own.
Shadow(w, h) ==
    /\ w \in h.sigs \ h.shadowed
    /\ Cardinality({e \in heads \X Witnesses : e[2] \in e[1].shadowed}) < MaxShadows
    /\ heads' = (heads \ {h}) \cup {[h EXCEPT !.shadowed = @ \cup {w}]}
    /\ UNCHANGED << log, now >>

Next ==
    \/ \E l \in Leaf : AppendLeaf(l)
    \/ \E w \in Witnesses, v \in Offered, time \in Time :
          createWitnessCheckpoint(w, v, time)
    \/ \E w \in Witnesses, h \in heads : Cosign(w, h) \/ Shadow(w, h)
    \/ Tick

Spec == Init /\ [][Next]_vars

-----------------------------------------------------------------------------
(* The relying party.                                                      *)

\* The witness's key was valid at the integrated_time of the checkpoint.
verifyWitnessKeyManifestEpoch(w, time) ==
    LET entry == Manifest[w]
    IN  /\ entry.validFrom <= time
        /\ time < entry.validUntil
        /\ ~(entry.status = "REVOKED" /\ entry.revokedAt = Never)
        /\ entry.revokedAt = Never \/ time < entry.revokedAt

\* Every entry of the signature list is looked at.
validWitnesses(h) ==
    {w \in h.sigs : verifyWitnessKeyManifestEpoch(w, h.time)}

countQuorumWitnesses(h) == Cardinality(validWitnesses(h))

\* Only the first entry of the witness is looked at.
witnessSignatureVerifies(h, w) == w \in validWitnesses(h) \ h.shadowed

\* Mutant of verifySplitViewFraudProof: heads of different sizes accuse.
verifySplitViewAnySize(w, a, b) ==
    /\ a.root # b.root
    /\ witnessSignatureVerifies(a, w)
    /\ witnessSignatureVerifies(b, w)

\* Two heads of one size and different roots, both signed by the witness.
verifySplitViewFraudProof(w, a, b) ==
    /\ a.size = b.size
    /\ a.root # b.root
    /\ witnessSignatureVerifies(a, w)
    /\ witnessSignatureVerifies(b, w)

detectSplitView(checkpoints) ==
    \E w \in Witnesses, a, b \in checkpoints :
        verifySplitViewFraudProof(w, a, b)

\* Mutant of countValidWitnesses: signatures count whatever their key.
countSignatures(h) == Cardinality(h.sigs \ h.shadowed)

countValidWitnesses(h) ==
    Cardinality({w \in h.sigs : witnessSignatureVerifies(h, w)})

\* Two heads of one size and different roots, each with a quorum.
verifyFederationSplitViewProof(a, b) ==
    /\ a.size = b.size
    /\ a.root # b.root
    /\ countValidWitnesses(a) >= Quorum
    /\ countValidWitnesses(b) >= Quorum

detectFederationSplitView(checkpoints) ==
    \E a, b \in checkpoints : verifyFederationSplitViewProof(a, b)

\* A payload shown under a checkpoint: the size and index are the proof's.
Inclusion == [checkpoint : Checkpoint, payload : Leaf, size : Sizes, index : Sizes]

\* The proof opens the root the witnesses signed, at the proof's own size:
\* nothing compares it with the size the witnesses signed.
included(x) == Opens(x.checkpoint.root, x.size, x.index, x.payload)

\* Mutant of bound: the two checkpoints are not tied together.
boundLoosely(a, b) == TRUE

\* The smaller checkpoint is shown to be a prefix of the larger.
bound(a, b) ==
    IF a.size <= b.size
    THEN Consistent(a.root, a.size, b.root, b.size)
    ELSE Consistent(b.root, b.size, a.root, a.size)

\* The leaf is a canonical revocation record of the key, with the reason it
\* gives, if any.
isRevocationRecord(payload, keyId) == payload \in RecordsOf[keyId]

\* enforceAuthenticatedLedgerRevocation: the receipt's inclusion, the
\* revocation's inclusion and the key it names, and other checkpoints seen.
standing(keyId, receipt, revocation, revokedKey, observed) ==
    LET a == receipt.checkpoint
        b == revocation.checkpoint
        seen == {a, b} \cup observed
    IN  IF keyId # revokedKey THEN "rejected_unprovable"
        ELSE IF \/ countQuorumWitnesses(a) < Quorum
                \/ countQuorumWitnesses(b) < Quorum
             THEN "rejected_unauthenticated"
        ELSE IF detectSplitView(seen) \/ detectFederationSplitView(seen)
             THEN "rejected_equivocation"
        ELSE IF \/ ~included(receipt)
                \/ ~isRevocationRecord(revocation.payload, keyId)
                \/ ~included(revocation)
                \/ ~bound(a, b)
             THEN "rejected_unprovable"
        ELSE IF receipt.index < revocation.index
             THEN "valid_pre_revocation"
        ELSE "rejected_post_revocation"

-----------------------------------------------------------------------------
(* Properties.                                                             *)

\* The state is well-formed.
TypeOK ==
    /\ log \in Trees
    /\ now \in Time
    /\ heads \subseteq Checkpoint

\* The log holds the payload at the (zero-based) index.
Commits(payload, i) == i < Len(log) /\ log[i + 1] = payload

\* The log holds the payload.
Committed(payload) == \E i \in 1 .. Len(log) : log[i] = payload

honestlySigned(h) == validWitnesses(h) \ Faulty # {}

\* The inclusion proofs that verify under a checkpoint, for any size and index.
proofsUnder(h) ==
    {x \in [checkpoint : {h}, payload : Leaf, size : Sizes, index : Sizes] :
        included(x)}

authenticated == {h \in heads : countQuorumWitnesses(h) >= Quorum}

OrderVerdicts == {"valid_pre_revocation", "rejected_post_revocation"}

\* What is behind an ordering verdict, whatever sizes and indices the proofs
\* name.  A leaf shown under a checkpoint that an honest witness signed is in
\* the log.  Where both proofs name the size of their checkpoint, the position
\* is the log's too, and one honest signature on the checkpoint of the later
\* of the two positions vouches for both, whatever the faulty witnesses put on
\* the other checkpoint.
VerdictsFollowTheLog ==
    \A a, b \in authenticated : honestlySigned(a) \/ honestlySigned(b) =>
        \A x \in proofsUnder(a), y \in proofsUnder(b), k, rk \in Keys :
            standing(k, x, y, rk, {}) \in OrderVerdicts =>
                /\ honestlySigned(a) => Committed(x.payload)
                /\ honestlySigned(b) => Committed(y.payload)
                /\ x.size = a.size /\ y.size = b.size =>
                      /\ honestlySigned(a) =>
                            /\ Commits(x.payload, x.index)
                            /\ y.index <= x.index => Commits(y.payload, y.index)
                      /\ honestlySigned(b) =>
                            /\ Commits(y.payload, y.index)
                            /\ x.index <= y.index => Commits(x.payload, x.index)

\* A receipt judged valid precedes a revocation record of its key in the log,
\* as authenticatedRevocation.ts claims wherever no quorum is faulty.  The code
\* does not keep this: the size and the index of an inclusion proof are the
\* proof's own.
ValidPrecedesRevocation ==
    \A a, b \in authenticated :
        \A x \in proofsUnder(a), y \in proofsUnder(b), k \in Keys :
            /\ x.payload \notin RecordsOf[k]
            /\ standing(k, x, y, k, {}) = "valid_pre_revocation"
            => \E i, j \in 1 .. Len(log) :
                   i < j /\ log[i] = x.payload /\ log[j] \in RecordsOf[k]

\* A fraud proof accuses faulty witnesses only: whatever heads circulate, no
\* honest witness is ever shown to have signed a split view.
NoFalseAccusation ==
    \A w \in Witnesses, a, b \in heads :
        verifySplitViewFraudProof(w, a, b) => w \in Faulty

\* When quorums are majorities, two quorum-signed histories of one size can
\* be laid at the door of a faulty witness: the fork needs no federation-wide
\* proof, the single-witness one finds a culprit.
ForksAreAttributed ==
    2 * Quorum > Cardinality(Witnesses) =>
        \A a, b \in heads :
            verifyFederationSplitViewProof(a, b) =>
                \E w \in Faulty : verifySplitViewFraudProof(w, a, b)

=============================================================================
