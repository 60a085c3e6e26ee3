--------------------------- MODULE CheckpointTree ---------------------------
(***************************************************************************)
(* The Merkle tree of an epoch checkpoint (receipts/checkpoint.ts) over    *)
(* the chain heads of the tenants: a layer of odd length is completed by   *)
(* its own last hash.  SHA-256 is taken to be free of collisions: a hash   *)
(* is the term it was computed from.  Tenants are numbers, for their order.*)
(***************************************************************************)
EXTENDS Integers, Sequences, FiniteSets, TLC

CONSTANTS
    HeadHash,   \* hashes of the receipts at the heads of chains
    HeadLists   \* lists of heads the tree is built over

ChainHead == [tenantId : Int, headHash : HeadHash]

ASSUME HeadsAssumption == HeadLists \subseteq Seq(ChainHead)

\* A plausible slip: the heads are sorted, but a tenant may occur twice.
normalizeKeepingAll(list) ==
    SortSeq(list, LAMBDA a, b : a.tenantId < b.tenantId)

tenantsOf(list) == {list[i].tenantId : i \in DOMAIN list}
ranked(tenants, i) ==
    CHOOSE t \in tenants : Cardinality({u \in tenants : u <= t}) = i
lastOf(list, t) ==
    CHOOSE i \in DOMAIN list :
        /\ list[i].tenantId = t
        /\ \A j \in DOMAIN list : list[j].tenantId = t => j <= i

\* The last head given for a tenant counts; tenants in order.
normalizeChainHeadLeaves(list) ==
    [i \in 1 .. Cardinality(tenantsOf(list)) |->
        list[lastOf(list, ranked(tenantsOf(list), i))]]

receiptChainHeadLeafHash(leaf) == << "leaf", leaf >>
merkleParentHash(left, right) == << "node", left, right >>

leafHashes(list) ==
    [i \in DOMAIN normalizeChainHeadLeaves(list) |->
        receiptChainHeadLeafHash(normalizeChainHeadLeaves(list)[i])]

\* The hash beside the i-th of a layer, counted from 1; its own where none is.
sibling(layer, i) ==
    LET j == IF i % 2 = 1 THEN i + 1 ELSE i - 1
    IN  layer[IF j \in DOMAIN layer THEN j ELSE i]

layerAbove(layer) ==
    [i \in 1 .. (Len(layer) + 1) \div 2 |->
        merkleParentHash(layer[2 * i - 1], sibling(layer, 2 * i - 1))]

\* The layers the loops build over a bottom layer, and where the i-th hash of
\* the bottom lies below each.
layersOver(bottom) ==
    LET layer[k \in 0 .. Len(bottom)] ==
            IF k = 0 THEN bottom ELSE layerAbove(layer[k - 1])
    IN  layer
indexAbove(bottom, i) ==
    LET index[k \in 0 .. Len(bottom)] ==
            IF k = 0 THEN i ELSE (index[k - 1] + 1) \div 2
    IN  index

\* The loops end at the first layer of one hash.
height(bottom) ==
    CHOOSE k \in 0 .. Len(bottom) :
        /\ Len(layersOver(bottom)[k]) = 1
        /\ \A j \in 0 .. Len(bottom) : Len(layersOver(bottom)[j]) = 1 => k <= j

merkleRootForLeaves(list) ==
    LET bottom == leafHashes(list)
    IN  IF bottom = << >> THEN << "empty" >>
        ELSE layersOver(bottom)[height(bottom)][1]

\* The step of a proof from the k-th layer, counted from 0, to the next.
proofStep(bottom, i, k) ==
    LET index == indexAbove(bottom, i)[k]
    IN  [position |-> IF index % 2 = 1 THEN "right" ELSE "left",
         hash |-> sibling(layersOver(bottom)[k], index)]

\* A plausible slip: the last hash of an odd layer is carried up unpaired.
pathCarried(bottom, i) ==
    LET paired(k) == proofStep(bottom, i, k - 1).hash #
                        layersOver(bottom)[k - 1][indexAbove(bottom, i)[k - 1]]
        levels == SelectSeq([k \in 1 .. height(bottom) |-> k], paired)
    IN  [n \in DOMAIN levels |-> proofStep(bottom, i, levels[n] - 1)]

path(bottom, i) ==
    [k \in 1 .. height(bottom) |-> proofStep(bottom, i, k - 1)]

\* The proof for the i-th leaf of the normalised heads.
proofAt(list, i) ==
    [leaf |-> normalizeChainHeadLeaves(list)[i],
     leafHash |-> receiptChainHeadLeafHash(normalizeChainHeadLeaves(list)[i]),
     proof |-> path(leafHashes(list), i),
     root |-> merkleRootForLeaves(list)]

\* The proof for a head; none, the call throws, unless the head is among the
\* normalised ones.
buildMerkleInclusionProof(list, target) ==
    {proofAt(list, i) : i \in {j \in DOMAIN normalizeChainHeadLeaves(list) :
                                normalizeChainHeadLeaves(list)[j] = target}}

\* The hashes computed from a leaf along the steps of its proof.
computedAlong(leaf, steps) ==
    LET computed[k \in 0 .. Len(steps)] ==
            IF k = 0 THEN receiptChainHeadLeafHash(leaf)
            ELSE IF steps[k].position = "left"
            THEN merkleParentHash(steps[k].hash, computed[k - 1])
            ELSE merkleParentHash(computed[k - 1], steps[k].hash)
    IN  computed

verifyMerkleInclusionProof(proof, expectedRoot) ==
    /\ receiptChainHeadLeafHash(proof.leaf) = proof.leafHash
    /\ computedAlong(proof.leaf, proof.proof)[Len(proof.proof)] = expectedRoot

-----------------------------------------------------------------------------
(* The tree has no state of its own: a behaviour stays at two lists.       *)
VARIABLES
    heads,      \* the heads of a checkpoint
    other       \* the heads of another one

TreeInit == heads \in HeadLists /\ other \in HeadLists
TreeSpec == TreeInit /\ [][UNCHANGED << heads, other >>]_<< heads, other >>

\* Whatever the number of tenants, odd layers included, a proof can be built
\* for every head that counts, and it verifies against the root of the same
\* heads (checkpoint.ts:91, 127).
CheckpointProofsVerify ==
    \A i \in DOMAIN normalizeChainHeadLeaves(heads) :
        \E proof \in buildMerkleInclusionProof(
                            heads, normalizeChainHeadLeaves(heads)[i]) :
            verifyMerkleInclusionProof(proof, merkleRootForLeaves(heads))

\* A root binds the heads it was made of, though an odd layer repeats its last
\* hash: lists with one root are one list once normalised (checkpoint.ts:54, 83).
CheckpointRootsBind ==
    merkleRootForLeaves(heads) = merkleRootForLeaves(other) =>
        normalizeChainHeadLeaves(heads) = normalizeChainHeadLeaves(other)

=============================================================================
