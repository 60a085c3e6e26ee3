---------------------------- MODULE MCWitnessLog ----------------------------
(* Instances of WitnessLog over the tree of MerkleLog, for TLC.            *)
EXTENDS WitnessedTree

CONSTANTS w1, w2, w3, r, rec, key

isNode(h) == Len(h) = 3

\* The siblings along the first n positions of a path up to root, as far as
\* root has the shape: the only audit path that can reconstruct root.
RECURSIVE siblingsBelow(_, _, _)
siblingsBelow(root, positions, n) ==
    IF n = 0 \/ ~isNode(root) THEN << >>
    ELSE LET left == positions[n] = "left"
         IN  Append(siblingsBelow(root[IF left THEN 3 ELSE 2], positions, n - 1),
                    [position |-> positions[n],
                     hash |-> root[IF left THEN 2 ELSE 3]])

\* The audit path read off the root of the new tree, as far as it has the
\* shape: the only one that can reconstruct it.
RECURSIVE pathBelow(_, _, _, _)
pathBelow(root, old, new, includeOldRoot) ==
    IF old = new THEN IF includeOldRoot THEN << >> ELSE << root >>
    ELSE IF ~isNode(root) THEN << >>
    ELSE LET size == largestPowerOfTwoLessThan(new)
         IN  IF old <= size
             THEN Append(pathBelow(root[2], old, size, includeOldRoot), root[3])
             ELSE Append(pathBelow(root[3], old - size, new - size, FALSE),
                         root[2])

rootOf(payloads) == computeMerkleRoot(payloads)

\* Some audit path makes payload the leaf at index i of a tree of the given
\* size with the given root.
somePathOpens(root, size, i, payload) ==
    /\ i \in 0 .. size - 1
    /\ LET positions == inclusionPathPositionsForRange(i, size)[<< 0, size >>]
       IN  verifyInclusionProof(payload,
               [tree_size |-> size, leaf_index |-> i,
                leaf_hash |-> leafHash(payload), root_hash |-> root,
                audit_path |-> siblingsBelow(root, positions, Len(positions))],
               root)

\* Some audit path shows the tree of the first m payloads to be a prefix of
\* that of n.
somePathLinks(old, m, new, n) ==
    /\ m <= n
    /\ verifyConsistencyProof(old, new,
           [old_tree_size |-> m, new_tree_size |-> n,
            audit_path |-> IF m = 0 \/ m = n THEN << >>
                           ELSE pathBelow(new, m, n, TRUE)])

\* Both, worked out once for every root and size.
OpenTable ==
    {x \in Roots \X Sizes \X Sizes \X Leaf :
        somePathOpens(x[1], x[2], x[3], x[4])}
LinkTable ==
    {x \in Roots \X Sizes \X Roots \X Sizes :
        somePathLinks(x[1], x[2], x[3], x[4])}
opens(root, size, i, payload) == << root, size, i, payload >> \in OpenTable
consistent(old, m, new, n) == << old, m, new, n >> \in LinkTable

ThreeWitnesses == {w1, w2, w3}
TwoFaulty == {w2, w3}
\* A receipt and the revocation record of its key.
Payloads == {r, rec}
OneKey == {key}
KeyRecords == [k \in OneKey |-> {rec}]

\* Other histories, and a root under a size that is not its own.
Histories == { << rec, r >>, << rec, r, rec >> }
Forgeries ==
    {[root |-> rootOf(t), size |-> Len(t)] : t \in Histories}
        \cup {[root |-> rootOf(<< r, rec >>), size |-> 3]}

\* The key of w3 is revoked at 1.
WitnessKeys ==
    [w \in ThreeWitnesses |->
        [validFrom |-> 0, validUntil |-> Never,
         status |-> IF w = w3 THEN "REVOKED" ELSE "ACTIVE",
         revokedAt |-> IF w = w3 THEN 1 ELSE Never]]

=============================================================================
