----------------------------- MODULE MerkleLog -----------------------------
(***************************************************************************)
(* The Merkle tree of the transparency log (research-frontier merkle.ts):  *)
(* roots, inclusion proofs and consistency proofs over a list of payloads. *)
(* Indices are those of the code, from 0.                                  *)
(*                                                                         *)
(* SHA-256 is taken to be free of collisions: a hash is the term it was    *)
(* computed from, and the domain prefixes keep leaves and nodes apart.     *)
(*                                                                         *)
(* The recursive functions of the code are recursive functions here, over  *)
(* the arguments that change from call to call.                            *)
(***************************************************************************)
EXTENDS Integers, Sequences

EMPTY_TREE_ROOT == << "empty" >>
leafHash(payload) == << "leaf", payload >>
nodeHash(left, right) == << "node", left, right >>

\* The power the loop has reached after so many rounds, and where it stops:
\* for n > 1 the largest power of two below n, where a tree is split.
doubledBelow(n) ==
    LET power[round \in Nat] ==
            IF round = 0 THEN 1
            ELSE LET last == power[round - 1]
                 IN  IF last * 2 < n THEN last * 2 ELSE last
    IN  power
largestPowerOfTwoLessThan(n) == doubledBelow(n)[n]

\* The ranges, from the first index up to and not including the second, of a
\* tree of n leaves.
ranges(n) == {range \in (0 .. n) \X (0 .. n) : range[1] < range[2]}
sizeOf(range) == range[2] - range[1]
splitOf(range) == range[1] + largestPowerOfTwoLessThan(sizeOf(range))
leftOf(range) == << range[1], splitOf(range) >>
rightOf(range) == << splitOf(range), range[2] >>

\* The root over the payloads of a range.
merkleRootForRange(payloads) ==
    LET root[range \in ranges(Len(payloads))] ==
            IF sizeOf(range) = 1 THEN leafHash(payloads[range[1] + 1])
            ELSE nodeHash(root[leftOf(range)], root[rightOf(range)])
    IN  root

computeMerkleRoot(payloads) ==
    IF payloads = << >> THEN EMPTY_TREE_ROOT
    ELSE merkleRootForRange(payloads)[<< 0, Len(payloads) >>]

-----------------------------------------------------------------------------
(* Inclusion.                                                              *)

\* Mutant of inclusionPathForRange: the sibling of a leaf in the right half
\* is taken from the leaf's own half.
inclusionPathOwnHalf(i, payloads) ==
    LET root == merkleRootForRange(payloads)
        path[range \in ranges(Len(payloads))] ==
            IF sizeOf(range) = 1 THEN << >>
            ELSE IF i < splitOf(range)
            THEN Append(path[leftOf(range)],
                        [position |-> "right", hash |-> root[rightOf(range)]])
            ELSE Append(path[rightOf(range)],
                        [position |-> "left", hash |-> root[rightOf(range)]])
    IN  path

\* The siblings of leaf i within a range, from the leaf upwards.
inclusionPathForRange(i, payloads) ==
    LET root == merkleRootForRange(payloads)
        path[range \in ranges(Len(payloads))] ==
            IF sizeOf(range) = 1 THEN << >>
            ELSE IF i < splitOf(range)
            THEN Append(path[leftOf(range)],
                        [position |-> "right", hash |-> root[rightOf(range)]])
            ELSE Append(path[rightOf(range)],
                        [position |-> "left", hash |-> root[leftOf(range)]])
    IN  path

getInclusionProof(i, payloads) ==
    [tree_size |-> Len(payloads), leaf_index |-> i,
     leaf_hash |-> leafHash(payloads[i + 1]),
     root_hash |-> computeMerkleRoot(payloads),
     audit_path |-> inclusionPathForRange(i, payloads)[<< 0, Len(payloads) >>]]

\* The sides on which those siblings lie, in a tree of the given size.
inclusionPathPositionsForRange(i, treeSize) ==
    LET positions[range \in ranges(treeSize)] ==
            IF sizeOf(range) = 1 THEN << >>
            ELSE IF i < splitOf(range)
            THEN Append(positions[leftOf(range)], "right")
            ELSE Append(positions[rightOf(range)], "left")
    IN  positions

\* The hashes computed from a leaf's along the steps of a path.
climb(hash, path) ==
    LET computed[n \in 0 .. Len(path)] ==
            IF n = 0 THEN hash
            ELSE IF path[n].position = "left"
            THEN nodeHash(path[n].hash, computed[n - 1])
            ELSE nodeHash(computed[n - 1], path[n].hash)
    IN  computed

\* The size of the tree and the index of the leaf are the proof's own.
verifyInclusionProof(payload, proof, expectedRoot) ==
    LET path == proof.audit_path
        positions == inclusionPathPositionsForRange(
                         proof.leaf_index, proof.tree_size)[<< 0, proof.tree_size >>]
    IN  /\ proof.leaf_index \in 0 .. proof.tree_size - 1
        /\ leafHash(payload) = proof.leaf_hash
        /\ Len(positions) = Len(path)
        /\ \A n \in 1 .. Len(path) : path[n].position = positions[n]
        /\ climb(proof.leaf_hash, path)[Len(path)] = expectedRoot

-----------------------------------------------------------------------------
(* Consistency.                                                            *)

\* Calls of consistencySubproof: that the first `old` payloads of a range are
\* a prefix of it.
Subproofs(n) ==
    {c \in [range : ranges(n), old : 1 .. n, includeOldRoot : BOOLEAN] :
        c.old <= sizeOf(c.range)}

\* The call for the half in which the old tree ends, and the other half.
inner(c) ==
    IF c.old <= sizeOf(leftOf(c.range)) THEN [c EXCEPT !.range = leftOf(c.range)]
    ELSE [range |-> rightOf(c.range), old |-> c.old - sizeOf(leftOf(c.range)),
          includeOldRoot |-> FALSE]
outer(c) ==
    IF c.old <= sizeOf(leftOf(c.range)) THEN rightOf(c.range) ELSE leftOf(c.range)

consistencySubproof(payloads) ==
    LET root == merkleRootForRange(payloads)
        subproof[c \in Subproofs(Len(payloads))] ==
            IF c.old = sizeOf(c.range)
            THEN IF c.includeOldRoot THEN << >> ELSE << root[c.range] >>
            ELSE Append(subproof[inner(c)], root[outer(c)])
    IN  subproof

getConsistencyProof(old, payloads) ==
    [old_tree_size |-> old, new_tree_size |-> Len(payloads),
     audit_path |->
        IF old = 0 \/ old = Len(payloads) THEN << >>
        ELSE consistencySubproof(payloads)[
                 [range |-> << 0, Len(payloads) >>, old |-> old,
                  includeOldRoot |-> TRUE]]]

\* No result: the path is too short.
NoResult == [cursor |-> -1, old |-> EMPTY_TREE_ROOT, new |-> EMPTY_TREE_ROOT]

\* The arguments that change in calls of verifyConsistencySubproof.
States(n) ==
    {s \in [old : 1 .. n, new : 1 .. n, includeOldRoot : BOOLEAN] : s.old <= s.new}
splitSize(s) == largestPowerOfTwoLessThan(s.new)
inLeft(s) == s.old <= splitSize(s)
halfOf(s) ==
    IF inLeft(s) THEN [s EXCEPT !.new = splitSize(s)]
    ELSE [old |-> s.old - splitSize(s), new |-> s.new - splitSize(s),
          includeOldRoot |-> FALSE]

\* What is reconstructed from the path: its roots, and how much of it was used.
verifyConsistencySubproof(newTreeSize, path, oldRoot) ==
    LET result[s \in States(newTreeSize)] ==
            LET half == result[halfOf(s)]
                other == path[half.cursor + 1]
            IN  IF s.old = s.new
                THEN IF s.includeOldRoot
                     THEN [cursor |-> 0, old |-> oldRoot, new |-> oldRoot]
                     ELSE IF path = << >> THEN NoResult
                     ELSE [cursor |-> 1, old |-> path[1], new |-> path[1]]
                ELSE IF half.cursor \notin 0 .. Len(path) - 1 THEN NoResult
                ELSE [cursor |-> half.cursor + 1,
                      old |-> IF inLeft(s) THEN half.old
                              ELSE nodeHash(other, half.old),
                      new |-> IF inLeft(s) THEN nodeHash(half.new, other)
                              ELSE nodeHash(other, half.new)]
    IN  result

verifyConsistencyProof(oldRoot, newRoot, proof) ==
    LET old == proof.old_tree_size
        new == proof.new_tree_size
        path == proof.audit_path
        result == verifyConsistencySubproof(new, path, oldRoot)[
                      [old |-> old, new |-> new, includeOldRoot |-> TRUE]]
    IN  /\ old <= new
        /\ IF old = 0
           THEN /\ oldRoot = EMPTY_TREE_ROOT
                /\ new > 0 \/ newRoot = EMPTY_TREE_ROOT
                /\ path = << >>
           ELSE IF old = new
           THEN path = << >> /\ oldRoot = newRoot
           ELSE /\ result.cursor = Len(path)
                /\ result.old = oldRoot
                /\ result.new = newRoot

=============================================================================
