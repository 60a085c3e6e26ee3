--------------------------- MODULE WitnessedTree ---------------------------
(* The witnessed log over the tree of merkle.ts.                           *)
EXTENDS WitnessLog, MerkleLog

\* The proofs merkle.ts generates for the log are the ones it accepts: that
\* an earlier log is a prefix of it, and that a payload is in it
\* (merkle.ts:61, 84, 145, 173).
GeneratedProofsVerify ==
    \A n \in 0 .. Len(log) :
        /\ verifyConsistencyProof(
               computeMerkleRoot(Prefix(log, n)), computeMerkleRoot(log),
               getConsistencyProof(n, log))
        /\ n > 0 => verifyInclusionProof(
               log[n], getInclusionProof(n - 1, log), computeMerkleRoot(log))

=============================================================================
