---------------------------- MODULE MCDabGateway ----------------------------
(***************************************************************************)
(* Small instances of DabGateway for TLC.                                  *)
(***************************************************************************)
EXTENDS DabGateway

\* r1 and r2 replay one nonce with the same bytes.  The other nonce is used by
\* r3, which declares a digest its payload does not have, and by r4, which
\* does not decode.
ReplayNonce == [r \in Requests |-> IF r \in {"r1", "r2"} THEN "n1" ELSE "n2"]
DeclaredDigest == [r \in Requests |-> IF r = "r3" THEN "d2" ELSE "d1"]
DerivedDigest == [r \in Requests |-> IF r = "r4" THEN Undecodable ELSE "d1"]
=============================================================================
