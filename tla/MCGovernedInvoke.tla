-------------------------- MODULE MCGovernedInvoke --------------------------
(***************************************************************************)
(* A small instance of GovernedInvoke for TLC.  The three calls carry one  *)
(* nonce: c2 is a duplicate of c1, request id included, and c3 is the      *)
(* retry of an API client, under a request id of its own.                  *)
(***************************************************************************)
EXTENDS GovernedInvoke

OneTenant == [q \in Calls |-> "tenant-a"]
OneUser == [q \in Calls |-> "user-1"]
OneNonce == [q \in Calls |-> "nonce-1"]
OneInput == [q \in Calls |-> "input-1"]
RetryRequestIds == [q \in Calls |-> IF q = "c3" THEN "req-2" ELSE "req-1"]
NoConsent == [q \in Calls |-> "missing"]

\* c1 and c2 write one record; c3's memory needs a consent it does not have.
MemoryWrites ==
    [q \in Calls |-> [tier |-> IF q = "c3" THEN "RESTRICTED" ELSE "CONSTITUTION",
                      expires |-> FALSE, digest |-> "digest-1"]]

\* c1 and c2 bring a tainted context of their own and ask for no provider, and
\* their options let its digest pass; c3 retrieves under the strict options.
\* The two candidates have one digest, by which a prompt picks its contexts.
Foreign == [tenant |-> "tenant-b", taint |-> {"trusted"}, digest |-> "d1"]
Tainted == [tenant |-> "tenant-a", taint |-> {"untrusted_instruction"},
            digest |-> "d1"]
MixedContexts == {Foreign, Tainted}
Retrieval == [q \in Calls |-> TRUE]
CallerSupplies == [q \in Calls |-> IF q = "c3" THEN {} ELSE {Tainted}]

\* c3 goes past the gateway: nothing records its transit.
Deployments ==
    [q \in Calls |-> [gatewayBound |-> q # "c3", hasProvider |-> q = "c3",
                      rejectCallerContexts |-> q = "c3",
                      requireProvider |-> q = "c3",
                      allowTaintedDigestOnly |-> FALSE]]
=============================================================================
