--------------------------- MODULE MCReceiptChain ---------------------------
(***************************************************************************)
(* Small instances of ReceiptChain for TLC.  Three calls are enough for    *)
(* every race of the code: two that contend and one that moves the head    *)
(* between any two of their steps.                                         *)
(***************************************************************************)
EXTENDS ReceiptChain

OneTenant == [e \in Emissions |-> "tenant-a"]
OneBody == [e \in Emissions |-> "body-1"]

\* Retries: e1 and e2 emit one request, with equal content when they started
\* at the same time; e3 emits another.
RetryRequestOf == [e \in Emissions |-> IF e = "e3" THEN "req-2" ELSE "req-1"]

\* Contention: three different requests on one chain.
ContendRequestOf ==
    [e \in Emissions |-> CASE e = "e1" -> "req-1"
                           [] e = "e2" -> "req-2"
                           [] e = "e3" -> "req-3"]
=============================================================================
