-------------------------- MODULE MCVaultLifecycle --------------------------
(***************************************************************************)
(* A small instance of VaultLifecycle for TLC: a write of a                *)
(* CONSTITUTION record that expires and is sent again, one of an AUDIT     *)
(* record with the same content, a write that is refused, and calls that   *)
(* tombstone and delete.                                                   *)
(***************************************************************************)
EXTENDS VaultLifecycle

Record(tier, t) ==
    [owner |-> "user-1", session |-> "none", tier |-> tier,
     contentDigest |-> "d1", expiresAt |-> t]

MCKindOf ==
    [c \in Calls |-> CASE c \in {"w1", "audit", "kappa"} -> "write"
                       [] c = "tomb" -> "tombstone"
                       [] c \in {"del", "delAudit"} -> "delete"]
MCRecordOf ==
    [c \in Calls |-> CASE c = "w1" -> Record("CONSTITUTION", 1)
                       [] c \in {"audit", "delAudit"} -> Record("AUDIT", Never)
                       [] c = "kappa" -> Record("KAPPA", Never)
                       [] OTHER -> Record("CONSTITUTION", Never)]
OneUser == [c \in Calls |-> "user-1"]
=============================================================================
