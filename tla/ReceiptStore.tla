---------------------------- MODULE ReceiptStore ----------------------------
(***************************************************************************)
(* What a caller of DecisionReceiptEmitter.emit may rely on, without       *)
(* chains, markers or attempts: the first content recorded for a request   *)
(* stays, a caller is handed a receipt only when the store holds exactly   *)
(* its content, and a call that fails may have recorded its content all    *)
(* the same.  ReceiptChain provides this interface to its callers and      *)
(* GovernedInvoke is the caller that uses it.                              *)
(***************************************************************************)

CONSTANTS
    Callers,
    KeyOf     \* [Callers -> the tenant and request id it emits for]

VARIABLES
    stored,   \* [keys -> the content recorded for the request, or None]
    held      \* [Callers -> the content of the receipt it was handed, None
              \* before it was answered, Lost when it has no receipt]

storeVars == << stored, held >>

None == [kind |-> "none"]
Lost == [kind |-> "lost"]

StoreInit ==
    /\ stored = [k \in {KeyOf[c] : c \in Callers} |-> None]
    /\ held = [c \in Callers |-> None]

\* The store may take in content for the request of c, once.
MayRecord(c) ==
    LET k == KeyOf[c] IN
    /\ stored' = [stored EXCEPT ![k] = stored'[k]]
    /\ stored[k] \in {None, stored'[k]}

\* c is handed the receipt of its request, new or from an earlier call.
Return(c) ==
    /\ held[c] = None
    /\ MayRecord(c)
    /\ stored'[KeyOf[c]] # None
    /\ held' = [held EXCEPT ![c] = stored'[KeyOf[c]]]

\* emit rejects, or its caller is gone before the answer.
Fail(c) ==
    /\ held[c] = None
    /\ MayRecord(c)
    /\ held' = [held EXCEPT ![c] = Lost]

\* A caller that was handed its receipt gives it up or dies with it.
Drop(c) ==
    /\ held[c] \notin {None, Lost}
    /\ held' = [held EXCEPT ![c] = Lost]
    /\ UNCHANGED stored

StoreNext == \E c \in Callers : Return(c) \/ Fail(c) \/ Drop(c)

StoreSpec == StoreInit /\ [][StoreNext]_storeVars
=============================================================================
