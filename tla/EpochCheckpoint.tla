-------------------------- MODULE EpochCheckpoint --------------------------
(***************************************************************************)
(* The scheduled worker that signs an epoch checkpoint over the tenants'   *)
(* chain heads, stores it in the checkpoint table and publishes it to an   *)
(* object-locked bucket, while receipts keep being appended.               *)
(*                                                                         *)
(* EventBridge delivers the schedule at least once and Lambda repeats a    *)
(* failed asynchronous invocation, so several invocations of the handler   *)
(* may overlap, in one epoch or across two.  Each may crash at any await.  *)
(* The chain of a tenant is given by its length: ReceiptChain shows that   *)
(* it grows by one receipt at a time and never forks, so a length is a     *)
(* head.                                                                   *)
(***************************************************************************)
EXTENDS Integers, Sequences

CONSTANTS
    Workers,        \* invocations of the handler
    Tenants,
    ScanOrder,      \* Seq(Tenants): the order of the table's partitions
    PageItems,      \* items the table returns in one page of a Scan
    MaxChain,       \* [Tenants -> Nat]: bounds of the chains' lengths
    MaxTime,        \* bound of the clock
    TicksPerHour,   \* granularity of the clock
    EpochOverride,  \* [Workers -> the epoch the environment names, or None]
    None            \* no checkpoint

ASSUME CheckpointAssumption ==
    /\ PageItems \in Nat \ {0}
    /\ MaxChain \in [Tenants -> Nat]
    /\ MaxTime \in Nat
    /\ TicksPerHour \in Nat \ {0}
    /\ EpochOverride \in [Workers -> Nat \cup {None}]
    /\ ScanOrder \in Seq(Tenants)
    /\ \A t \in Tenants : \E i \in 1 .. Len(ScanOrder) : ScanOrder[i] = t
    /\ None \notin Workers

VARIABLES
    chain,      \* [Tenants -> length of the tenant's receipt chain]
    now,        \* the clock
    pc,         \* [Workers -> where the invocation is suspended]
    createdAt,  \* [Workers -> the clock when it began]
    at,         \* [Workers -> next partition the Scan evaluates]
    room,       \* [Workers -> items the page has left]
    leaves,     \* [Workers -> [Tenants -> head the Scan returned, 0 if none]]
    table,      \* [Epoch -> invocation whose checkpoint is stored, or None]
    bucket,     \* [Epoch -> invocation whose checkpoint is published, or None]
    atStart     \* history: chains and stored checkpoints when it began

vars == << chain, now, pc, createdAt, at, room, leaves, table, bucket,
           atStart >>
scanning == << at, room, leaves >>
stores == << table, bucket >>

Time == 0 .. MaxTime
Place == {"idle", "scan", "sign", "put", "resend", "publish", "done",
          "failed"}
Ended == {"done", "failed"}

\* createdAt cut off after the hour.
defaultEpochId(t) == t \div TicksPerHour
Epoch == {defaultEpochId(t) : t \in Time}
            \cup ({EpochOverride[w] : w \in Workers} \ {None})

\* GHOST_ARK_RECEIPT_CHECKPOINT_EPOCH_ID, where it is set, names the epoch
\* whatever the clock says.
epochId(w) ==
    IF EpochOverride[w] # None THEN EpochOverride[w]
    ELSE defaultEpochId(createdAt[w])

Stored == {table[e] : e \in Epoch} \ {None}
Chains == [Tenants -> Nat]

Init ==
    /\ chain = [t \in Tenants |-> 0]
    /\ now = 0
    /\ pc = [w \in Workers |-> "idle"]
    /\ createdAt = [w \in Workers |-> 0]
    /\ at = [w \in Workers |-> 1]
    /\ room = [w \in Workers |-> PageItems]
    /\ leaves = [w \in Workers |-> [t \in Tenants |-> 0]]
    /\ table = [e \in Epoch |-> None]
    /\ bucket = [e \in Epoch |-> None]
    /\ atStart = [w \in Workers |->
                    [chain |-> [t \in Tenants |-> 0], stored |-> {}]]

-----------------------------------------------------------------------------
(* The receipts' side.                                                     *)

\* putIfAbsent commits a receipt: receipt, request marker and head together.
Commit(t) ==
    /\ chain[t] < MaxChain[t]
    /\ chain' = [chain EXCEPT ![t] = @ + 1]
    /\ UNCHANGED << now, pc, createdAt, scanning, stores, atStart >>

\* A partition holds the head and, for each receipt, the receipt and the
\* marker of its request.
partitionItems(length) == IF length = 0 THEN 0 ELSE 1 + 2 * length

-----------------------------------------------------------------------------
(* The handler.                                                            *)

Goto(w, place) == pc' = [pc EXCEPT ![w] = place]

\* The clock is read once; the epoch is fixed however long the rest takes.
Start(w) ==
    /\ pc[w] = "idle"
    /\ createdAt' = [createdAt EXCEPT ![w] = now]
    /\ atStart' = [atStart EXCEPT ![w] = [chain |-> chain, stored |-> Stored]]
    /\ Goto(w, "scan")
    /\ UNCHANGED << chain, now, scanning, stores >>

\* Mutant of ScanPartition: a Scan without ConsistentRead.
ScanLaggingPartition(w) ==
    /\ pc[w] = "scan"
    /\ at[w] <= Len(ScanOrder)
    /\ room[w] > 0
    /\ \E n \in 0 .. chain[ScanOrder[at[w]]] :
          /\ chain[ScanOrder[at[w]]] > 0 => n > 0
          /\ leaves' = [leaves EXCEPT ![w] =
                           [@ EXCEPT ![ScanOrder[at[w]]] = n]]
    /\ room' = [room EXCEPT ![w] =
                    @ - partitionItems(chain[ScanOrder[at[w]]])]
    /\ at' = [at EXCEPT ![w] = @ + 1]
    /\ UNCHANGED << chain, now, pc, createdAt, stores, atStart >>

\* The head is the first item of its partition.  Items the filter drops
\* count against the page all the same.  Each item is read consistently,
\* but appends go on between two of them.
ScanPartition(w) ==
    /\ pc[w] = "scan"
    /\ at[w] <= Len(ScanOrder)
    /\ room[w] > 0
    /\ leaves' = [leaves EXCEPT ![w] =
                    [@ EXCEPT ![ScanOrder[at[w]]] = chain[ScanOrder[at[w]]]]]
    /\ room' = [room EXCEPT ![w] =
                    @ - partitionItems(chain[ScanOrder[at[w]]])]
    /\ at' = [at EXCEPT ![w] = @ + 1]
    /\ UNCHANGED << chain, now, pc, createdAt, stores, atStart >>

\* The cursor of the Scan is dropped with its page.
EndScan(w) ==
    /\ at' = [at EXCEPT ![w] = 1]
    /\ room' = [room EXCEPT ![w] = PageItems]

\* Mutant of ScanReturns: the page ends one partition early.
ScanReturnsEarly(w) ==
    /\ pc[w] = "scan"
    /\ at[w] >= Len(ScanOrder) \/ room[w] <= 0
    /\ Goto(w, "sign")
    /\ EndScan(w)
    /\ UNCHANGED << chain, now, createdAt, leaves, stores, atStart >>

\* listChainHeads returns the first page; LastEvaluatedKey is not followed.
ScanReturns(w) ==
    /\ pc[w] = "scan"
    /\ at[w] > Len(ScanOrder) \/ room[w] <= 0
    /\ Goto(w, "sign")
    /\ EndScan(w)
    /\ UNCHANGED << chain, now, createdAt, leaves, stores, atStart >>

\* signEpochCheckpoint over the root of the leaves.
Sign(w) ==
    /\ pc[w] = "sign"
    /\ Goto(w, "put")
    /\ UNCHANGED << chain, now, createdAt, scanning, stores, atStart >>

\* Mutant of epochIsFree: a put without a ConditionExpression.
epochIsFreeAlways(e) == TRUE

\* attribute_not_exists(epochId)
epochIsFree(e) == table[e] = None

\* The conditional put is applied; its answer arrives, or it is lost and the
\* SDK client sends the request again.
Put(w) ==
    /\ pc[w] = "put"
    /\ epochIsFree(epochId(w))
    /\ table' = [table EXCEPT ![epochId(w)] = w]
    /\ \E place \in {"publish", "resend"} : Goto(w, place)
    /\ UNCHANGED << chain, now, createdAt, scanning, bucket, atStart >>

\* ConditionalCheckFailedException is not caught: the handler throws.
PutRefused(w) ==
    /\ pc[w] = "put"
    /\ ~epochIsFree(epochId(w))
    /\ Goto(w, "failed")
    /\ UNCHANGED << chain, now, createdAt, scanning, stores, atStart >>

\* Mutant of Resend: the refusal of a repeated put is retried.
ResendForever(w) ==
    /\ pc[w] = "resend"
    /\ UNCHANGED vars

\* The repeated put meets the item of the first one and is refused.
Resend(w) ==
    /\ pc[w] = "resend"
    /\ Goto(w, "failed")
    /\ UNCHANGED << chain, now, createdAt, scanning, stores, atStart >>

\* PutObject has no condition.  When every answer is lost the handler throws
\* although the object is there; a repetition writes the same object.
Publish(w) ==
    /\ pc[w] = "publish"
    /\ bucket' = [bucket EXCEPT ![epochId(w)] = w]
    /\ \E place \in {"done", "failed"} : Goto(w, place)
    /\ UNCHANGED << chain, now, createdAt, scanning, table, atStart >>

\* The Scan, KMS, DynamoDB or S3 answers with an error and nothing applied,
\* or the Lambda is killed: out of time, or with its host.
Fail(w) ==
    /\ pc[w] \notin Ended \cup {"idle"}
    /\ Goto(w, "failed")
    /\ EndScan(w)
    /\ UNCHANGED << chain, now, createdAt, leaves, stores, atStart >>

Step(w) ==
    \/ ScanPartition(w) \/ ScanReturns(w) \/ Sign(w)
    \/ Put(w) \/ PutRefused(w) \/ Resend(w) \/ Publish(w)

Tick ==
    /\ now < MaxTime
    /\ now' = now + 1
    /\ UNCHANGED << chain, pc, createdAt, scanning, stores, atStart >>

Next ==
    \/ \E t \in Tenants : Commit(t)
    \/ \E w \in Workers : Start(w) \/ Step(w) \/ Fail(w)
    \/ Tick

Spec == Init /\ [][Next]_vars

\* The runtime drives an invocation on as long as its Lambda lives.
Fairness == \A w \in Workers : WF_vars(Step(w))
FairSpec == Spec /\ Fairness

-----------------------------------------------------------------------------
(* Properties.                                                             *)

\* The state is well-formed.
TypeOK ==
    /\ chain \in Chains
    /\ now \in Time
    /\ pc \in [Workers -> Place]
    /\ createdAt \in [Workers -> Time]
    /\ at \in [Workers -> 1 .. Len(ScanOrder) + 1]
    /\ room \in [Workers -> Int]
    /\ leaves \in [Workers -> Chains]
    /\ table \in [Epoch -> Workers \cup {None}]
    /\ bucket \in [Epoch -> Workers \cup {None}]
    /\ atStart \in [Workers -> [chain : Chains, stored : SUBSET Workers]]

\* The object a third party fetches for an epoch is the checkpoint the table
\* holds for it, whatever other invocations of the epoch did, and a handler
\* that returned has its own checkpoint in both.
PublishedIsStored ==
    /\ \A e \in Epoch : bucket[e] # None => bucket[e] = table[e]
    /\ \A w \in Workers :
          pc[w] = "done" => table[epochId(w)] = w /\ bucket[epochId(w)] = w

\* The checkpoint of an invocation that began when another's checkpoint was
\* already stored never shows a tenant's chain shorter than that one did.
\* So two stored checkpoints can be told apart from a rollback of a chain
\* unless their invocations overlapped.
SnapshotsExtend ==
    \A w \in Stored, v \in Workers : v \in atStart[w].stored =>
        \A t \in Tenants :
            leaves[w][t] # 0 => leaves[v][t] <= leaves[w][t]

\* The items of the first n partitions, for chains of the given lengths.
itemsUpTo(lengths) ==
    LET upTo[n \in 0 .. Len(ScanOrder)] ==
            IF n = 0 THEN 0
            ELSE upTo[n - 1] + partitionItems(lengths[ScanOrder[n]])
    IN  upTo

\* Invocation w has the head of the i-th partition, if there was one when it
\* began.
Covers(w, i) == atStart[w].chain[ScanOrder[i]] > 0 => leaves[w][ScanOrder[i]] > 0

\* A stored checkpoint covers every tenant that had a receipt when its
\* invocation began, except those whose partition lies behind a page of
\* other tenants' items.
CoversWhatFits ==
    \A w \in Stored, i \in 1 .. Len(ScanOrder) :
        itemsUpTo(chain)[i - 1] < PageItems => Covers(w, i)

\* "aggregate all tenant chain heads": a stored checkpoint covers every
\* tenant that had a receipt when its invocation began.
AllHeadsCovered ==
    \A w \in Stored, t \in Tenants :
        atStart[w].chain[t] > 0 => leaves[w][t] > 0

\* Every invocation ends: it returns, throws or is killed, however its puts
\* are answered.
HandlersEnd ==
    \A w \in Workers : pc[w] = "scan" ~> pc[w] \in Ended

-----------------------------------------------------------------------------
(* The inductive invariant behind PublishedIsStored and SnapshotsExtend.   *)

\* Past the conditional put.
Past == {"resend", "publish", "done", "failed"}

\* An invocation whose put was applied owns its epoch, and nothing but the
\* owner's checkpoint is published.
OwnersHold ==
    /\ \A w \in Workers :
          pc[w] \in {"resend", "publish", "done"} => table[epochId(w)] = w
    /\ \A w \in Workers : pc[w] = "done" => bucket[epochId(w)] = w
    /\ \A e \in Epoch : bucket[e] # None => bucket[e] = table[e]
    /\ \A e \in Epoch : table[e] # None => pc[table[e]] \in Past

\* A leaf lies between the chain at the invocation's start and the chain of
\* now.
LeavesBetween ==
    \A w \in Workers, t \in Tenants :
        /\ leaves[w][t] <= chain[t]
        /\ atStart[w].chain[t] <= chain[t]
        /\ leaves[w][t] # 0 => atStart[w].chain[t] <= leaves[w][t]
        /\ pc[w] = "idle" => leaves[w][t] = 0

\* The checkpoints stored when an invocation began are complete, and no
\* longer than the chains were then.
StoredThenBelow ==
    \A w \in Workers, v \in Workers : v \in atStart[w].stored =>
        /\ pc[v] \in Past
        /\ \A t \in Tenants : leaves[v][t] <= atStart[w].chain[t]

Inv == TypeOK /\ OwnersHold /\ LeavesBetween /\ StoredThenBelow

-----------------------------------------------------------------------------
(* The inductive invariant behind CoversWhatFits, on top of Inv.           *)

\* The Scan is through with the partitions before its cursor, and what it
\* took from the page is no more than those partitions hold by now.
ScanProgress ==
    \A w \in Workers :
        /\ pc[w] = "idle" => at[w] = 1 /\ room[w] = PageItems
        /\ pc[w] = "scan" =>
              /\ PageItems <= room[w] + itemsUpTo(chain)[at[w] - 1]
              /\ \A i \in 1 .. at[w] - 1 : Covers(w, i)

\* After the Scan an invocation has every head that fits in the page.
ScanComplete ==
    \A w \in Workers :
        pc[w] \in {"sign", "put"} \/ w \in Stored =>
            \A i \in 1 .. Len(ScanOrder) :
                itemsUpTo(chain)[i - 1] < PageItems => Covers(w, i)

ScanInv == Inv /\ ScanProgress /\ ScanComplete

=============================================================================
