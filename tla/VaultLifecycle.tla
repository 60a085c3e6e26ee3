--------------------------- MODULE VaultLifecycle ---------------------------
(***************************************************************************)
(* The life of a memory record in DynamoDbVaultStore: concurrent calls of  *)
(* write, tombstone and deleteErasable, and what get and list make of the  *)
(* table they leave.                                                       *)
(*                                                                         *)
(* Writes are conditional and go to the leader of the item's partition.    *)
(* get and list read without ConsistentRead and may be answered by a       *)
(* replica that lags, here by any delay.  tombstone and deleteErasable     *)
(* decide on such a read and then update or delete without a condition.    *)
(* The SDK client repeats a request whose answer was lost, byte for byte.  *)
(***************************************************************************)
EXTENDS Naturals

CONSTANTS
    Calls,          \* calls of the store
    KindOf,         \* [Calls -> Kind]
    IdentityOf,     \* [Calls -> tenant and user of the caller]
    RecordOf,       \* [Calls -> Request]; the record written, or asked for
    Suppressed,     \* writes under decision MEMORY_SUPPRESS
    Consenting,     \* writes with consent state "granted"
    MaxSends,       \* how often the SDK client sends one put
    MaxTime         \* bound of the clock

Kind == {"write", "tombstone", "delete"}
Tier == {"KAPPA", "SESSION", "CONSTITUTION", "AUDIT", "RESTRICTED"}

\* expiresAt of a request without one.
Never == MaxTime + 1
Time == 0 .. MaxTime
NoCall == "no call"

ASSUME VaultAssumption ==
    /\ MaxTime \in Nat
    /\ MaxSends \in Nat \ {0}
    /\ NoCall \notin Calls
    /\ KindOf \in [Calls -> Kind]
    /\ \A c \in Calls : /\ RecordOf[c].tier \in Tier
                        /\ RecordOf[c].expiresAt \in Time \cup {Never}
                        /\ KindOf[c] = "write" =>
                              RecordOf[c].owner = IdentityOf[c]

\* Mutant of recordId: the tier is not part of the hashed identity.
recordIdUntiered(c) ==
    <<RecordOf[c].owner, RecordOf[c].session, RecordOf[c].contentDigest>>

\* The hash of what it is computed from; tier included, expiry not.
recordId(c) ==
    <<RecordOf[c].owner, RecordOf[c].session, RecordOf[c].tier,
      RecordOf[c].contentDigest>>

\* dynamoDbMemoryKey: the partition is the caller's identity, never the one
\* the id was computed for.
key(c) == <<IdentityOf[c], recordId(c)>>
Key == {key(c) : c \in Calls}

Erasers == {c \in Calls : KindOf[c] \in {"tombstone", "delete"}}

VARIABLES
    items,      \* [Key -> Item or Absent], at the leader
    lagging,    \* [Key -> values it has had, with which a replica may answer]
    now,        \* the clock
    pc,         \* [Calls -> where the call is suspended]
    sends,      \* [Calls -> puts sent]
    seen,       \* [Calls -> the item its last read returned, or Absent]
    result,     \* [Calls -> "pending", "ok", "refused" or "failed"]
    acked       \* [Calls -> writes acknowledged when that eraser returned]

vars == << items, lagging, now, pc, sends, seen, result, acked >>
local == << pc, sends, seen, result, acked >>

\* A stored item.  Its attributes are those the write that created it put; an
\* update of an absent key creates an item with no attribute but
\* tombstonedAt.
Absent == [put |-> NoCall, tombstoned |-> FALSE]
Item == [put : Calls \cup {NoCall}, tombstoned : BOOLEAN]

Written(i) == i.put # NoCall
Live(i) == Written(i) /\ ~i.tombstoned
recordTier(i) == RecordOf[i.put].tier
expiry(i) == RecordOf[i.put].expiresAt

isExpired(i, t) == expiry(i) # Never /\ expiry(i) <= t

\* What the table may answer a read of key k with.
Readable(k) == {items[k]} \cup lagging[k]

\* The leader's value of k becomes i, and replicas still have the old one.
Store(k, i) ==
    /\ items' = [items EXCEPT ![k] = i]
    /\ lagging' = [lagging EXCEPT ![k] = @ \cup {items[k]}]

Init ==
    /\ items = [k \in Key |-> Absent]
    /\ lagging = [k \in Key |-> {}]
    /\ now = 0
    /\ pc = [c \in Calls |-> "idle"]
    /\ sends = [c \in Calls |-> 0]
    /\ seen = [c \in Calls |-> Absent]
    /\ result = [c \in Calls |-> "pending"]
    /\ acked = [c \in Calls |-> {}]

Goto(c, s) == pc' = [pc EXCEPT ![c] = s]
Return(c, r) ==
    /\ Goto(c, "done")
    /\ result' = [result EXCEPT ![c] = r]
    /\ acked' = IF c \in Erasers /\ r = "ok"
                THEN [acked EXCEPT ![c] =
                        {w \in Calls : KindOf[w] = "write" /\ result[w] = "ok"}]
                ELSE acked
Idle(c, kinds) == pc[c] = "idle" /\ KindOf[c] \in kinds

-----------------------------------------------------------------------------
(* write                                                                   *)

hasRestrictedMemoryConsent(c) ==
    RecordOf[c].tier # "RESTRICTED" \/ c \in Consenting

mayPersist(c) ==
    /\ c \notin Suppressed
    /\ RecordOf[c].tier # "KAPPA"
    /\ ~(RecordOf[c].tier = "SESSION" /\ RecordOf[c].expiresAt = Never)
    /\ hasRestrictedMemoryConsent(c)

\* Suppressed, KAPPA, SESSION without expiry, or no consent.
WriteRefused(c) ==
    /\ Idle(c, {"write"})
    /\ ~mayPersist(c)
    /\ Return(c, "refused")
    /\ UNCHANGED << items, lagging, now, sends, seen >>

\* Mutant: the put carries no condition.
keyIsFreeAlways(k) == TRUE

\* attribute_not_exists(PK) AND attribute_not_exists(SK)
keyIsFree(k) == items[k] = Absent

MaySend(c) ==
    /\ Idle(c, {"write"}) \/ pc[c] = "resend"
    /\ mayPersist(c)
    /\ sends[c] < MaxSends

\* The put is applied and acknowledged, or applied and its answer lost: the
\* client sends it again, or gives up.
Write(c) ==
    /\ MaySend(c)
    /\ keyIsFree(key(c))
    /\ Store(key(c), [put |-> c, tombstoned |-> FALSE])
    /\ sends' = [sends EXCEPT ![c] = @ + 1]
    /\ \/ Return(c, "ok")
       \/ Goto(c, "resend") /\ UNCHANGED << result, acked >>
    /\ UNCHANGED << now, seen >>

\* The condition fails, or the table cannot be reached.
WriteFails(c) ==
    /\ MaySend(c)
    /\ Return(c, "failed")
    /\ UNCHANGED << items, lagging, now, sends, seen >>

-----------------------------------------------------------------------------
(* get, and the calls that begin with one                                  *)

\* get throws for a missing item, a ghost without its attributes, another
\* owner's, a tombstoned or an expired one.
available(c, i) ==
    /\ Live(i)
    /\ RecordOf[i.put].owner = IdentityOf[c]
    /\ ~isExpired(i, now)

\* Where a call goes with the record that get returned.  deleteErasable
\* hands an AUDIT record to tombstone, which reads it again.
afterGet(c, i) ==
    IF KindOf[c] = "tombstone" \/ pc[c] = "get" THEN "update"
    ELSE IF recordTier(i) = "AUDIT" THEN "get" ELSE "erase"

Get(c) ==
    /\ Idle(c, {"tombstone", "delete"}) \/ pc[c] = "get"
    /\ \E i \in Readable(key(c)) :
          /\ available(c, i)
          /\ seen' = [seen EXCEPT ![c] = i]
          /\ Goto(c, afterGet(c, i))
    /\ UNCHANGED << items, lagging, now, sends, result, acked >>

GetFails(c) ==
    /\ Idle(c, {"tombstone", "delete"}) \/ pc[c] = "get"
    /\ \E i \in Readable(key(c)) : ~available(c, i)
    /\ Return(c, "failed")
    /\ UNCHANGED << items, lagging, now, sends, seen >>

\* SET tombstonedAt on whatever the key holds; on nothing it creates a ghost.
marked(i) == [put |-> i.put, tombstoned |-> TRUE]

\* The request was applied: the answer arrives, or it is lost and the client
\* sends the request again or gives up.
Acknowledged(c) ==
    \/ Return(c, "ok")
    \/ Return(c, "failed")
    \/ UNCHANGED << pc, result, acked >>

Tombstone(c) ==
    /\ pc[c] = "update"
    /\ Store(key(c), marked(items[key(c)]))
    /\ Acknowledged(c)
    /\ UNCHANGED << now, sends, seen >>

\* The unconditional DeleteCommand.
Erase(c) ==
    /\ pc[c] = "erase"
    /\ Store(key(c), Absent)
    /\ Acknowledged(c)
    /\ UNCHANGED << now, sends, seen >>

\* Mutant: an error of the table is swallowed.
AbandonSilently(c) ==
    /\ pc[c] \in {"update", "erase", "resend"}
    /\ Return(c, "ok")
    /\ UNCHANGED << items, lagging, now, sends, seen >>

\* The update or the delete never reached the table, or the process died.
Abandon(c) ==
    /\ pc[c] \in {"update", "erase", "resend"}
    /\ Return(c, "failed")
    /\ UNCHANGED << items, lagging, now, sends, seen >>

-----------------------------------------------------------------------------
(* list and exportUserMemory, which only read                              *)

\* The filters of the query and of the code behind it.
visible(i, includeTiers, t) ==
    /\ Live(i)
    /\ recordTier(i) \in includeTiers
    /\ ~isExpired(i, t)

\* What a query of an identity's partition, over all its sessions, answers
\* at time t.
list(identity, includeTiers, t) ==
    {items[k] : k \in {l \in Key : /\ l[1] = identity
                                   /\ visible(items[l], includeTiers, t)}}

-----------------------------------------------------------------------------
(* The table and the clock                                                 *)

\* DynamoDB's TTL on expiresAtEpoch, which a ghost does not have.
Expire(k) ==
    /\ Written(items[k])
    /\ isExpired(items[k], now)
    /\ Store(k, Absent)
    /\ UNCHANGED << now, local >>

Tick ==
    /\ now < MaxTime
    /\ now' = now + 1
    /\ UNCHANGED << items, lagging, local >>

Step(c) ==
    \/ WriteRefused(c) \/ Write(c) \/ WriteFails(c)
    \/ Get(c) \/ GetFails(c) \/ Tombstone(c) \/ Erase(c) \/ Abandon(c)

Done == (\A c \in Calls : pc[c] = "done") /\ UNCHANGED vars

Next ==
    \/ \E c \in Calls : Step(c)
    \/ \E k \in Key : Expire(k)
    \/ Tick
    \/ Done

Spec == Init /\ [][Next]_vars

-----------------------------------------------------------------------------
(* Properties                                                              *)

\* Every variable holds what the code can put there; in particular a put is
\* sent at most MaxSends times.
TypeOK ==
    /\ items \in [Key -> Item]
    /\ lagging \in [Key -> SUBSET Item]
    /\ now \in Time
    /\ pc \in [Calls -> {"idle", "resend", "get", "update", "erase",
                         "done"}]
    /\ sends \in [Calls -> 0 .. MaxSends]
    /\ seen \in [Calls -> Item]
    /\ result \in [Calls -> {"pending", "ok", "refused", "failed"}]
    /\ acked \in [Calls -> SUBSET Calls]

\* A record that is in the table, live, tombstoned or a ghost, is only ever
\* tombstoned or removed: no write, not even the repeated put of a call whose
\* answer was lost, brings a tombstoned record back or replaces a live one
\* (dynamodbStore.ts:131).
RecordsOnlyAge ==
    [][\A k \in Key : items[k] # Absent =>
          items'[k] \in {items[k], marked(items[k]), Absent}]_vars

\* "Normal delete requests tombstone rather than erase audit records": an
\* AUDIT record leaves the table only by its own expiry, though
\* deleteErasable decides on a read that may be old by the time its
\* unconditional delete arrives (dynamodbStore.ts:217-229).
AuditOutlivesDeletes ==
    [][\A k \in Key :
          /\ Written(items[k])
          /\ recordTier(items[k]) = "AUDIT"
          /\ ~isExpired(items[k], now)
          => Written(items'[k])]_vars

\* A tombstone or delete that returned has hidden the record it was asked for:
\* no list of an up-to-date replica answers a record whose write had been
\* acknowledged by then, whatever other calls do to the key in between
\* (dynamodbStore.ts:203-229, 137-179).  A write still without its answer is
\* another matter: the client repeats its put, and once the key is empty that
\* put restores the very record that was deleted.
ErasedStaysErased ==
    \A c \in Erasers : result[c] = "ok" =>
        \A i \in list(IdentityOf[c], Tier, now) :
            key(i.put) = key(c) => i.put \notin acked[c]

-----------------------------------------------------------------------------
(* The inductive invariant behind the properties                           *)

\* An item is stored only under the key its own write computes, so that all
\* the records a key ever holds have one tier.
Placed(i, k) == Written(i) => i.put \in Calls /\ key(i.put) = k

ItemsPlaced == \A k \in Key : \A i \in Readable(k) : Placed(i, k)
ReadsPlaced == \A c \in Calls : Placed(seen[c], key(c))

\* What the call decided on still justifies where it is.
DecisionsStand ==
    \A c \in Calls :
        /\ pc[c] = "resend" => KindOf[c] = "write"
        /\ pc[c] \in {"get", "update", "erase"} =>
              c \in Erasers /\ Written(seen[c])
        /\ pc[c] = "erase" => recordTier(seen[c]) # "AUDIT"
        /\ pc[c] # "done" => result[c] = "pending"

\* The writes acknowledged when an eraser returned send nothing more, and what
\* they wrote is gone, listed or not.
ErasedIsGone ==
    \A c \in Erasers : result[c] = "ok" =>
        /\ \A w \in acked[c] : pc[w] = "done"
        /\ Live(items[key(c)]) => items[key(c)].put \notin acked[c]

Inv == TypeOK /\ ItemsPlaced /\ ReadsPlaced /\ DecisionsStand /\ ErasedIsGone
=============================================================================
