------------------------ MODULE VaultLifecycleProofs ------------------------
(***************************************************************************)
(* Proofs about VaultLifecycle, for any set of calls, records and          *)
(* identities and any number of puts the client may send.                  *)
(***************************************************************************)
EXTENDS VaultLifecycle, TLAPS

\* Two calls for one key ask for records of one tier: the tier is hashed into
\* the id (recordId).
LEMMA KeyFixesTier ==
    ASSUME NEW c \in Calls, NEW d \in Calls, key(c) = key(d)
    PROVE  RecordOf[c].tier = RecordOf[d].tier
  BY DEF key, recordId

\* Storing an item that is Placed keeps ItemsPlaced.
LEMMA StorePlaces ==
    ASSUME TypeOK, ItemsPlaced, NEW k \in Key, NEW i \in Item,
           Store(k, i), Placed(i, k)
    PROVE  ItemsPlaced'
  <1> SUFFICES ASSUME NEW l \in Key, NEW j \in Readable(l)'
               PROVE  Placed(j, l)
    BY DEF ItemsPlaced, Placed, Written
  <1>1. j \in Readable(l) \/ (l = k /\ j = i)
    BY DEF Readable, Store, TypeOK
  <1> QED
    BY <1>1 DEF ItemsPlaced

\* Every initial state satisfies the invariant.
LEMMA InitInv == Init => Inv
  <1> SUFFICES ASSUME Init PROVE Inv
    OBVIOUS
  <1>1. Absent \in Item
    BY DEF Absent, Item
  <1>2. TypeOK
    BY <1>1, VaultAssumption DEF Init, TypeOK, Time
  <1>3. \A k : Placed(Absent, k)
    BY DEF Placed, Written, Absent
  <1> QED
    BY <1>2, <1>3 DEF Init, Inv, ItemsPlaced, ReadsPlaced, Readable,
       DecisionsStand, ErasedIsGone, Erasers

\* A step that touches neither the table nor the reads.
LEMMA Quiet ==
    ASSUME Inv, NEW c \in Calls, UNCHANGED << items, lagging, now, sends, seen >>,
           Return(c, "refused") \/ Return(c, "failed")
    PROVE  Inv'
  <1>1. acked' = acked
    BY DEF Return
  <1>2. TypeOK'
    BY <1>1 DEF Inv, TypeOK, Return, Goto
  <1>3. ItemsPlaced' /\ ReadsPlaced'
    BY DEF Inv, ItemsPlaced, ReadsPlaced, Readable, Placed, Written
  <1>4. DecisionsStand'
    BY DEF Inv, DecisionsStand, Return, Goto, TypeOK, Erasers, Written,
       recordTier
  <1>5. ErasedIsGone'
    BY <1>1 DEF Inv, ErasedIsGone, Return, Goto, TypeOK, Live, Written, Erasers
  <1> QED
    BY <1>2, <1>3, <1>4, <1>5 DEF Inv

\* Writing a record preserves the invariant.
LEMMA WriteStep ==
    ASSUME Inv, NEW c \in Calls, Write(c)
    PROVE  Inv'
  <1> DEFINE new == [put |-> c, tombstoned |-> FALSE]
  <1>1. sends' \in [Calls -> 0 .. MaxSends]
    BY VaultAssumption DEF Write, MaySend, Inv, TypeOK
  <1>2. new \in Item /\ key(c) \in Key
    BY DEF Item, Key
  <1>3. Store(key(c), new)
    BY DEF Write
  <1>4. KindOf[c] = "write" /\ pc[c] # "done"
    BY DEF Write, MaySend, Idle, Inv, DecisionsStand
  <1>5. acked' = acked
    BY <1>4 DEF Write, Return, Erasers
  <1>6. TypeOK'
    BY <1>1, <1>2, <1>3, <1>5 DEF Write, Store, Inv, TypeOK, Return, Goto
  <1>7. Placed(new, key(c))
    BY DEF Placed
  <1>8. ItemsPlaced'
    <2> HIDE DEF new
    <2> QED BY <1>2, <1>3, <1>7, StorePlaces DEF Inv
  <1>9. ReadsPlaced'
    BY DEF Inv, ReadsPlaced, Placed, Written, Write
  <1>10. DecisionsStand'
    BY <1>4 DEF Inv, DecisionsStand, Write, Return, Goto, TypeOK, Erasers,
       Written, recordTier
  <1>11. ErasedIsGone'
    <2> SUFFICES ASSUME NEW d \in Erasers, result'[d] = "ok"
                 PROVE  /\ \A w \in acked[d] : pc'[w] = "done"
                        /\ Live(items'[key(d)]) =>
                              items'[key(d)].put \notin acked[d]
      BY <1>5 DEF ErasedIsGone, Live, Written
    <2>1. d \in Calls /\ KindOf[d] # "write" /\ key(d) \in Key
      BY DEF Erasers, Key
    <2>2. result[d] = "ok"
      BY <1>4, <2>1 DEF Write, Return, Inv, TypeOK
    <2>3. \A w \in acked[d] : w \in Calls /\ pc[w] = "done"
      BY <2>1, <2>2 DEF Inv, TypeOK, ErasedIsGone
    <2>4. c \notin acked[d]
      BY <1>4, <2>3
    <2>5. \A w \in acked[d] : pc'[w] = "done"
      BY <2>3, <2>4 DEF Write, Return, Goto, Inv, TypeOK
    <2>6. CASE key(d) = key(c)
      <3>1. items'[key(d)].put = c
        BY <1>2, <1>3, <2>6 DEF Store, Inv, TypeOK
      <3> QED
        BY <2>4, <2>5, <3>1
    <2>7. CASE key(d) # key(c)
      <3>1. items'[key(d)] = items[key(d)]
        BY <1>3, <2>1, <2>7 DEF Store, Inv, TypeOK
      <3> QED
        BY <2>2, <2>5, <3>1 DEF Inv, ErasedIsGone
    <2> QED
      BY <2>6, <2>7
  <1> QED
    BY <1>6, <1>8, <1>9, <1>10, <1>11 DEF Inv

\* Reading a record preserves the invariant.
LEMMA GetStep ==
    ASSUME Inv, NEW c \in Calls, Get(c)
    PROVE  Inv'
  <1>1. PICK i \in Readable(key(c)) :
            /\ available(c, i)
            /\ seen' = [seen EXCEPT ![c] = i]
            /\ Goto(c, afterGet(c, i))
    BY DEF Get
  <1>2. key(c) \in Key /\ i \in Item
    BY DEF Key, Readable, Inv, TypeOK
  <1>3. Placed(i, key(c)) /\ Written(i)
    BY <1>1, <1>2 DEF Inv, ItemsPlaced, available, Live
  <1>4. afterGet(c, i) \in {"get", "update", "erase"}
    BY DEF afterGet
  <1>5. /\ c \in Erasers
        /\ result[c] = "pending"
        /\ pc[c] # "done"
        /\ UNCHANGED << items, result, acked >>
    BY DEF Get, Idle, Inv, DecisionsStand, Erasers
  <1>6. afterGet(c, i) = "erase" => recordTier(i) # "AUDIT"
    BY <1>5, VaultAssumption DEF afterGet, Erasers, Kind
  <1>7. TypeOK'
    BY <1>1, <1>2, <1>4, <1>5 DEF Inv, TypeOK, Get, Goto
  <1>8. ItemsPlaced' /\ ReadsPlaced'
    BY <1>1, <1>3 DEF Inv, TypeOK, ItemsPlaced, ReadsPlaced, Readable, Placed, Written, Get
  <1>9. DecisionsStand'
    BY <1>1, <1>3, <1>4, <1>5, <1>6 DEF Inv, TypeOK, DecisionsStand, Goto, Written,
       recordTier
  <1>10. ErasedIsGone'
    BY <1>1, <1>5 DEF Inv, TypeOK, ErasedIsGone, Erasers, Goto, Live, Written
  <1> QED
    BY <1>7, <1>8, <1>9, <1>10 DEF Inv

\* Both unconditional commands leave the key with no record, or with a
\* tombstoned one of the put that was there.
LEMMA EraserStep ==
    ASSUME Inv, NEW c \in Calls, Tombstone(c) \/ Erase(c)
    PROVE  Inv'
  <1> DEFINE new == IF pc[c] = "update" THEN marked(items[key(c)]) ELSE Absent
  <1>1. /\ Store(key(c), new)
        /\ Acknowledged(c)
        /\ UNCHANGED << now, sends, seen >>
    BY DEF Tombstone, Erase
  <1>2. key(c) \in Key /\ c \in Erasers /\ result[c] = "pending"
    BY DEF Key, Tombstone, Erase, Inv, DecisionsStand
  <1>3. /\ new \in Item
        /\ Written(new) => new.put = items[key(c)].put
        /\ ~Live(new)
    BY <1>2 DEF Inv, TypeOK, marked, Absent, Item, Written, Live
  <1>4. Written(new) => Written(items[key(c)])
    BY <1>3 DEF Written
  <1> HIDE DEF new
  <1>5. TypeOK'
    BY <1>1, <1>2, <1>3 DEF Inv, TypeOK, Store, Acknowledged, Return, Goto
  <1>6. Placed(new, key(c))
    BY <1>1, <1>2, <1>3, <1>4 DEF Inv, ItemsPlaced, Readable, Placed, Written
  <1>7. ItemsPlaced'
    BY <1>1, <1>2, <1>3, <1>6, StorePlaces DEF Inv
  <1>8. ReadsPlaced'
    BY <1>1 DEF Inv, ReadsPlaced, Placed, Written
  <1>9. DecisionsStand'
    BY <1>1, <1>2 DEF Inv, TypeOK, DecisionsStand, Acknowledged, Return, Goto,
       Written, recordTier, Tombstone, Erase
  <1>10. ErasedIsGone'
    <2> SUFFICES ASSUME NEW d \in Erasers, result'[d] = "ok"
                 PROVE  /\ \A w \in acked'[d] : pc'[w] = "done"
                        /\ Live(items'[key(d)]) =>
                              items'[key(d)].put \notin acked'[d]
      BY DEF ErasedIsGone, Live, Written
    <2>1. d \in Calls /\ key(d) \in Key
      BY DEF Erasers, Key
    <2>2. \A w \in Calls : pc[w] = "done" => pc'[w] = "done"
      BY <1>1 DEF Acknowledged, Return, Goto, Inv, TypeOK
    <2>3. CASE d = c
      <3>1. items'[key(c)] = new
        BY <1>1, <1>2 DEF Store, Inv, TypeOK
      <3>2. result'[c] = "ok"
        BY <2>3
      <3>3. Return(c, "ok")
        BY <1>1, <1>2, <2>1, <2>3, <3>2 DEF Acknowledged, Return, Inv, TypeOK
      <3>4. \A w \in acked'[c] : w \in Calls /\ result[w] = "ok"
        BY <1>2, <3>3 DEF Return, Inv, TypeOK
      <3>5. \A w \in acked'[c] : w \in Calls /\ pc[w] = "done"
        BY <3>4 DEF Inv, DecisionsStand
      <3> QED
        BY <1>3, <2>2, <2>3, <3>1, <3>5
    <2>4. CASE d # c
      <3>1. result[d] = "ok" /\ acked'[d] = acked[d]
        BY <1>1, <2>1, <2>4 DEF Acknowledged, Return, Inv, TypeOK
      <3>2. \A w \in acked[d] : w \in Calls /\ pc[w] = "done"
        BY <2>1, <3>1 DEF Inv, TypeOK, ErasedIsGone
      <3>3. items'[key(d)] = items[key(d)] \/ items'[key(d)] = new
        BY <1>1, <2>1 DEF Store, Inv, TypeOK
      <3> QED
        BY <1>3, <2>2, <3>1, <3>2, <3>3 DEF Inv, ErasedIsGone
    <2> QED
      BY <2>3, <2>4
  <1> QED
    BY <1>5, <1>7, <1>8, <1>9, <1>10 DEF Inv

\* Expiry of a record preserves the invariant.
LEMMA ExpireStep ==
    ASSUME Inv, NEW k \in Key, Expire(k)
    PROVE  Inv'
  <1>1. Absent \in Item /\ ~Live(Absent) /\ ~Written(Absent)
    BY DEF Absent, Item, Live, Written
  <1>2. Store(k, Absent) /\ UNCHANGED << now, pc, sends, seen, result, acked >>
    BY DEF Expire, local
  <1>3. TypeOK'
    BY <1>1, <1>2 DEF Inv, TypeOK, Store
  <1>4. Placed(Absent, k)
    BY <1>1 DEF Placed, Written
  <1>5. ItemsPlaced'
    BY <1>1, <1>2, <1>4, StorePlaces DEF Inv
  <1>6. ReadsPlaced' /\ DecisionsStand'
    BY <1>2 DEF Inv, ReadsPlaced, Placed, Written, DecisionsStand, recordTier
  <1>7. ErasedIsGone'
    BY <1>1, <1>2 DEF Inv, TypeOK, ErasedIsGone, Store, Live, Written
  <1> QED
    BY <1>3, <1>5, <1>6, <1>7 DEF Inv

\* Every step preserves the invariant.
LEMMA NextInv == Inv /\ [Next]_vars => Inv'
  <1> SUFFICES ASSUME Inv, [Next]_vars PROVE Inv'
    OBVIOUS
  <1>1. ASSUME NEW c \in Calls, Step(c) PROVE Inv'
    <2>1. CASE WriteRefused(c) \/ WriteFails(c) \/ GetFails(c) \/ Abandon(c)
      BY <2>1, Quiet DEF WriteRefused, WriteFails, GetFails, Abandon
    <2> QED
      BY <1>1, <2>1, WriteStep, GetStep, EraserStep DEF Step
  <1>2. CASE Tick
    <2>1. TypeOK'
      BY <1>2, VaultAssumption DEF Tick, Inv, TypeOK, Time, local
    <2> QED
      BY <1>2, <2>1 DEF Tick, local, Inv, ItemsPlaced, ReadsPlaced, Readable, Placed,
         Written, DecisionsStand, recordTier, ErasedIsGone, Live
  <1>3. CASE UNCHANGED vars
    BY <1>3 DEF vars, Inv, TypeOK, ItemsPlaced, ReadsPlaced, Readable, Placed,
       Written, DecisionsStand, recordTier, ErasedIsGone, Live
  <1> QED
    BY <1>1, <1>2, <1>3, ExpireStep DEF Next, Done

\* The invariant holds in every reachable state.
LEMMA Invariance == Spec => []Inv
  BY InitInv, NextInv, PTL DEF Spec

\* The store, its calls and what they read stay well typed; no put is sent
\* more often than the client may.
THEOREM TypeCorrect == Spec => []TypeOK
  BY Invariance, PTL DEF Inv

\* For any calls: no list answers a record whose write had been acknowledged
\* when a tombstone or delete of it returned.  The invariant adds that such a
\* write sends nothing more, so no repeated put of it can refill the key.
THEOREM ErasedStaysErasedAlways == Spec => []ErasedStaysErased
  <1>1. Inv => ErasedStaysErased
    <2> SUFFICES ASSUME Inv, NEW c \in Erasers, result[c] = "ok",
                        NEW i \in list(IdentityOf[c], Tier, now),
                        key(i.put) = key(c)
                 PROVE  i.put \notin acked[c]
      BY DEF ErasedStaysErased
    <2>1. PICK k \in Key : i = items[k] /\ Live(items[k])
      BY DEF list, visible
    <2>2. Placed(i, k)
      BY <2>1 DEF Inv, ItemsPlaced, Readable
    <2>3. k = key(c)
      BY <2>1, <2>2 DEF Placed, Live
    <2> QED
      BY <2>1, <2>3 DEF Inv, ErasedIsGone
  <1> QED
    BY <1>1, Invariance, PTL

\* For any calls: a record in the table is only tombstoned or removed.
THEOREM RecordsOnlyAgeAlways == Spec => RecordsOnlyAge
  <1> DEFINE Ages == \A k \in Key : items[k] # Absent =>
                        items'[k] \in {items[k], marked(items[k]), Absent}
  <1>1. Inv /\ [Next]_vars => [Ages]_vars
    <2> SUFFICES ASSUME Inv, Next, NEW k \in Key, items[k] # Absent
                 PROVE  items'[k] \in {items[k], marked(items[k]), Absent}
      OBVIOUS
    <2>1. ASSUME NEW c \in Calls, Step(c)
          PROVE  items'[k] \in {items[k], marked(items[k]), Absent}
      <3>1. CASE Write(c)
        BY <3>1 DEF Write, keyIsFree, Store, Inv, TypeOK
      <3>2. CASE Tombstone(c)
        BY <3>2 DEF Tombstone, Store, Inv, TypeOK
      <3>3. CASE Erase(c)
        BY <3>3 DEF Erase, Store, Inv, TypeOK
      <3> QED
        BY <2>1, <3>1, <3>2, <3>3
           DEF Step, WriteRefused, WriteFails, Get, GetFails, Abandon
    <2>2. ASSUME NEW l \in Key, Expire(l)
          PROVE  items'[k] \in {items[k], marked(items[k]), Absent}
      BY <2>2 DEF Expire, Store, Inv, TypeOK
    <2> QED
      BY <2>1, <2>2 DEF Next, Tick, Done, vars
  <1> QED
    BY <1>1, Invariance, PTL DEF Spec, RecordsOnlyAge

\* For any calls: an AUDIT record leaves the table only by its own expiry.
\* The invariant carries the argument: a call that erases saw a record that
\* is not AUDIT under the same key, and a key fixes the tier.
THEOREM AuditOutlivesDeletesAlways == Spec => AuditOutlivesDeletes
  <1> DEFINE Outlives == \A k \in Key :
                /\ Written(items[k])
                /\ recordTier(items[k]) = "AUDIT"
                /\ ~isExpired(items[k], now)
                => Written(items'[k])
  <1>1. Inv /\ [Next]_vars => [Outlives]_vars
    <2> SUFFICES ASSUME Inv, Next, NEW k \in Key, Written(items[k]),
                        recordTier(items[k]) = "AUDIT",
                        ~isExpired(items[k], now)
                 PROVE  Written(items'[k])
      OBVIOUS
    <2>1. ASSUME NEW c \in Calls, Step(c) PROVE Written(items'[k])
      <3>1. CASE Write(c)
        BY <3>1 DEF Write, keyIsFree, Absent, Written, Store, Inv, TypeOK
      <3>2. CASE Tombstone(c)
        BY <3>2 DEF Tombstone, Store, Inv, TypeOK, marked, Written, Item
      <3>3. CASE Erase(c)
        <4>1. Placed(seen[c], key(c)) /\ Written(seen[c])
              /\ recordTier(seen[c]) # "AUDIT"
          BY <3>3 DEF Erase, Inv, ReadsPlaced, DecisionsStand
        <4>2. Placed(items[k], k)
          BY DEF Inv, ItemsPlaced, Readable
        <4>3. CASE k = key(c)
          <5>1. /\ seen[c].put \in Calls
                /\ items[k].put \in Calls
                /\ key(seen[c].put) = key(items[k].put)
            BY <4>1, <4>2, <4>3 DEF Placed
          <5>2. recordTier(seen[c]) = recordTier(items[k])
            BY <5>1, KeyFixesTier DEF recordTier
          <5> QED
            BY <4>1, <5>2
        <4>4. CASE k # key(c)
          BY <3>3, <4>4 DEF Erase, Store, Inv, TypeOK, Written
        <4> QED
          BY <4>3, <4>4
      <3> QED
        BY <2>1, <3>1, <3>2, <3>3
           DEF Step, WriteRefused, WriteFails, Get, GetFails, Abandon
    <2>2. ASSUME NEW l \in Key, Expire(l) PROVE Written(items'[k])
      BY <2>2 DEF Expire, Store, Inv, TypeOK, Written
    <2> QED
      BY <2>1, <2>2 DEF Next, Tick, Done, vars
  <1> QED
    BY <1>1, Invariance, PTL DEF Spec, AuditOutlivesDeletes
=============================================================================
