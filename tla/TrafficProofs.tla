----------------------------- MODULE TrafficProofs -----------------------------
(***************************************************************************)
(* Proofs about Traffic, for every set of users and of consumers, every    *)
(* threshold, every set of event sizes and every number of retries.        *)
(***************************************************************************)
EXTENDS Traffic, TLAPS

-------------------------------------------------------------------------------
(***************************************************************************)
(* The arithmetic of byte pairs.                                           *)
(***************************************************************************)

\* A fresh counter is a counter.
LEMMA ZeroBytes == Zero \in Bytes
  BY DEF Zero, Bytes, Dirs

\* trafficCounter.add keeps the two fields natural numbers and adds each.
LEMMA PlusBytes ==
  ASSUME NEW a \in Bytes, NEW b \in Bytes
  PROVE  /\ Plus(a, b) \in Bytes
         /\ \A d \in Dirs : Plus(a, b)[d] = a[d] + b[d]
  BY DEF Plus, Bytes, Dirs

\* subtractReported never goes below zero, and is exact when it need not stop.
LEMMA MinusBytes ==
  ASSUME NEW a \in Bytes, NEW b \in Bytes
  PROVE  /\ Minus(a, b) \in Bytes
         /\ \A d \in Dirs : b[d] <= a[d] => Minus(a, b)[d] = a[d] - b[d]
  BY DEF Minus, Bytes, Dirs

\* A counter with nothing pending is empty in both directions.
LEMMA NothingPending ==
  ASSUME NEW a \in Bytes, ~HasPending(a)
  PROVE  a = Zero
  BY DEF HasPending, Bytes, Zero, Dirs

-------------------------------------------------------------------------------
(***************************************************************************)
(* Type correctness.                                                       *)
(***************************************************************************)

\* New builds a server of the right shape.
LEMMA InitTyped == Init => TypeOK
<1> SUFFICES ASSUME Init PROVE TypeOK
  OBVIOUS
<1> USE UuidsAssumption, IdAssumption, ZeroBytes DEF Init, NoBytes, NoUids
<1>1. NoEvent \in Event
  BY DEF NoEvent, Event
<1>2. line \in [Streams -> Event]
  BY <1>1
<1>3. userIDs \in [Uuids -> Nat]
  OBVIOUS
<1> QED BY <1>2, <1>3 DEF TypeOK

\* Every action keeps every variable in its type.
LEMMA NextTyped == TypeOK /\ [Next]_vars => TypeOK'
<1> SUFFICES ASSUME TypeOK, [Next]_vars PROVE TypeOK'
  OBVIOUS
<1> USE UuidsAssumption, IdAssumption, ChunksAssumption, RetryAssumption,
        ZeroBytes, PlusBytes, MinusBytes DEF TypeOK, NoBytes, NoUids
<1> NoEvent \in Event
  BY DEF NoEvent, Event
<1>1. ASSUME NEW s \in Streams, Receive(s) PROVE TypeOK'
  <2>1. PICK u \in known, b \in Chunks, stamped \in BOOLEAN :
            line' = [line EXCEPT ![s] =
                       [pc |-> "fetch", user |-> u, bytes |-> b, held |-> FALSE,
                        uid |-> IF stamped THEN IdOf[u] ELSE userIDs[u]]]
    BY <1>1 DEF Receive
  <2>2. line' \in [Streams -> Event]
    BY <2>1 DEF Event
  <2> QED BY <1>1, <2>2 DEF Receive, lists, counters, report, panel, ledger
<1>2. ASSUME NEW s \in Streams, Fetch(s) PROVE TypeOK'
  <2>1. line[s] \in Event
    OBVIOUS
  <2>2. line' \in [Streams -> Event]
    BY <1>2, <2>1 DEF Fetch, Event
  <2>3. stats' \subseteq Uuids /\ uid' \in [Uuids -> Nat]
    BY <1>2, <2>1 DEF Fetch, Event
  <2> QED BY <1>2, <2>2, <2>3 DEF Fetch, lists, report, panel, ledger
<1>3. ASSUME NEW s \in Streams, Add(s) PROVE TypeOK'
  <2>1. line[s].user \in Uuids /\ line[s].bytes \in Bytes
    BY DEF Event
  <2>2. line' \in [Streams -> Event]
    BY <1>3 DEF Add
  <2>3. metered' \in [Uuids -> Bytes]
    BY <1>3, <2>1 DEF Add
  <2>4. pending' \in [Uuids -> Bytes] /\ dropped' \in [Uuids -> Bytes]
    BY <1>3, <2>1 DEF Add
  <2> QED BY <1>3, <2>2, <2>3, <2>4 DEF Add, lists, report, panel
<1>4. ASSUME NEW new \in SUBSET Uuids, UpdateUsers(new) PROVE TypeOK'
  <2>1. stats' \subseteq Uuids
    BY <1>4 DEF UpdateUsers, NewIDs, Kept
  <2>2. userIDs' \in [Uuids -> Nat] /\ uid' \in [Uuids -> Nat]
    BY <1>4 DEF UpdateUsers, NewIDs
  <2>3. pending' \in [Uuids -> Bytes]
    BY <1>4 DEF UpdateUsers, NewIDs
  <2>4. line' \in [Streams -> Event]
    BY <1>4 DEF UpdateUsers, NewIDs, Orphan, Event
  <2> QED BY <1>4, <2>1, <2>2, <2>3, <2>4 DEF UpdateUsers, NewIDs, report, panel, ledger
<1>5. CASE Snapshot
  BY <1>5 DEF Snapshot, lists, counters, panel, ledger
<1>6. CASE PushOk
  <2>1. Booked(credited) \in [Uuids -> Bytes]
    BY DEF Booked
  <2> QED BY <1>6, <2>1 DEF PushOk, lists, counters, ledger
<1>7. CASE PushRefused
  BY <1>7 DEF PushRefused, GiveUp, lists, counters, panel, ledger
<1>8. CASE PushUnsent
  BY <1>8 DEF PushUnsent, RetryOrGiveUp, GiveUp, lists, counters, panel, ledger
<1>9. CASE PushUnanswered
  <2>1. /\ Booked(credited) \in [Uuids -> Bytes]
        /\ Booked(unanswered) \in [Uuids -> Bytes]
    BY DEF Booked
  <2> QED BY <1>9, <2>1
            DEF PushUnanswered, RetryOrGiveUp, GiveUp, lists, counters, ledger
<1>10. CASE ReadActive
  BY <1>10 DEF ReadActive, lists, counters, panel, ledger
<1>11. CASE Settle
  <2>1. \A u \in Uuids : Minus(pending[u], batch[u]) \in Bytes
    OBVIOUS
  <2>2. stats' \subseteq Uuids
    BY <1>11 DEF Settle, Confirmed, Kept
  <2>3. pending' \in [Uuids -> Bytes] /\ uid' \in [Uuids -> Nat]
    BY <1>11, <2>1 DEF Settle, Confirmed
  <2>4. line' \in [Streams -> Event]
    BY <1>11 DEF Settle, Orphan, Event
  <2> QED BY <1>11, <2>2, <2>3, <2>4 DEF Settle, lists, panel, ledger
<1>12. CASE UNCHANGED vars
  BY <1>12 DEF vars, lists, counters, report, panel, ledger
<1> QED
  BY <1>1, <1>2, <1>3, <1>4, <1>5, <1>6, <1>7, <1>8, <1>9, <1>10, <1>11, <1>12
  DEF Next, Consume, Report

\* Whatever the list updates, reports and events do, every variable of the
\* model keeps the shape of the Go value it stands for.
THEOREM TrafficTyped == Spec => []TypeOK
  BY InitTyped, NextTyped, PTL DEF Spec

-------------------------------------------------------------------------------
(***************************************************************************)
(* The inductive invariant, one lemma per conjunct.                        *)
(***************************************************************************)

\* The counters hold nothing at the start, so every conjunct is immediate.
LEMMA InitInv == Init => IInv
<1> SUFFICES ASSUME Init PROVE IInv
  OBVIOUS
<1> USE DEF Init
<1>1. TypeOK
  BY InitTyped
<1>2. IdsKept
  BY DEF IdsKept, NoEvent
<1>3. CountersLive
  BY DEF CountersLive, NoEvent, NoBytes
<1>4. BatchCovered
  BY DEF BatchCovered, UidAttribution, HasPending, NoBytes, Zero, Dirs
<1>5. BooksBalance
  BY DEF BooksBalance, Acked, NoBytes, Zero, Dirs
<1>6. StableKept
  BY DEF StableKept, StableUsersLoseNothing, NoEvent, NoBytes
<1> QED BY <1>1, <1>2, <1>3, <1>4, <1>5, <1>6 DEF IInv

\* userIDs is never emptied, so an event, a counter and a list entry of one
\* user always agree on its id.
LEMMA IdsStep == IInv /\ [Next]_vars => IdsKept'
<1> SUFFICES ASSUME IInv, [Next]_vars PROVE IdsKept'
  OBVIOUS
<1> USE IdAssumption DEF IInv, TypeOK, IdsKept
<1>1. ASSUME NEW s \in Streams, Receive(s) PROVE IdsKept'
  BY <1>1 DEF Receive, lists, counters
<1>2. ASSUME NEW s \in Streams, Fetch(s) PROVE IdsKept'
  <2>1. line[s].user \in Uuids /\ line[s].uid = IdOf[line[s].user]
    BY <1>2 DEF Fetch, Event
  <2>2. \A u \in stats' : uid'[u] = IdOf[u]
    BY <1>2, <2>1 DEF Fetch
  <2>3. \A r \in Streams : /\ line'[r].pc = "fetch" => line'[r] = line[r]
                           /\ line'[r].pc # "read" => /\ line[r].pc # "read"
                                                    /\ line'[r].bytes = line[r].bytes
    BY <1>2 DEF Fetch, Event
  <2> QED BY <1>2, <2>2, <2>3 DEF Fetch, lists
<1>3. ASSUME NEW s \in Streams, Add(s) PROVE IdsKept'
  BY <1>3 DEF Add, lists, NoEvent
<1>4. ASSUME NEW new \in SUBSET Uuids, UpdateUsers(new) PROVE IdsKept'
  <2>1. \A u \in stats' : uid'[u] = IdOf[u]
    BY <1>4 DEF UpdateUsers, NewIDs, Kept
  <2>2. \A r \in Streams : /\ line'[r].pc = line[r].pc
                           /\ line'[r].uid = line[r].uid
                           /\ line'[r].bytes = line[r].bytes
                           /\ line'[r].user = line[r].user
    BY <1>4 DEF UpdateUsers, NewIDs, Orphan, Event
  <2> QED BY <1>4, <2>1, <2>2 DEF UpdateUsers, NewIDs
<1>5. CASE Report /\ ~Settle
  BY <1>5 DEF Report, Snapshot, PushOk, PushRefused, PushUnsent, PushUnanswered,
              ReadActive, lists, counters
<1>6. CASE Settle
  <2>1. \A u \in stats' : u \in stats /\ uid'[u] = uid[u]
    BY <1>6 DEF Settle, Confirmed, Kept
  <2>2. \A r \in Streams : /\ line'[r].pc = line[r].pc
                           /\ line'[r].uid = line[r].uid
                           /\ line'[r].bytes = line[r].bytes
                           /\ line'[r].user = line[r].user
    BY <1>6 DEF Settle, Orphan, Event
  <2> QED BY <1>6, <2>1, <2>2, ZenonT(60) DEF Settle, lists
<1>7. CASE UNCHANGED vars
  BY <1>7 DEF vars, lists, counters
<1> QED
  BY <1>1, <1>2, <1>3, <1>4, <1>5, <1>6, <1>7 DEF Next, Consume

\* Deleting a counter clears the pointers to it, and a counter is deleted only
\* when nothing is pending in it.
LEMMA CountersStep == IInv /\ [Next]_vars => CountersLive'
<1> SUFFICES ASSUME IInv, [Next]_vars PROVE CountersLive'
  OBVIOUS
<1> USE DEF IInv, TypeOK, CountersLive
<1>1. ASSUME NEW s \in Streams, Receive(s) PROVE CountersLive'
  BY <1>1 DEF Receive, counters
<1>2. ASSUME NEW s \in Streams, Fetch(s) PROVE CountersLive'
  <2>1. \A r \in Streams : line'[r].user = line[r].user
    BY <1>2 DEF Fetch, Event
  <2>2. \A r \in Streams \ {s} : line'[r] = line[r]
    BY <1>2 DEF Fetch
  <2>3. line[s].user \in stats' /\ stats \subseteq stats'
    BY <1>2 DEF Fetch
  <2> QED BY <1>2, <2>1, <2>2, <2>3 DEF Fetch
<1>3. ASSUME NEW s \in Streams, Add(s) PROVE CountersLive'
  <2>1. \A u \in Uuids \ stats : pending'[u] = pending[u]
    BY <1>3 DEF Add, Event
  <2>2. \A r \in Streams : line'[r].held => line'[r] = line[r]
    BY <1>3 DEF Add, NoEvent
  <2> QED BY <1>3, <2>1, <2>2 DEF Add
<1>4. ASSUME NEW new \in SUBSET Uuids, UpdateUsers(new) PROVE CountersLive'
  <2>1. \A r \in Streams : line'[r].held => line'[r].user \in Kept(new, pending)
    BY <1>4 DEF UpdateUsers, NewIDs, Orphan, Event
  <2> QED BY <1>4, <2>1 DEF UpdateUsers, NewIDs
<1>5. CASE Report /\ ~Settle
  BY <1>5 DEF Report, Snapshot, PushOk, PushRefused, PushUnsent, PushUnanswered,
              ReadActive, counters
<1>6. CASE Settle
  <2> DEFINE left == Confirmed
  <2>1. \A r \in Streams : line'[r].held => line'[r].user \in Kept(activeSeen, left)
    BY <1>6 DEF Settle, Orphan, Event
  <2> QED BY <1>6, <2>1 DEF Settle
<1>7. CASE UNCHANGED vars
  BY <1>7 DEF vars, counters
<1> QED
  BY <1>1, <1>2, <1>3, <1>4, <1>5, <1>6, <1>7 DEF Next, Consume

\* An event makes a counter no smaller.
LEMMA AddGrows ==
  ASSUME TypeOK, NEW s \in Streams, Add(s), NEW u \in Uuids, NEW d \in Dirs
  PROVE  pending[u][d] <= pending'[u][d]
<1> USE DEF TypeOK
<1>1. line[s].user \in Uuids /\ line[s].bytes \in Bytes
  BY DEF Event
<1>2. pending'[u] = pending[u] \/ pending'[u] = Plus(pending[u], line[s].bytes)
  BY <1>1 DEF Add
<1>3. Plus(pending[u], line[s].bytes)[d] = pending[u][d] + line[s].bytes[d]
  BY <1>1, PlusBytes
<1>4. pending[u][d] \in Nat /\ line[s].bytes[d] \in Nat
  BY <1>1 DEF Bytes
<1> QED BY <1>2, <1>3, <1>4

\* A list update deletes empty counters only.
LEMMA UpdateKeepsBytes ==
  ASSUME TypeOK, CountersLive, NEW new \in SUBSET Uuids, UpdateUsers(new)
  PROVE  pending' = pending
BY NothingPending DEF UpdateUsers, NewIDs, Kept, CountersLive, TypeOK

\* Pending bytes only grow while a report is in progress, and a snapshot takes
\* the id of the counter along with its bytes.
LEMMA BatchStep == IInv /\ [Next]_vars => BatchCovered'
<1> SUFFICES ASSUME IInv, [Next]_vars PROVE BatchCovered'
  OBVIOUS
<1> USE DEF IInv, TypeOK, BatchCovered, UidAttribution
<1>1. ASSUME NEW s \in Streams, Receive(s) \/ Fetch(s) PROVE BatchCovered'
  BY <1>1 DEF Receive, Fetch, counters, report
<1>2. ASSUME NEW s \in Streams, Add(s) PROVE BatchCovered'
  <2>1. line[s].user \in Uuids /\ line[s].bytes \in Bytes
    BY DEF Event
  <2>2. \A u \in Uuids, d \in Dirs : pending[u][d] <= pending'[u][d]
    BY <1>2, AddGrows
  <2>3. \A u \in Uuids, d \in Dirs : batch[u][d] <= pending'[u][d]
    <3>1. pending' \in [Uuids -> Bytes]
      BY <1>2, <2>1, PlusBytes DEF Add
    <3> QED BY <2>2, <3>1 DEF Bytes
  <2> QED BY <1>2, <2>3 DEF Add, report
<1>3. ASSUME NEW new \in SUBSET Uuids, UpdateUsers(new) PROVE BatchCovered'
  <2>1. pending' = pending
    BY <1>3, UpdateKeepsBytes
  <2> QED BY <1>3, <2>1 DEF UpdateUsers, NewIDs, report
<1>4. CASE Snapshot
  <2>1. \A u \in Uuids, d \in Dirs : batch'[u][d] <= pending[u][d]
    BY <1>4 DEF Snapshot, Zero, Bytes
  <2>2. \A u \in Uuids : HasPending(batch'[u]) => batchUid'[u] = IdOf[u]
    BY <1>4 DEF Snapshot, HasPending, Zero, IdsKept
  <2> QED BY <1>4, <2>1, <2>2 DEF Snapshot, counters
<1>5. CASE GiveUp /\ UNCHANGED counters
  <2>1. \A u \in Uuids : batch'[u] = Zero
    BY <1>5 DEF GiveUp, NoBytes
  <2>2. \A u \in Uuids, d \in Dirs : batch'[u][d] <= pending[u][d]
    BY <2>1 DEF Zero, Bytes
  <2> QED BY <1>5, <2>1, <2>2 DEF HasPending, Zero, counters
<1>6. CASE UNCHANGED <<batch, batchUid>> /\ UNCHANGED counters
  BY <1>6 DEF counters
<1>7. CASE PushOk \/ PushRefused \/ PushUnsent \/ PushUnanswered \/ ReadActive
  BY <1>5, <1>6, <1>7 DEF PushOk, PushRefused, PushUnsent, PushUnanswered,
                          RetryOrGiveUp, ReadActive, lists
<1>8. CASE Settle
  <2>1. \A u \in Uuids : batch'[u] = Zero
    BY <1>8 DEF Settle, NoBytes
  <2>2. pending' \in [Uuids -> Bytes]
    BY <1>8, ZeroBytes, MinusBytes DEF Settle, Confirmed
  <2> QED BY <2>1, <2>2 DEF HasPending, Zero, Bytes
<1>9. CASE UNCHANGED vars
  BY <1>9 DEF vars, counters, report
<1> QED
  BY <1>1, <1>2, <1>3, <1>4, <1>7, <1>8, <1>9 DEF Next, Consume, Report

\* A step that leaves pending, dropped and metered alone keeps the balance if
\* what it books is what it stops or starts to hold back.
LEMMA BooksReport ==
  ASSUME IInv, PushOk \/ PushUnanswered
  PROVE  BooksBalance'
<1> USE DEF IInv, TypeOK, BooksBalance, Acked, ledger, counters
<1> SUFFICES ASSUME NEW u \in Uuids, NEW d \in Dirs
             PROVE  (/\ unanswered[u][d] <= credited[u][d]
                     /\ metered[u][d] + unanswered[u][d] + Acked(u)[d]
                          = pending[u][d] + dropped[u][d] + credited[u][d])'
  OBVIOUS
<1>1. /\ batch[u][d] \in Nat /\ credited[u][d] \in Nat /\ unanswered[u][d] \in Nat
      /\ metered[u][d] \in Nat /\ pending[u][d] \in Nat /\ dropped[u][d] \in Nat
  BY DEF Bytes
<1>2. /\ Booked(credited)[u][d] = credited[u][d] + batch[u][d]
      /\ Booked(unanswered)[u][d] = unanswered[u][d] + batch[u][d]
  <2>1. CASE batchUid[u] = IdOf[u]
    BY <2>1, PlusBytes DEF Booked
  <2>2. CASE batchUid[u] # IdOf[u]
    <3>1. batch[u] = Zero
      BY <2>2, NothingPending DEF BatchCovered, UidAttribution
    <3> QED BY <1>1, <2>2, <3>1 DEF Booked, Zero
  <2> QED BY <2>1, <2>2
<1>3. CASE PushOk
  BY <1>1, <1>2, <1>3 DEF PushOk, Zero
<1>4. CASE PushUnanswered
  <2>1. rpc = "push" /\ rpc' \in {"push", "idle"}
    BY <1>4 DEF PushUnanswered, RetryOrGiveUp, GiveUp
  <2>2. Acked(u)[d] = 0 /\ Acked(u)'[d] = 0
    BY <2>1 DEF Zero
  <2>3. /\ pending'[u][d] = pending[u][d] /\ dropped'[u][d] = dropped[u][d]
        /\ metered'[u][d] = metered[u][d]
        /\ credited'[u][d] = Booked(credited)[u][d]
        /\ unanswered'[u][d] = Booked(unanswered)[u][d]
    BY <1>4 DEF PushUnanswered
  <2>4. /\ unanswered[u][d] <= credited[u][d]
        /\ metered[u][d] + unanswered[u][d] + Acked(u)[d]
             = pending[u][d] + dropped[u][d] + credited[u][d]
    OBVIOUS
  <2> HIDE DEF Acked, IInv, TypeOK, BooksBalance
  <2> QED BY <1>1, <1>2, <2>2, <2>3, <2>4
<1> QED BY <1>3, <1>4

\* A confirm takes from a counter exactly what was reported of it, whether the
\* counter stays or is deleted.
LEMMA SettleExact ==
  ASSUME IInv, Settle, NEW u \in Uuids, NEW d \in Dirs
  PROVE  pending'[u][d] = pending[u][d] - batch[u][d]
<1> USE DEF IInv, TypeOK
<1> DEFINE left == Minus(pending[u], batch[u])
<1>1. left \in Bytes /\ left[d] = pending[u][d] - batch[u][d]
  BY MinusBytes DEF BatchCovered
<1>2. CASE u \in stats /\ (u \in activeSeen \/ HasPending(left))
  BY <1>1, <1>2 DEF Settle, Confirmed, Kept
<1>3. CASE u \in stats /\ ~HasPending(left)
  <2>1. left = Zero
    BY <1>1, <1>3, NothingPending
  <2>2. pending'[u] \in {left, Zero}
    BY DEF Settle, Confirmed
  <2> QED BY <1>1, <2>1, <2>2
<1>4. CASE u \notin stats
  <2>1. pending[u] = Zero /\ pending'[u] = Zero
    BY <1>4 DEF Settle, Confirmed, Kept, CountersLive
  <2>2. batch[u][d] <= pending[u][d] /\ batch[u][d] \in Nat
    BY DEF BatchCovered, Bytes
  <2> QED BY <2>1, <2>2 DEF Zero
<1> QED BY <1>2, <1>3, <1>4

\* A confirm subtracts exactly what was reported, because the counters cover it.
LEMMA BooksSettle ==
  ASSUME IInv, Settle
  PROVE  BooksBalance'
<1> USE DEF IInv, TypeOK
<1>1. \A u \in Uuids, d \in Dirs : pending'[u][d] = pending[u][d] - batch[u][d]
  BY SettleExact
<1> SUFFICES ASSUME NEW u \in Uuids, NEW d \in Dirs
             PROVE  (/\ unanswered[u][d] <= credited[u][d]
                     /\ metered[u][d] + unanswered[u][d] + Acked(u)[d]
                          = pending[u][d] + dropped[u][d] + credited[u][d])'
  BY DEF BooksBalance
<1>2. /\ batch[u][d] \in Nat /\ credited[u][d] \in Nat /\ unanswered[u][d] \in Nat
      /\ metered[u][d] \in Nat /\ pending[u][d] \in Nat /\ dropped[u][d] \in Nat
  BY DEF Bytes
<1>3. Acked(u)[d] = batch[u][d] /\ Acked(u)'[d] = 0
  BY DEF Settle, Acked, Zero
<1>4. /\ dropped'[u][d] = dropped[u][d] /\ metered'[u][d] = metered[u][d]
      /\ credited'[u][d] = credited[u][d] /\ unanswered'[u][d] = unanswered[u][d]
  BY DEF Settle, panel, ledger
<1>5. /\ unanswered[u][d] <= credited[u][d]
      /\ metered[u][d] + unanswered[u][d] + batch[u][d]
           = pending[u][d] + dropped[u][d] + credited[u][d]
  BY <1>3 DEF BooksBalance
<1>6. pending'[u][d] = pending[u][d] - batch[u][d]
  BY <1>1
<1>7. metered[u][d] + unanswered[u][d]
        = (pending[u][d] - batch[u][d]) + dropped[u][d] + credited[u][d]
  BY <1>2, <1>5
<1> HIDE DEF IInv, TypeOK
<1> QED BY <1>2, <1>3, <1>4, <1>5, <1>6, <1>7

\* Adding books the bytes once, as pending or as dropped; deleting a counter
\* moves nothing, because only empty counters are deleted.
LEMMA BooksStep == IInv /\ [Next]_vars => BooksBalance'
<1> SUFFICES ASSUME IInv, [Next]_vars PROVE BooksBalance'
  OBVIOUS
<1> USE DEF IInv
<1>1. CASE UNCHANGED <<panel, ledger, pending>> /\ \A u \in Uuids : Acked(u)' = Acked(u)
  BY <1>1 DEF BooksBalance, panel, ledger
<1>2. ASSUME NEW s \in Streams, Receive(s) \/ Fetch(s) PROVE BooksBalance'
  BY <1>1, <1>2 DEF Receive, Fetch, counters, report, Acked
<1>3. ASSUME NEW s \in Streams, Add(s) PROVE BooksBalance'
  <2> DEFINE v == line[s].user
             b == line[s].bytes
  <2>1. v \in Uuids /\ b \in Bytes
    BY DEF TypeOK, Event
  <2>2. UNCHANGED panel /\ \A u \in Uuids : Acked(u)' = Acked(u)
    BY <1>3 DEF Add, report, Acked
  <2>3. \A u \in Uuids \ {v} :
            /\ pending'[u] = pending[u]
            /\ dropped'[u] = dropped[u]
            /\ metered'[u] = metered[u]
    BY <1>3 DEF Add, TypeOK
  <2>4. /\ metered'[v] = Plus(metered[v], b)
        /\ \/ pending'[v] = Plus(pending[v], b) /\ dropped'[v] = dropped[v]
           \/ dropped'[v] = Plus(dropped[v], b) /\ pending'[v] = pending[v]
    BY <1>3, <2>1 DEF Add, TypeOK
  <2>5. ASSUME NEW d \in Dirs
        PROVE  metered'[v][d] + unanswered[v][d] + Acked(v)[d]
                 = pending'[v][d] + dropped'[v][d] + credited[v][d]
    <3>1. /\ Plus(metered[v], b)[d] = metered[v][d] + b[d]
          /\ Plus(pending[v], b)[d] = pending[v][d] + b[d]
          /\ Plus(dropped[v], b)[d] = dropped[v][d] + b[d]
      BY <2>1, PlusBytes DEF TypeOK
    <3>2. /\ metered[v][d] \in Nat /\ pending[v][d] \in Nat /\ dropped[v][d] \in Nat
          /\ credited[v][d] \in Nat /\ unanswered[v][d] \in Nat /\ b[d] \in Nat
          /\ Acked(v)[d] \in Nat
      BY <2>1, ZeroBytes DEF TypeOK, Bytes, Acked
    <3>3. metered[v][d] + unanswered[v][d] + Acked(v)[d]
            = pending[v][d] + dropped[v][d] + credited[v][d]
      BY <2>1 DEF BooksBalance
    <3> HIDE DEF IInv, v, b
    <3> QED BY <2>4, <3>1, <3>2, <3>3
  <2> QED BY <2>2, <2>3, <2>5 DEF BooksBalance, panel
<1>4. ASSUME NEW new \in SUBSET Uuids, UpdateUsers(new) PROVE BooksBalance'
  <2>1. pending' = pending
    BY <1>4, UpdateKeepsBytes
  <2> QED BY <1>1, <1>4, <2>1 DEF UpdateUsers, NewIDs, report, Acked
<1>5. CASE Snapshot \/ PushRefused \/ PushUnsent \/ ReadActive
  BY <1>1, <1>5 DEF Snapshot, PushRefused, PushUnsent, RetryOrGiveUp, GiveUp,
                    ReadActive, counters, panel, ledger, Acked
<1>6. CASE UNCHANGED vars
  BY <1>1, <1>6 DEF vars, counters, report, Acked
<1> QED
  BY <1>2, <1>3, <1>4, <1>5, <1>6, BooksReport, BooksSettle
  DEF Next, Consume, Report

\* A counter of a user that no list has ever left out survives both the list
\* updates and the confirms, whatever list a confirm has read.
LEMMA StableStep == IInv /\ [Next]_vars => StableKept'
<1> SUFFICES ASSUME IInv, [Next]_vars PROVE StableKept'
  OBVIOUS
<1> USE DEF IInv, TypeOK, StableKept, StableUsersLoseNothing
<1>1. ASSUME NEW s \in Streams, Receive(s) PROVE StableKept'
  BY <1>1 DEF Receive, lists, counters, report, ledger
<1>2. ASSUME NEW s \in Streams, Fetch(s) PROVE StableKept'
  <2>1. line'[s].held
    BY <1>2 DEF Fetch, Event
  <2>2. \A r \in Streams \ {s} : line'[r] = line[r]
    BY <1>2 DEF Fetch
  <2> QED BY <1>2, <2>1, <2>2 DEF Fetch, lists, report, ledger
<1>3. ASSUME NEW s \in Streams, Add(s) PROVE StableKept'
  <2>1. \A u \in stable : dropped'[u] = dropped[u]
    BY <1>3 DEF Add, Event
  <2>2. \A r \in Streams : line'[r].pc = "add" => line'[r] = line[r]
    BY <1>3 DEF Add, NoEvent
  <2> QED BY <1>3, <2>1, <2>2 DEF Add, lists, report
<1>4. ASSUME NEW new \in SUBSET Uuids, UpdateUsers(new) PROVE StableKept'
  <2>1. stable' \subseteq new /\ stable' \subseteq stable
    BY <1>4 DEF UpdateUsers, NewIDs
  <2>2. stable' \subseteq Kept(new, pending)
    BY <2>1 DEF Kept
  <2>3. \A r \in Streams : /\ line'[r].pc = line[r].pc
                           /\ line'[r].user = line[r].user
                           /\ line'[r].held = (/\ line[r].held
                                             /\ line[r].user \in Kept(new, pending))
    BY <1>4 DEF UpdateUsers, NewIDs, Orphan, Event
  <2> QED BY <1>4, <2>1, <2>2, <2>3 DEF UpdateUsers, NewIDs, report, ledger
<1>5. CASE Snapshot \/ PushOk \/ PushRefused \/ PushUnsent \/ PushUnanswered
  BY <1>5 DEF Snapshot, PushOk, PushRefused, PushUnsent, PushUnanswered,
              RetryOrGiveUp, GiveUp, lists, counters, ledger
<1>6. CASE ReadActive
  BY <1>6 DEF ReadActive, lists, counters, ledger
<1>7. CASE Settle
  <2> DEFINE left == Confirmed
             kept == Kept(activeSeen, left)
  <2>1. stable \subseteq kept
    BY <1>7 DEF Settle, Confirmed, Kept
  <2>2. \A r \in Streams : /\ line'[r].pc = line[r].pc
                           /\ line'[r].user = line[r].user
                           /\ line'[r].held = (line[r].held /\ line[r].user \in kept)
    BY <1>7 DEF Settle, Orphan, Event
  <2>3. stats' = kept
    BY <1>7 DEF Settle
  <2>4. rpc' = "idle" /\ UNCHANGED <<users, stable, dropped>>
    BY <1>7 DEF Settle, lists, ledger
  <2> HIDE DEF kept
  <2> QED BY <2>1, <2>2, <2>3, <2>4
<1>8. CASE UNCHANGED vars
  BY <1>8 DEF vars, lists, counters, report, ledger
<1> QED
  BY <1>1, <1>2, <1>3, <1>4, <1>5, <1>6, <1>7, <1>8 DEF Next, Consume, Report

-------------------------------------------------------------------------------
(***************************************************************************)
(* The theorems.                                                           *)
(***************************************************************************)

\* The invariant holds in every reachable state of the metering.
LEMMA Invariance == Spec => []IInv
<1>1. IInv /\ [Next]_vars => IInv'
  <2>1. IInv /\ [Next]_vars => TypeOK'
    BY NextTyped DEF IInv
  <2> QED
    BY <2>1, IdsStep, CountersStep, BatchStep, BooksStep, StableStep DEF IInv
<1> QED BY <1>1, InitInv, PTL DEF Spec

\* The differences the ledger is made of are exact: a counter covers the batch
\* in progress, and the panel has booked what went unanswered.
LEMMA LedgerExact ==
  ASSUME IInv, NEW u \in Uuids, NEW d \in Dirs
  PROVE  /\ Unbilled[u][d] + dropped[u][d] + Billed[u][d] = metered[u][d]
         /\ Unbilled[u][d] \in Nat
         /\ Billed[u][d] = credited[u][d] - unanswered[u][d]
         /\ Unbilled[u][d] = pending[u][d] - Acked(u)[d]
<1> USE DEF IInv, TypeOK
<1>1. /\ credited[u] \in Bytes /\ unanswered[u] \in Bytes
      /\ pending[u] \in Bytes /\ Acked(u) \in Bytes
      /\ dropped[u] \in Bytes /\ metered[u] \in Bytes
  BY ZeroBytes DEF Acked
<1>2. Acked(u)[d] <= pending[u][d]
  BY DEF BatchCovered, Acked, Zero, Bytes
<1>3. /\ Unbilled[u] \in Bytes
      /\ Unbilled[u][d] = pending[u][d] - Acked(u)[d]
  BY <1>1, <1>2, MinusBytes DEF Unbilled
<1>4. Billed[u][d] = credited[u][d] - unanswered[u][d]
  BY <1>1, MinusBytes DEF Billed, BooksBalance
<1>5. metered[u][d] + unanswered[u][d] + Acked(u)[d]
        = pending[u][d] + dropped[u][d] + credited[u][d]
  BY DEF BooksBalance
<1>6. /\ credited[u][d] \in Nat /\ unanswered[u][d] \in Nat
      /\ pending[u][d] \in Nat /\ Acked(u)[d] \in Nat
      /\ dropped[u][d] \in Nat /\ metered[u][d] \in Nat /\ Unbilled[u][d] \in Nat
  BY <1>1, <1>3 DEF Bytes
<1> HIDE DEF IInv, TypeOK
<1> QED BY <1>3, <1>4, <1>5, <1>6

\* A byte that reached a live counter waits there or has been booked, however
\* reports, list updates and events interleave.
THEOREM TrafficNotUnderbilled == Spec => []NoUnderbilling
<1>1. IInv => NoUnderbilling
  <2> SUFFICES ASSUME IInv, NEW u \in Uuids, NEW d \in Dirs
               PROVE  metered[u][d] + unanswered[u][d]
                        <= Unbilled[u][d] + dropped[u][d] + credited[u][d]
    BY DEF NoUnderbilling
  <2>1. /\ credited[u][d] \in Nat /\ unanswered[u][d] \in Nat
        /\ dropped[u][d] \in Nat /\ metered[u][d] \in Nat
    BY DEF IInv, TypeOK, Bytes
  <2> QED BY <2>1, LedgerExact
<1> QED BY <1>1, Invariance, PTL

\* No byte is booked twice but by a push whose answer was lost.
THEOREM TrafficNotDoubleBilled == Spec => []NoDoubleBilling
<1>1. IInv => NoDoubleBilling
  <2> SUFFICES ASSUME IInv, NEW u \in Uuids, NEW d \in Dirs
               PROVE  Unbilled[u][d] + dropped[u][d] + credited[u][d]
                        <= metered[u][d] + unanswered[u][d]
    BY DEF NoDoubleBilling
  <2>1. /\ credited[u][d] \in Nat /\ unanswered[u][d] \in Nat
        /\ dropped[u][d] \in Nat /\ metered[u][d] \in Nat
    BY DEF IInv, TypeOK, Bytes
  <2> QED BY <2>1, LedgerExact
<1> QED BY <1>1, Invariance, PTL

\* A byte is pushed under the id of its user, deleted or not.
THEOREM TrafficAttributed == Spec => []UidAttribution
<1>1. IInv => UidAttribution
  BY DEF IInv, BatchCovered
<1> QED BY <1>1, Invariance, PTL

\* A user that was in every list so far has lost nothing.
THEOREM TrafficStableUsers == Spec => []StableUsersLoseNothing
<1>1. IInv => StableUsersLoseNothing
  BY DEF IInv, StableKept
<1> QED BY <1>1, Invariance, PTL

\* ConfirmUserTraffic, subtractReported: the bytes of a counter become fewer in
\* one place only, the confirm of a push the panel has acknowledged, and by
\* exactly what was pushed, so that what an event adds in between stays.
ConfirmExact ==
    [][\A u \in Uuids, d \in Dirs :
          pending'[u][d] < pending[u][d] =>
              rpc = "settle" /\ pending'[u][d] = pending[u][d] - batch[u][d]]_vars

\* No list update, no deletion and no failed push takes a byte from a counter; a
\* confirm takes what the panel has acknowledged, however many bytes have come
\* since, and also if it deletes the counter.
THEOREM TrafficConfirmsExactly == Spec => ConfirmExact
<1>1. IInv /\ [Next]_vars =>
         [\A u \in Uuids, d \in Dirs :
             pending'[u][d] < pending[u][d] =>
                 rpc = "settle" /\ pending'[u][d] = pending[u][d] - batch[u][d]]_vars
  <2> SUFFICES ASSUME IInv, Next, NEW u \in Uuids, NEW d \in Dirs,
                      pending'[u][d] < pending[u][d]
               PROVE  rpc = "settle" /\ pending'[u][d] = pending[u][d] - batch[u][d]
    OBVIOUS
  <2>1. pending[u][d] \in Nat
    BY DEF IInv, TypeOK, Bytes
  <2>2. pending' # pending
    BY <2>1
  <2>3. ASSUME NEW s \in Streams, Add(s) PROVE FALSE
    <3>1. pending[u][d] <= pending'[u][d] /\ pending'[u][d] \in Nat
      BY <2>3, AddGrows, NextTyped DEF IInv, Next, Consume, TypeOK, Bytes
    <3> QED BY <2>1, <3>1
  <2>4. ASSUME NEW new \in SUBSET Uuids, UpdateUsers(new) PROVE FALSE
    BY <2>2, <2>4, UpdateKeepsBytes DEF IInv
  <2>5. Settle
    BY <2>2, <2>3, <2>4
       DEF Next, Consume, Report, Receive, Fetch, Snapshot, PushOk, PushRefused, PushUnsent,
           PushUnanswered, ReadActive, counters
  <2> QED BY <2>5, SettleExact DEF Settle
<1> QED BY <1>1, Invariance, PTL DEF Spec, ConfirmExact

-------------------------------------------------------------------------------
(***************************************************************************)
(* Traffic implements Billing.                                             *)
(***************************************************************************)

\* Two ledgers with the same entries are the same ledger.
LEMMA SameLedger ==
  ASSUME NEW f \in [Uuids -> Bytes], NEW g \in [Uuids -> Bytes],
         \A u \in Uuids, d \in Dirs : f[u][d] = g[u][d]
  PROVE  f = g
<1>1. ASSUME NEW u \in Uuids PROVE f[u] = g[u]
  <2>1. f[u] \in Bytes /\ g[u] \in Bytes
    OBVIOUS
  <2>2. \A d \in Dirs : f[u][d] = g[u][d]
    OBVIOUS
  <2> QED BY <2>1, <2>2 DEF Bytes
<1> QED BY <1>1

\* Both sides of the ledger are byte pairs.
LEMMA LedgerTyped ==
  ASSUME TypeOK
  PROVE  Unbilled \in [Uuids -> Bytes] /\ Billed \in [Uuids -> Bytes]
  BY ZeroBytes, MinusBytes DEF TypeOK, Unbilled, Billed, Acked


\* What LedgerTyped and LedgerExact say, as one state formula, so that it can be
\* used of the state after a step.
LedgerFacts ==
    /\ Unbilled \in [Uuids -> Bytes] /\ Billed \in [Uuids -> Bytes]
    /\ \A u \in Uuids, d \in Dirs :
           /\ Unbilled[u][d] = pending[u][d] - Acked(u)[d]
           /\ Billed[u][d] = credited[u][d] - unanswered[u][d]
           /\ Unbilled[u][d] + dropped[u][d] + Billed[u][d] = metered[u][d]

\* The facts follow from the invariant.
LEMMA LedgerNow == IInv => LedgerFacts
  BY LedgerTyped, LedgerExact DEF LedgerFacts, IInv

\* A step between two states of the invariant is one between two states of
\* which they hold.
LEMMA LedgerAfter == IInv /\ IInv' => LedgerFacts /\ LedgerFacts'
  BY LedgerNow, PTL

\* Adding bytes is Count or Lose.
LEMMA AddSimulates ==
  ASSUME IInv, IInv', NEW s \in Streams, Add(s)
  PROVE  Ledger!BillingNext
<1> DEFINE v == line[s].user
           b == line[s].bytes
           more(f) == [f EXCEPT ![v] = Plus(f[v], b)]
<1>1. v \in Uuids /\ b \in Chunks /\ b \in Bytes
  BY ChunksAssumption DEF IInv, TypeOK, IdsKept, Event, Add
<1>2. LedgerFacts /\ LedgerFacts'
  BY LedgerAfter
<1>3. UNCHANGED panel /\ \A u \in Uuids : Acked(u)' = Acked(u)
  BY DEF Add, report, Acked
<1>4. Billed' = Billed
  BY <1>3 DEF Billed, panel
<1>5. CASE line[s].held
  <2>1. pending' = more(pending) /\ dropped' = dropped
    BY <1>5 DEF Add
  <2>2. \A u \in Uuids, d \in Dirs : more(Unbilled)[u][d] = Unbilled'[u][d]
    <3> SUFFICES ASSUME NEW u \in Uuids, NEW d \in Dirs
                 PROVE  more(Unbilled)[u][d] = Unbilled'[u][d]
      OBVIOUS
    <3>1. CASE u = v
      <4>1. Plus(pending[v], b)[d] = pending[v][d] + b[d]
        BY <1>1, PlusBytes DEF IInv, TypeOK
      <4>2. Plus(Unbilled[v], b)[d] = Unbilled[v][d] + b[d]
        BY <1>1, <1>2, PlusBytes DEF LedgerFacts
      <4>3. pending'[v] = Plus(pending[v], b) /\ more(Unbilled)[v] = Plus(Unbilled[v], b)
        BY <1>1, <1>2, <2>1 DEF IInv, TypeOK, LedgerFacts
      <4>4. /\ pending[v][d] \in Nat /\ b[d] \in Nat /\ Acked(v)[d] \in Nat
            /\ Unbilled[v][d] = pending[v][d] - Acked(v)[d]
            /\ Unbilled'[v][d] = pending'[v][d] - Acked(v)[d]
        BY <1>1, <1>2, <1>3, ZeroBytes DEF IInv, TypeOK, LedgerFacts, Acked, Bytes
      <4> HIDE DEF v, b, more
      <4> QED BY <3>1, <4>1, <4>2, <4>3, <4>4
    <3>2. CASE u # v
      <4>1. pending'[u] = pending[u] /\ more(Unbilled)[u] = Unbilled[u]
        BY <1>1, <1>2, <2>1, <3>2 DEF IInv, TypeOK, LedgerFacts
      <4> QED BY <1>2, <1>3, <4>1 DEF LedgerFacts
    <3> QED BY <3>1, <3>2
  <2>3. more(Unbilled) \in [Uuids -> Bytes]
    BY <1>1, <1>2, PlusBytes DEF LedgerFacts
  <2>4. Unbilled' = more(Unbilled)
    BY <1>2, <2>2, <2>3, SameLedger DEF LedgerFacts
  <2>5. Ledger!Count(v, b)
    BY <1>4, <2>1, <2>4 DEF Ledger!Count, Ledger!Plus, Ledger!Dirs, Plus, Dirs
  <2> QED BY <1>1, <2>5 DEF Ledger!BillingNext
<1>6. CASE ~line[s].held
  <2>1. dropped' = more(dropped) /\ pending' = pending
    BY <1>6 DEF Add
  <2>2. \A u \in Uuids, d \in Dirs : Unbilled'[u][d] = Unbilled[u][d]
    BY <1>2, <1>3, <2>1 DEF LedgerFacts
  <2>3. Unbilled' = Unbilled
    BY <1>2, <2>2, SameLedger DEF LedgerFacts
  <2>4. Ledger!Lose(v, b)
    BY <1>4, <2>1, <2>3 DEF Ledger!Lose, Ledger!Plus, Ledger!Dirs, Plus, Dirs
  <2> QED BY <1>1, <2>4 DEF Ledger!BillingNext
<1> QED BY <1>5, <1>6

\* A push the panel accepts moves the batch from unbilled to billed.
LEMMA PushSimulates ==
  ASSUME IInv, IInv', PushOk
  PROVE  Ledger!Bill
<1>1. LedgerFacts /\ LedgerFacts'
  BY LedgerAfter
<1>2. UNCHANGED <<unanswered, metered, dropped>>
  BY DEF PushOk, ledger
<1>3. ASSUME NEW u \in Uuids, NEW d \in Dirs
      PROVE  /\ Billed[u][d] <= Billed'[u][d]
             /\ Billed'[u][d] + Unbilled'[u][d] = Billed[u][d] + Unbilled[u][d]
  <2>1. Booked(credited)[u][d] >= credited[u][d]
    <3>1. credited[u] \in Bytes /\ batch[u] \in Bytes
      BY DEF IInv, TypeOK
    <3>2. Plus(credited[u], batch[u])[d] = credited[u][d] + batch[u][d]
      BY <3>1, PlusBytes
    <3>3. \/ Booked(credited)[u] = credited[u]
          \/ Booked(credited)[u] = Plus(credited[u], batch[u])
      BY DEF Booked
    <3>4. credited[u][d] \in Nat /\ batch[u][d] \in Nat
      BY <3>1 DEF Bytes
    <3> QED BY <3>2, <3>3, <3>4
  <2>2. /\ credited[u][d] \in Nat /\ unanswered[u][d] \in Nat
        /\ credited'[u][d] \in Nat /\ dropped[u][d] \in Nat
        /\ metered[u][d] \in Nat
        /\ Billed[u][d] \in Nat /\ Billed'[u][d] \in Nat
        /\ Unbilled[u][d] \in Nat /\ Unbilled'[u][d] \in Nat
    BY <1>1 DEF IInv, TypeOK, LedgerFacts, Bytes
  <2>3. /\ Billed[u][d] = credited[u][d] - unanswered[u][d]
        /\ Billed'[u][d] = credited'[u][d] - unanswered[u][d]
        /\ Unbilled[u][d] + dropped[u][d] + Billed[u][d] = metered[u][d]
        /\ Unbilled'[u][d] + dropped[u][d] + Billed'[u][d] = metered[u][d]
    BY <1>1, <1>2 DEF LedgerFacts
  <2>4. credited'[u][d] >= credited[u][d]
    BY <2>1 DEF PushOk
  <2> QED BY <2>2, <2>3, <2>4
<1> QED BY <1>1, <1>2, <1>3
        DEF Ledger!Bill, Ledger!Bytes, Ledger!Dirs, LedgerFacts, Bytes, Dirs

\* A confirm only stops holding back what the panel has already booked.
LEMMA SettleSimulates ==
  ASSUME IInv, IInv', Settle
  PROVE  UNCHANGED Ledger!billingVars
<1>1. LedgerFacts /\ LedgerFacts'
  BY LedgerAfter
<1>2. UNCHANGED <<panel, ledger>>
  BY DEF Settle
<1>3. Billed' = Billed
  BY <1>2 DEF Billed, panel
<1>4. ASSUME NEW u \in Uuids, NEW d \in Dirs PROVE Unbilled'[u][d] = Unbilled[u][d]
  <2>1. /\ Unbilled[u][d] \in Nat /\ Unbilled'[u][d] \in Nat
        /\ dropped[u][d] \in Nat /\ metered[u][d] \in Nat /\ Billed[u][d] \in Nat
    BY <1>1 DEF IInv, TypeOK, LedgerFacts, Bytes
  <2>2. /\ Unbilled[u][d] + dropped[u][d] + Billed[u][d] = metered[u][d]
        /\ Unbilled'[u][d] + dropped[u][d] + Billed[u][d] = metered[u][d]
    BY <1>1, <1>2, <1>3 DEF LedgerFacts, ledger
  <2> QED BY <2>1, <2>2
<1>5. Unbilled' = Unbilled
  BY <1>1, <1>4, SameLedger DEF LedgerFacts
<1> QED BY <1>2, <1>3, <1>5 DEF Ledger!billingVars, ledger

\* A push whose answer is lost changes neither side.
LEMMA UnansweredSimulates ==
  ASSUME IInv, IInv', PushUnanswered
  PROVE  UNCHANGED Ledger!billingVars
<1>1. LedgerFacts /\ LedgerFacts'
  BY LedgerAfter
<1>2. rpc = "push" /\ rpc' \in {"push", "idle"} /\ UNCHANGED <<pending, dropped>>
  BY DEF PushUnanswered, RetryOrGiveUp, GiveUp, counters, ledger
<1>3. Unbilled' = Unbilled
  BY <1>2 DEF Unbilled, Acked
<1>4. ASSUME NEW u \in Uuids, NEW d \in Dirs PROVE Billed'[u][d] = Billed[u][d]
  <2>1. /\ metered'[u][d] = metered[u][d] /\ dropped'[u][d] = dropped[u][d]
        /\ Unbilled'[u][d] = Unbilled[u][d]
    BY <1>2, <1>3 DEF PushUnanswered, ledger
  <2>2. /\ Unbilled[u][d] \in Nat /\ dropped[u][d] \in Nat /\ metered[u][d] \in Nat
        /\ Billed[u][d] \in Nat /\ Billed'[u][d] \in Nat
    BY <1>1 DEF IInv, TypeOK, LedgerFacts, Bytes
  <2>3. /\ Unbilled[u][d] + dropped[u][d] + Billed[u][d] = metered[u][d]
        /\ Unbilled'[u][d] + dropped'[u][d] + Billed'[u][d] = metered'[u][d]
    BY <1>1 DEF LedgerFacts
  <2> QED BY <2>1, <2>2, <2>3
<1>5. Billed' = Billed
  BY <1>1, <1>4, SameLedger DEF LedgerFacts
<1> QED BY <1>2, <1>3, <1>5 DEF Ledger!billingVars

\* Every step of the metering is a step or a stutter of Billing.
LEMMA StepSimulates ==
  IInv /\ IInv' /\ [Next]_vars => [Ledger!BillingNext]_(Ledger!billingVars)
<1> SUFFICES ASSUME IInv, IInv', [Next]_vars
             PROVE  [Ledger!BillingNext]_(Ledger!billingVars)
  OBVIOUS
<1>1. ASSUME UNCHANGED <<pending, panel, dropped>>, \A u \in Uuids : Acked(u)' = Acked(u)
      PROVE  UNCHANGED Ledger!billingVars
  BY <1>1 DEF Ledger!billingVars, Unbilled, Billed, panel
<1>2. ASSUME NEW s \in Streams, Receive(s) \/ Fetch(s)
      PROVE  UNCHANGED Ledger!billingVars
  BY <1>1, <1>2 DEF Receive, Fetch, counters, report, ledger, Acked
<1>3. ASSUME NEW new \in SUBSET Uuids, UpdateUsers(new)
      PROVE  UNCHANGED Ledger!billingVars
  <2>1. pending' = pending
    BY <1>3, NothingPending DEF UpdateUsers, NewIDs, Kept, IInv, CountersLive, TypeOK
  <2> QED BY <1>1, <1>3, <2>1 DEF UpdateUsers, NewIDs, report, ledger, Acked
<1>4. ASSUME Snapshot \/ PushRefused \/ PushUnsent \/ ReadActive
      PROVE  UNCHANGED Ledger!billingVars
  BY <1>1, <1>4 DEF Snapshot, PushRefused, PushUnsent, RetryOrGiveUp, GiveUp,
                    ReadActive, counters, ledger, Acked
<1>5. ASSUME UNCHANGED vars PROVE UNCHANGED Ledger!billingVars
  BY <1>1, <1>5 DEF vars, counters, report, ledger, Acked
<1>6. ASSUME PushOk PROVE Ledger!BillingNext
  BY <1>6, PushSimulates DEF Ledger!BillingNext
<1> QED
  BY <1>2, <1>3, <1>4, <1>5, <1>6, AddSimulates, SettleSimulates, UnansweredSimulates
  DEF Next, Consume, Report

\* The counters and the report task implement the ledger of Billing: what was
\* counted is billed once, whatever the interleaving.
THEOREM TrafficImplementsBilling == Spec => LedgerSpec
<1>1. Init => Ledger!BillingInit
  <2>1. ASSUME Init PROVE Unbilled = NoBytes /\ Billed = NoBytes
    BY <2>1 DEF Init, NoBytes, Unbilled, Billed, Acked, Minus, Zero, Dirs
  <2> QED BY <2>1 DEF Ledger!BillingInit, Ledger!Zero, Ledger!Dirs, Init,
                      NoBytes, Zero, Dirs
<1> QED
  BY <1>1, Invariance, StepSimulates, PTL
  DEF Spec, LedgerSpec, Ledger!BillingSpec
===============================================================================
