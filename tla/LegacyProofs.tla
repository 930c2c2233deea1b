------------------------------ MODULE LegacyProofs ------------------------------
(***************************************************************************)
(* The metering of the legacy engine, for every set of users and requests: *)
(* a user that is in every list is billed to the byte.                     *)
(***************************************************************************)
EXTENDS LegacyProxy, TrafficProofs

Request == [pc : Working, user : Uuids, uid : Nat, bytes : Bytes, held : BOOLEAN]

CountersTyped ==
    /\ users \subseteq Uuids /\ stats \subseteq Uuids
    /\ pending \in [Uuids -> Bytes]
    /\ uid \in [Uuids -> Nat]
    /\ line \in [Streams -> Request]
    /\ \A s \in Streams : line[s].held => line[s].pc = "add" /\ line[s].user \in stats
    /\ \A u \in Uuids \ stats : pending[u] = Zero

ReportTyped ==
    /\ rpc \in {"idle", "push", "active", "settle"}
    /\ batch \in [Uuids -> Bytes]
    /\ batchUid \in [Uuids -> Nat]
    /\ \A u \in Uuids, d \in Dirs : batch[u][d] <= pending[u][d]

LedgerTypes ==
    /\ credited \in [Uuids -> Bytes] /\ unanswered \in [Uuids -> Bytes]
    /\ metered \in [Uuids -> Bytes] /\ dropped \in [Uuids -> Bytes]

\* The counter of a user that was always listed is never deleted, and has its id.
StableHeld ==
    /\ stable \subseteq users /\ stable \subseteq stats
    /\ rpc = "settle" => stable \subseteq activeSeen
    /\ \A s \in Streams : line[s].pc = "add" /\ line[s].user \in stable => line[s].held
    /\ \A u \in stable : /\ uid[u] = IdOf[u]
                         /\ HasPending(batch[u]) => batchUid[u] = IdOf[u]
                         /\ dropped[u] = Zero

\* What the panel has booked is what the counter gave away.
StableBooks ==
    \A u \in stable, d \in Dirs :
        metered[u][d] + unanswered[u][d] + Acked(u)[d] = pending[u][d] + credited[u][d]

LegacyInv == CountersTyped /\ ReportTyped /\ LedgerTypes /\ StableHeld /\ StableBooks

\* New: nothing is counted yet.
LEMMA LegacyInitInv == ASSUME LegacyInit PROVE LegacyInv
<1> USE UuidsAssumption, IdAssumption, ZeroBytes DEF LegacyInit, Init, NoBytes, NoUids
<1>1. NoEvent \in Request /\ ~NoEvent.held /\ NoEvent.pc = "read"
  BY DEF NoEvent, Request, Working
<1>2. CountersTyped
  BY <1>1 DEF CountersTyped
<1>3. ReportTyped /\ LedgerTypes
  BY SMTT(30) DEF ReportTyped, LedgerTypes, Zero
<1>4. StableHeld
  BY <1>1 DEF StableHeld, HasPending, Zero
<1>5. StableBooks
  <2>1. ASSUME NEW u \in stable, NEW d \in Dirs
        PROVE  /\ metered[u][d] = 0 /\ unanswered[u][d] = 0 /\ Acked(u)[d] = 0
               /\ pending[u][d] = 0 /\ credited[u][d] = 0
    BY DEF Acked, Zero
  <2>2. QED
    BY <2>1 DEF StableBooks
<1>6. QED
  BY <1>2, <1>3, <1>4, <1>5 DEF LegacyInv

-------------------------------------------------------------------------------
(***************************************************************************)
(* The requests.                                                           *)
(***************************************************************************)

\* The steps of a request that count nothing.
LEMMA QuietStep ==
    ASSUME LegacyInv, NEW s \in Streams,
           Authenticate(s) \/ Found(s) \/ Missed(s) \/ Lookup(s) \/ Proceed(s)
    PROVE  LegacyInv'
<1> USE UuidsAssumption, IdAssumption DEF LegacyInv, lists, counters, report, panel, ledger
<1>1. NoEvent \in Request /\ ~NoEvent.held /\ NoEvent.pc = "read"
  BY ZeroBytes DEF NoEvent, Request, Working
<1>2. UNCHANGED <<lists, counters, report, panel, ledger>>
  BY DEF Authenticate, Found, Missed, Lookup, Proceed
<1>3. /\ line' \in [Streams -> Request]
      /\ \A r \in Streams : r # s => line'[r] = line[r]
      /\ \/ ~line'[s].held /\ line'[s].pc # "add"
         \/ line'[s].held /\ line'[s].pc = "add" /\ line'[s].user \in stats
  <2>1. CASE Authenticate(s)
    <3>1. PICK u \in users :
              line' = [line EXCEPT ![s] = [NoEvent EXCEPT !.pc = "fetch", !.user = u]]
      BY <2>1 DEF Authenticate
    <3>2. /\ [NoEvent EXCEPT !.pc = "fetch", !.user = u] \in Request
          /\ [NoEvent EXCEPT !.pc = "fetch", !.user = u].pc = "fetch"
          /\ ~[NoEvent EXCEPT !.pc = "fetch", !.user = u].held
      BY <1>1 DEF CountersTyped, Request, Working
    <3>3. QED
      BY <3>1, <3>2 DEF CountersTyped
  <2>2. CASE Found(s)
    BY <2>2 DEF Found, CountersTyped, Request, Working
  <2>3. CASE Missed(s)
    BY <2>3 DEF Missed, CountersTyped, Request, Working
  <2>4. CASE Lookup(s)
    BY <2>4, ZenonT(60) DEF Lookup, CountersTyped, Request, Working
  <2>5. CASE Proceed(s)
    BY <1>1, <2>5 DEF Proceed, CountersTyped, Request, Working
  <2>6. QED
    BY <2>1, <2>2, <2>3, <2>4, <2>5
<1>4. CountersTyped'
  BY <1>2, <1>3 DEF CountersTyped
<1>5. ReportTyped' /\ LedgerTypes'
  BY <1>2 DEF ReportTyped, LedgerTypes
<1>6. StableHeld'
  BY <1>2, <1>3 DEF StableHeld
<1>7. StableBooks'
  BY <1>2 DEF StableBooks, Acked
<1>8. QED
  BY <1>4, <1>5, <1>6, <1>7

\* getCounter creates the counter; one that is there keeps its id.
LEMMA CreateStep == ASSUME LegacyInv, NEW s \in Streams, Create(s) PROVE LegacyInv'
<1> USE DEF LegacyInv, lists, report, panel, ledger
<1>1. line[s] \in Request /\ line[s].user \in Uuids
  BY DEF CountersTyped, Request
<1>2. /\ stats' = stats \cup {line[s].user}
      /\ uid' = [uid EXCEPT ![line[s].user] = IF line[s].user \in stats THEN @ ELSE line[s].uid]
      /\ UNCHANGED <<lists, pending, report, panel, ledger>>
  BY DEF Create
<1>3. /\ line' \in [Streams -> Request]
      /\ \A r \in Streams : r # s => line'[r] = line[r]
      /\ line'[s].held /\ line'[s].pc = "add" /\ line'[s].user \in stats'
  BY <1>1, <1>2 DEF Create, CountersTyped, Request, Working
<1>4. uid' \in [Uuids -> Nat] /\ \A u \in stats : uid'[u] = uid[u]
  BY <1>1, <1>2 DEF CountersTyped, Request
<1>5. CountersTyped'
  BY <1>1, <1>2, <1>3, <1>4 DEF CountersTyped
<1>6. ReportTyped' /\ LedgerTypes'
  BY <1>2 DEF ReportTyped, LedgerTypes
<1>7. StableHeld'
  BY <1>2, <1>3, <1>4 DEF StableHeld
<1>8. StableBooks'
  BY <1>2 DEF StableBooks, Acked
<1>9. QED
  BY <1>5, <1>6, <1>7, <1>8

\* The bytes of a copy are added once, to a counter that is in s.stats if its
\* user was always listed.
LEMMA CopiedStep == ASSUME LegacyInv, NEW s \in Streams, Copied(s) PROVE LegacyInv'
<1> USE DEF LegacyInv, lists, report, panel
<1> DEFINE v == line[s].user
<1>1. line[s] \in Request /\ v \in Uuids /\ line[s].pc = "add"
  BY DEF CountersTyped, Request, Copied
<1>2. PICK b \in Chunks :
         /\ metered' = [metered EXCEPT ![v] = Plus(@, b)]
         /\ \/ /\ line[s].held
               /\ pending' = [pending EXCEPT ![v] = Plus(@, b)]
               /\ UNCHANGED dropped
            \/ /\ ~line[s].held
               /\ dropped' = [dropped EXCEPT ![v] = Plus(@, b)]
               /\ UNCHANGED pending
  BY DEF Copied
<1>3. UNCHANGED <<lists, stats, uid, line, report, panel>>
  BY DEF Copied
<1>4. b \in Bytes
  BY ChunksAssumption
<1>5. /\ \A u \in Uuids : {pending[u], metered[u], dropped[u], batch[u]} \subseteq Bytes
      /\ \A u \in Uuids, d \in Dirs : /\ pending[u][d] \in Nat /\ batch[u][d] \in Nat
                                      /\ metered[u][d] \in Nat /\ b[d] \in Nat
  BY <1>4 DEF CountersTyped, ReportTyped, LedgerTypes, Bytes
<1>6. /\ metered' \in [Uuids -> Bytes] /\ pending' \in [Uuids -> Bytes]
      /\ dropped' \in [Uuids -> Bytes]
  BY <1>1, <1>2, <1>4, <1>5, PlusBytes DEF CountersTyped, LedgerTypes
<1>7. \A u \in Uuids : u # v => pending'[u] = pending[u] /\ dropped'[u] = dropped[u]
                                /\ metered'[u] = metered[u]
  BY <1>2 DEF CountersTyped, LedgerTypes
<1>8. \A d \in Dirs : /\ metered'[v][d] = metered[v][d] + b[d]
                      /\ line[s].held => pending'[v][d] = pending[v][d] + b[d]
                      /\ ~line[s].held => pending'[v] = pending[v]
  BY <1>1, <1>2, <1>4, <1>5, PlusBytes DEF CountersTyped, LedgerTypes
<1>9. (line[s].held => dropped' = dropped) /\ (v \in stable => line[s].held)
  BY <1>1, <1>2 DEF StableHeld
<1>10. CountersTyped'
  <2>1. \A u \in Uuids \ stats : pending'[u] = Zero
    <3>1. line[s].held => v \in stats
      BY DEF CountersTyped
    <3>2. QED
      BY <1>1, <1>2, <1>7, <3>1 DEF CountersTyped
  <2>2. QED
    BY <1>3, <1>6, <2>1 DEF CountersTyped
<1>11. ReportTyped'
  <2>1. ASSUME NEW u \in Uuids, NEW d \in Dirs PROVE batch[u][d] <= pending'[u][d]
    <3>1. batch[u][d] <= pending[u][d]
      BY DEF ReportTyped
    <3>2. pending'[u][d] \in {pending[u][d], pending[u][d] + b[d]}
      BY <1>7, <1>8
    <3>3. QED
      BY <1>5, <3>1, <3>2
  <2>2. QED
    BY <1>3, <2>1 DEF ReportTyped
<1>12. LedgerTypes'
  BY <1>3, <1>6 DEF LedgerTypes
<1>13. StableHeld'
  <2>1. \A u \in stable : dropped'[u] = Zero
    BY <1>1, <1>7, <1>9 DEF StableHeld, CountersTyped
  <2>2. QED
    BY <1>3, <2>1 DEF StableHeld
<1>14. StableBooks'
  <2>1. SUFFICES ASSUME NEW u \in stable, NEW d \in Dirs
                 PROVE  metered'[u][d] + unanswered[u][d] + Acked(u)[d]
                          = pending'[u][d] + credited[u][d]
    BY <1>3 DEF StableBooks, Acked
  <2>2. u \in Uuids
    BY DEF StableHeld, CountersTyped
  <2>3. metered[u][d] + unanswered[u][d] + Acked(u)[d] = pending[u][d] + credited[u][d]
    BY DEF StableBooks
  <2>4. unanswered[u][d] \in Nat /\ credited[u][d] \in Nat /\ Acked(u)[d] \in Nat
    BY <2>2, ZeroBytes DEF LedgerTypes, ReportTyped, Acked, Bytes
  <2>5. CASE u # v
    BY <1>7, <2>2, <2>3, <2>5
  <2>6. CASE u = v
    <3>1. pending'[u][d] = pending[u][d] + b[d] /\ metered'[u][d] = metered[u][d] + b[d]
      BY <1>8, <1>9, <2>6
    <3>2. QED
      BY <1>5, <2>2, <2>3, <2>4, <3>1
  <2>7. QED
    BY <2>5, <2>6
<1>15. QED
  BY <1>10, <1>11, <1>12, <1>13, <1>14

-------------------------------------------------------------------------------
(***************************************************************************)
(* UpdateUsers and the report task.                                        *)
(***************************************************************************)

\* Orphan changes nothing of a request but the pointer it holds.
LEMMA Orphaned ==
    ASSUME CountersTyped, NEW kept, line' = Orphan(kept)
    PROVE  /\ line' \in [Streams -> Request]
           /\ \A s \in Streams :
                 /\ line'[s].pc = line[s].pc /\ line'[s].user = line[s].user
                 /\ line'[s].held <=> line[s].held /\ line[s].user \in kept
BY ZenonT(60) DEF CountersTyped, Orphan, Request

\* UpdateUsers deletes only empty counters, none of a user that stays.
LEMMA UpdateStep ==
    ASSUME LegacyInv, NEW new \in SUBSET Uuids, LegacyUpdateUsers(new)
    PROVE  LegacyInv'
<1> USE DEF LegacyInv, report, panel, ledger
<1> DEFINE kept == LegacyKept(new)
<1>1. /\ users' = new /\ stats' = kept \cup new /\ stable' = stable \cap new
      /\ pending' = [u \in Uuids |-> IF u \in kept THEN pending[u] ELSE Zero]
      /\ uid' = [u \in Uuids |-> IF u \in new \cup (kept \cap users) THEN IdOf[u]
                                 ELSE IF u \in kept THEN uid[u] ELSE 0]
      /\ line' = Orphan(kept)
      /\ UNCHANGED <<report, panel, ledger>>
  BY DEF LegacyUpdateUsers
<1>2. kept \subseteq stats /\ stable \cap new \subseteq kept
  BY DEF LegacyKept, StableHeld
<1>3. pending' = pending
  <2>1. \A u \in Uuids \ kept : pending[u] = Zero
    BY NothingPending DEF LegacyKept, CountersTyped
  <2>2. QED
    BY <1>1, <2>1 DEF CountersTyped
<1>4. /\ line' \in [Streams -> Request]
      /\ \A s \in Streams :
            /\ line'[s].pc = line[s].pc /\ line'[s].user = line[s].user
            /\ line'[s].held <=> line[s].held /\ line[s].user \in kept
  BY <1>1, Orphaned
<1> HIDE DEF kept
<1>5. CountersTyped'
  <2>1. uid' \in [Uuids -> Nat]
    BY <1>1, IdAssumption DEF CountersTyped
  <2>2. \A u \in Uuids \ stats' : pending'[u] = Zero
    BY <1>1
  <2>3. QED
    BY <1>1, <1>2, <1>3, <1>4, <2>1, <2>2 DEF CountersTyped
<1>6. ReportTyped' /\ LedgerTypes'
  BY <1>1, <1>3 DEF ReportTyped, LedgerTypes
<1>7. StableHeld'
  <2>1. \A u \in stable' : uid'[u] = IdOf[u] /\ u \in stable
    BY <1>1 DEF StableHeld, CountersTyped
  <2>2. QED
    BY <1>1, <1>2, <1>4, <2>1 DEF StableHeld
<1>8. StableBooks'
  BY <1>1, <1>3 DEF StableBooks, Acked
<1>9. QED
  BY <1>5, <1>6, <1>7, <1>8

\* The steps of a report that book and subtract nothing.
LEMMA IdleReportStep ==
    ASSUME LegacyInv, Snapshot \/ PushRefused \/ PushUnsent \/ ReadActive
    PROVE  LegacyInv'
<1> USE DEF LegacyInv, lists, counters, panel, ledger
<1>1. UNCHANGED <<lists, counters, line, panel, ledger>>
  BY DEF Snapshot, PushRefused, PushUnsent, ReadActive
<1>2. CountersTyped' /\ LedgerTypes'
  BY <1>1 DEF CountersTyped, LedgerTypes
<1>3. /\ rpc' \in {"idle", "push", "active", "settle"}
      /\ \A u \in Uuids : Acked(u)' = Acked(u)
      /\ rpc' = "settle" => activeSeen' = users
  <2>1. CASE Snapshot
    BY <2>1 DEF Snapshot, Acked
  <2>2. CASE PushRefused \/ PushUnsent
    BY <2>2 DEF PushRefused, PushUnsent, RetryOrGiveUp, GiveUp, Acked
  <2>3. CASE ReadActive
    BY <2>3 DEF ReadActive, Acked
  <2>4. QED
    BY <2>1, <2>2, <2>3
<1>4. /\ batch' \in [Uuids -> Bytes] /\ batchUid' \in [Uuids -> Nat]
      /\ \A u \in Uuids, d \in Dirs : batch'[u][d] <= pending[u][d]
      /\ \A u \in stable : HasPending(batch'[u]) => batchUid'[u] = IdOf[u]
  <2>1. \A u \in Uuids, d \in Dirs : pending[u][d] \in Nat /\ Zero[d] = 0
    BY DEF CountersTyped, Bytes, Zero
  <2>2. ~HasPending(Zero)
    BY DEF HasPending, Zero
  <2>3. CASE UNCHANGED <<batch, batchUid>>
    BY <2>3 DEF ReportTyped, StableHeld
  <2>4. CASE batch' = NoBytes /\ batchUid' = NoUids
    BY <2>1, <2>2, <2>4, ZeroBytes DEF NoBytes, NoUids, StableHeld, CountersTyped
  <2>5. CASE Snapshot
    <3>1. batch' \in [Uuids -> Bytes] /\ batchUid' \in [Uuids -> Nat]
      BY <2>5, ZeroBytes DEF Snapshot, CountersTyped
    <3>2. \A u \in Uuids, d \in Dirs : batch'[u][d] <= pending[u][d]
      BY <2>1, <2>5 DEF Snapshot
    <3>3. \A u \in stable : HasPending(batch'[u]) => batchUid'[u] = IdOf[u]
      BY <2>2, <2>5 DEF Snapshot, StableHeld, CountersTyped
    <3>4. QED
      BY <3>1, <3>2, <3>3
  <2>6. QED
    BY <2>3, <2>4, <2>5 DEF PushRefused, PushUnsent, RetryOrGiveUp, GiveUp, ReadActive
<1>5. ReportTyped'
  BY <1>1, <1>3, <1>4 DEF ReportTyped
<1>6. StableHeld'
  BY <1>1, <1>3, <1>4 DEF StableHeld
<1>7. StableBooks'
  BY <1>1, <1>3 DEF StableBooks, StableHeld, CountersTyped
<1>8. QED
  BY <1>2, <1>5, <1>6, <1>7

\* What a push books for a user that was always listed is its batch.
LEMMA BookedStable ==
    ASSUME LegacyInv, NEW u \in stable, NEW d \in Dirs
    PROVE  /\ u \in Uuids
           /\ Booked(credited)[u][d] = credited[u][d] + batch[u][d]
           /\ Booked(unanswered)[u][d] = unanswered[u][d] + batch[u][d]
           /\ batch[u][d] \in Nat /\ credited[u][d] \in Nat /\ unanswered[u][d] \in Nat
           /\ metered[u][d] \in Nat /\ pending[u][d] \in Nat
<1> USE DEF LegacyInv
<1>1. u \in Uuids
  BY DEF StableHeld, CountersTyped
<1>2. {batch[u], credited[u], unanswered[u], metered[u], pending[u]} \subseteq Bytes
  BY <1>1 DEF CountersTyped, ReportTyped, LedgerTypes
<1>3. /\ batch[u][d] \in Nat /\ credited[u][d] \in Nat /\ unanswered[u][d] \in Nat
      /\ metered[u][d] \in Nat /\ pending[u][d] \in Nat
  BY <1>2 DEF Bytes
<1>4. CASE batchUid[u] = IdOf[u]
  BY <1>1, <1>2, <1>3, <1>4, PlusBytes DEF Booked
<1>5. CASE batchUid[u] # IdOf[u]
  <2>1. batch[u] = Zero
    BY <1>2, <1>5, NothingPending DEF StableHeld
  <2>2. QED
    BY <1>1, <1>3, <1>5, <2>1 DEF Booked, Zero
<1>6. QED
  BY <1>1, <1>3, <1>4, <1>5

\* A push the panel books: what it answers stays to be subtracted, what it does
\* not answer is booked once too often.
LEMMA PushStep == ASSUME LegacyInv, PushOk \/ PushUnanswered PROVE LegacyInv'
<1> USE DEF LegacyInv, lists, counters, ledger
<1>1. UNCHANGED <<lists, counters, line, ledger>> /\ rpc = "push"
  BY DEF PushOk, PushUnanswered
<1>2. CountersTyped'
  BY <1>1 DEF CountersTyped
<1>3. LedgerTypes'
  <2>1. /\ Booked(credited) \in [Uuids -> Bytes]
        /\ Booked(unanswered) \in [Uuids -> Bytes]
    BY PlusBytes DEF Booked, LedgerTypes, ReportTyped
  <2>2. QED
    BY <1>1, <2>1 DEF LedgerTypes, PushOk, PushUnanswered
<1>4. \/ UNCHANGED <<batch, batchUid>> /\ rpc' \in {"push", "active"}
      \/ batch' = NoBytes /\ batchUid' = NoUids /\ rpc' = "idle"
  BY DEF PushOk, PushUnanswered, RetryOrGiveUp, GiveUp
<1>5. ReportTyped'
  <2>1. \A u \in Uuids, d \in Dirs : pending[u][d] \in Nat /\ Zero[d] = 0
    BY DEF CountersTyped, Bytes, Zero
  <2>2. QED
    BY <1>1, <1>4, <2>1, ZeroBytes DEF ReportTyped, NoBytes, NoUids
<1>6. StableHeld'
  <2>1. ~HasPending(Zero)
    BY DEF HasPending, Zero
  <2>2. QED
    BY <1>1, <1>4, <2>1 DEF StableHeld, NoBytes, CountersTyped
<1>7. StableBooks'
  <2>1. SUFFICES ASSUME NEW u \in stable, NEW d \in Dirs
                 PROVE  metered[u][d] + unanswered'[u][d] + Acked(u)'[d]
                          = pending[u][d] + credited'[u][d]
    BY <1>1 DEF StableBooks
  <2>2. metered[u][d] + unanswered[u][d] = pending[u][d] + credited[u][d]
    <3>1. Acked(u)[d] = 0
      BY <1>1 DEF Acked, Zero
    <3>2. QED
      BY <3>1, BookedStable DEF StableBooks
  <2>3. CASE PushOk
    <3>1. /\ Acked(u)'[d] = batch[u][d] /\ unanswered'[u][d] = unanswered[u][d]
          /\ credited'[u][d] = Booked(credited)[u][d]
      BY <2>3 DEF PushOk, Acked
    <3>2. QED
      BY <2>2, <3>1, BookedStable
  <2>4. CASE PushUnanswered
    <3>1. /\ Acked(u)'[d] = 0 /\ unanswered'[u][d] = Booked(unanswered)[u][d]
          /\ credited'[u][d] = Booked(credited)[u][d]
      BY <1>1, <1>4, <2>4 DEF PushUnanswered, RetryOrGiveUp, GiveUp, Acked, Zero
    <3>2. /\ unanswered'[u][d] = unanswered[u][d] + batch[u][d]
          /\ credited'[u][d] = credited[u][d] + batch[u][d]
          /\ batch[u][d] \in Nat /\ credited[u][d] \in Nat /\ unanswered[u][d] \in Nat
          /\ metered[u][d] \in Nat /\ pending[u][d] \in Nat
      BY <3>1, BookedStable
    <3>3. QED
      BY <2>2, <3>1, <3>2
  <2>5. QED
    BY <2>3, <2>4
<1>8. QED
  BY <1>2, <1>3, <1>5, <1>6, <1>7

\* ConfirmUserTraffic subtracts what was reported, and keeps the counters of the
\* users it has seen in the list.
LEMMA SettleStep == ASSUME LegacyInv, Settle PROVE LegacyInv'
<1> USE DEF LegacyInv, lists, panel, ledger
<1> DEFINE left == Confirmed
           kept == Kept(activeSeen, left)
<1>1. /\ rpc = "settle" /\ stats' = kept /\ rpc' = "idle"
      /\ pending' = [u \in Uuids |-> IF u \in kept THEN left[u] ELSE Zero]
      /\ uid' = [u \in Uuids |-> IF u \in kept THEN uid[u] ELSE 0]
      /\ line' = Orphan(kept) /\ batch' = NoBytes /\ batchUid' = NoUids
      /\ UNCHANGED <<lists, panel, ledger>>
  BY DEF Settle
<1>2. kept \subseteq stats /\ stable \subseteq kept
  BY <1>1 DEF Kept, StableHeld
<1>3. /\ line' \in [Streams -> Request]
      /\ \A s \in Streams :
            /\ line'[s].pc = line[s].pc /\ line'[s].user = line[s].user
            /\ line'[s].held <=> line[s].held /\ line[s].user \in kept
  BY <1>1, Orphaned
<1>4. \A u \in Uuids : left[u] = Minus(pending[u], batch[u]) /\ left[u] \in Bytes
  BY MinusBytes DEF Confirmed, CountersTyped, ReportTyped
<1> HIDE DEF left, kept
<1>5. pending' \in [Uuids -> Bytes] /\ \A u \in kept : pending'[u] = left[u]
  BY <1>1, <1>2, <1>4, ZeroBytes DEF CountersTyped
<1>6. CountersTyped'
  <2>1. uid' \in [Uuids -> Nat]
    BY <1>1 DEF CountersTyped
  <2>2. \A u \in Uuids \ stats' : pending'[u] = Zero
    BY <1>1
  <2>3. QED
    BY <1>1, <1>2, <1>3, <1>5, <2>1, <2>2 DEF CountersTyped
<1>7. ReportTyped' /\ LedgerTypes'
  <2>1. \A u \in Uuids, d \in Dirs : pending'[u][d] \in Nat /\ Zero[d] = 0
    BY <1>5 DEF Bytes, Zero
  <2>2. QED
    BY <1>1, <2>1, ZeroBytes DEF ReportTyped, LedgerTypes, NoBytes, NoUids
<1>8. StableHeld'
  <2>1. ~HasPending(Zero)
    BY DEF HasPending, Zero
  <2>2. QED
    BY <1>1, <1>2, <1>3, <2>1 DEF StableHeld, NoBytes, CountersTyped
<1>9. StableBooks'
  <2>1. SUFFICES ASSUME NEW u \in stable, NEW d \in Dirs
                 PROVE  metered[u][d] + unanswered[u][d] + Acked(u)'[d]
                          = pending'[u][d] + credited[u][d]
    BY <1>1 DEF StableBooks
  <2>2. metered[u][d] + unanswered[u][d] + batch[u][d] = pending[u][d] + credited[u][d]
    BY <1>1 DEF StableBooks, Acked
  <2>3. Acked(u)'[d] = 0
    BY <1>1 DEF Acked, Zero
  <2>4. pending'[u][d] = pending[u][d] - batch[u][d]
    <3>1. u \in Uuids /\ batch[u][d] <= pending[u][d]
      BY BookedStable DEF ReportTyped
    <3>2. Minus(pending[u], batch[u])[d] = pending[u][d] - batch[u][d]
      BY <3>1, MinusBytes DEF CountersTyped, ReportTyped
    <3>3. QED
      BY <1>2, <1>4, <1>5, <3>1, <3>2
  <2>5. /\ batch[u][d] \in Nat /\ credited[u][d] \in Nat /\ unanswered[u][d] \in Nat
        /\ metered[u][d] \in Nat /\ pending[u][d] \in Nat
    BY BookedStable
  <2>6. QED
    BY <2>2, <2>3, <2>4, <2>5
<1>10. QED
  BY <1>6, <1>7, <1>8, <1>9

-------------------------------------------------------------------------------
\* Requests, list updates and reports of the legacy engine keep the books of the
\* users that are in every list.
THEOREM LegacyInvariant == LegacySpec => []LegacyInv
<1>1. LegacyInv /\ [LegacyNext]_vars => LegacyInv'
  <2>1. SUFFICES ASSUME LegacyInv, [LegacyNext]_vars PROVE LegacyInv'
    OBVIOUS
  <2>2. CASE UNCHANGED vars
    BY <2>1, <2>2
       DEF vars, lists, counters, report, panel, ledger, LegacyInv, CountersTyped, ReportTyped,
           LedgerTypes, StableHeld, StableBooks, Acked
  <2>3. QED
    BY <2>1, <2>2, QuietStep, CreateStep, CopiedStep, UpdateStep, IdleReportStep, PushStep,
       SettleStep
       DEF LegacyNext, Serve, LegacyReport, Report
<1>2. QED
  BY <1>1, LegacyInitInv, PTL DEF LegacySpec

\* Every variable of the legacy engine keeps the shape of the Go value it stands
\* for, and a request holds only counters that are in s.stats.
THEOREM LegacyTyped == LegacySpec => []LegacyTypeOK
<1>1. LegacyInv => LegacyTypeOK
  <2>1. SUFFICES ASSUME LegacyInv PROVE LegacyTypeOK
    OBVIOUS
  <2>2. \A s \in Streams : line[s].pc \in Working
    BY <2>1 DEF LegacyInv, CountersTyped, Request
  <2>3. QED
    BY <2>1, <2>2 DEF LegacyInv, CountersTyped, ReportTyped, LedgerTypes, LegacyTypeOK
<1>2. QED
  BY <1>1, LegacyInvariant, PTL

\* UpdateUsers, getCounter, ConfirmUserTraffic: for a user that was in every list
\* so far the books balance to the byte and every push names the right account.
THEOREM LegacyStableBilled == LegacySpec => []StableUsersBilled
<1>1. LegacyInv => StableUsersBilled
  <2>1. SUFFICES ASSUME LegacyInv, NEW u \in stable, NEW d \in Dirs
                 PROVE  metered[u][d] + unanswered[u][d] = Unbilled[u][d] + credited[u][d]
    BY DEF LegacyInv, StableHeld, StableUsersBilled
  <2>2. /\ metered[u][d] + unanswered[u][d] + Acked(u)[d] = pending[u][d] + credited[u][d]
        /\ u \in Uuids
    BY <2>1, BookedStable DEF LegacyInv, StableBooks
  <2>3. Acked(u) \in Bytes /\ Acked(u)[d] <= pending[u][d] /\ Acked(u)[d] \in Nat
    <3>1. /\ batch[u] \in Bytes /\ batch[u][d] <= pending[u][d] /\ batch[u][d] \in Nat
          /\ pending[u][d] \in Nat
      BY <2>1, <2>2, BookedStable DEF LegacyInv, ReportTyped
    <3>2. QED
      BY <3>1, ZeroBytes DEF Acked, Zero
  <2>4. Unbilled[u][d] = pending[u][d] - Acked(u)[d]
    BY <2>1, <2>2, <2>3, MinusBytes DEF Unbilled, LegacyInv, CountersTyped
  <2>5. /\ credited[u][d] \in Nat /\ unanswered[u][d] \in Nat
        /\ metered[u][d] \in Nat /\ pending[u][d] \in Nat
    BY <2>1, BookedStable
  <2>6. QED
    BY <2>2, <2>3, <2>4, <2>5
<1>2. QED
  BY <1>1, LegacyInvariant, PTL
=============================================================================
