-------------------------------- MODULE Traffic --------------------------------
(***************************************************************************)
(* The traffic metering of one caddyproc.Server, from New to Close: the    *)
(* goroutines that consume the output of Caddy add the bytes of traffic    *)
(* and close events to the counter of the user, the node monitor replaces  *)
(* the user list, and the report task snapshots the counters, pushes the   *)
(* snapshot to the panel and confirms it.                                  *)
(*                                                                         *)
(* Every section of code that runs under s.statsMu or s.usersMu is one     *)
(* action; what happens between two of them may be interleaved.  A         *)
(* consumer that has fetched a counter keeps a pointer to it: held is      *)
(* FALSE once the counter has been deleted from s.stats, and bytes added   *)
(* through the pointer are then dropped.                                   *)
(***************************************************************************)
EXTENDS ByteCounts

CONSTANTS
    Uuids,        \* the user names the panel may hand out
    Streams,      \* the consumer goroutines whose stream carries events
    IdOf,         \* the panel's numeric id of each user
    Threshold,    \* NodeReportMinTraffic * 1000
    Chunks,       \* the byte pairs a traffic or close event may carry
    RetryCount,   \* resty's retries after a transport error
    MaxMetered,   \* bound: no event is read that takes a user beyond it
    MaxUnanswered \* bound: no answer is lost that takes a user beyond it

ASSUME UuidsAssumption == Uuids # {}
ASSUME IdAssumption == IdOf \in [Uuids -> Nat \ {0}]
ASSUME ThresholdAssumption == Threshold \in Nat
ASSUME ChunksAssumption == Chunks \subseteq Bytes
ASSUME RetryAssumption == RetryCount \in Nat
ASSUME BoundsAssumption == MaxMetered \in Nat /\ MaxUnanswered \in Nat

VARIABLES
    users,        \* keys of s.users
    userIDs,      \* s.userIDs, 0 where it has no entry
    stats,        \* keys of s.stats
    pending,      \* up and down of the counter in s.stats, Zero if none
    uid,          \* uid of the counter in s.stats, 0 if none
    line,         \* per consumer: the event in hand and the counter it holds
    rpc,          \* where the report task is
    batch,        \* userTraffic of the report task, Zero where it has no entry
    batchUid,     \* the UID of each entry of userTraffic
    tries,        \* transport errors of the current push
    activeSeen,   \* activeUsers, read by ConfirmUserTraffic
    credited,     \* the panel: bytes booked on the account of the user
    unanswered,   \* history: those of them booked by a push whose answer was lost
    metered,      \* history: bytes handed to trafficCounter.add
    dropped,      \* history: bytes added to a counter no longer in s.stats
    known,        \* history: users that were ever in the list
    stable        \* history: users that were in every list so far

lists == <<users, userIDs, known, stable>>
counters == <<stats, pending, uid>>
report == <<rpc, batch, batchUid, tries, activeSeen>>
ledger == <<metered, dropped>>
panel == <<credited, unanswered>>

vars == <<lists, counters, line, report, panel, ledger>>

NoEvent == [pc |-> "read", user |-> CHOOSE u \in Uuids : TRUE, uid |-> 0,
            bytes |-> Zero, held |-> FALSE]

NoBytes == [u \in Uuids |-> Zero]
NoUids == [u \in Uuids |-> 0]

-------------------------------------------------------------------------------
(***************************************************************************)
(* New: the initial list is any list the panel may have sent.              *)
(***************************************************************************)
Init ==
    /\ users \in SUBSET Uuids
    /\ userIDs = [u \in Uuids |-> IF u \in users THEN IdOf[u] ELSE 0]
    /\ stats = users
    /\ pending = NoBytes
    /\ uid = userIDs
    /\ line = [s \in Streams |-> NoEvent]
    /\ rpc = "idle"
    /\ batch = NoBytes
    /\ batchUid = NoUids
    /\ tries = 0
    /\ activeSeen = {}
    /\ credited = NoBytes
    /\ unanswered = NoBytes
    /\ metered = NoBytes
    /\ dropped = NoBytes
    /\ known = users
    /\ stable = users

-------------------------------------------------------------------------------
(***************************************************************************)
(* The consumers.                                                          *)
(***************************************************************************)

\* handleEventLine reads a traffic or close event and getCounterForEvent
\* resolves its user id.  A tunnel exists only for a user that was listed when
\* the limiter admitted it; the id in the event was read by handleAuthorize
\* before that and may still have been 0, and userIDByUUID then supplies it.
Receive(s) ==
    /\ line[s].pc = "read"
    /\ \E u \in known, b \in Chunks, stamped \in BOOLEAN :
          /\ \A d \in Dirs : metered[u][d] + b[d] <= MaxMetered
          /\ line' = [line EXCEPT ![s] =
                         [pc |-> "fetch", user |-> u, bytes |-> b, held |-> FALSE,
                          uid |-> IF stamped THEN IdOf[u] ELSE userIDs[u]]]
    /\ UNCHANGED <<lists, counters, report, panel, ledger>>

\* getCounterWithUID finds the counter or creates it, and sets its uid.
Fetch(s) ==
    LET u == line[s].user
        found == u \in stats
    IN  /\ line[s].pc = "fetch"
        /\ stats' = stats \cup {u}
        /\ uid' = [uid EXCEPT ![u] =
                      IF found /\ line[s].uid <= 0 THEN @ ELSE line[s].uid]
        /\ line' = [line EXCEPT ![s].pc = "add", ![s].held = TRUE]
        /\ UNCHANGED <<lists, pending, report, panel, ledger>>

\* trafficCounter.add, through the pointer fetched before.
Add(s) ==
    LET u == line[s].user
        b == line[s].bytes
    IN  /\ line[s].pc = "add"
        /\ metered' = [metered EXCEPT ![u] = Plus(@, b)]
        /\ \/ /\ line[s].held
              /\ pending' = [pending EXCEPT ![u] = Plus(@, b)]
              /\ UNCHANGED dropped
           \/ /\ ~line[s].held
              /\ dropped' = [dropped EXCEPT ![u] = Plus(@, b)]
              /\ UNCHANGED pending
        /\ line' = [line EXCEPT ![s] = NoEvent]
        /\ UNCHANGED <<lists, stats, uid, report, panel>>

-------------------------------------------------------------------------------
(***************************************************************************)
(* Deleting counters, in replaceUsers and in ConfirmUserTraffic.           *)
(***************************************************************************)

\* Fault: counters go as soon as their user does, or as soon as they are empty.
KeptLiveOnly(live, amounts) == {u \in stats : u \in live}
KeptPendingOnly(live, amounts) == {u \in stats : HasPending(amounts[u])}

\* The counters that survive: those of live users and those with pending bytes.
Kept(live, amounts) == {u \in stats : u \in live \/ HasPending(amounts[u])}

\* The pointers the consumers hold, once only the counters of kept are left.
Orphan(kept) ==
    [s \in Streams |->
        [line[s] EXCEPT !.held = line[s].held /\ line[s].user \in kept]]

(***************************************************************************)
(* The node monitor: UpdateUsers with the full list of the panel, which    *)
(* reaches replaceUsers.  new = users is a change of limits only.          *)
(***************************************************************************)
\* Fault: the ids are rebuilt from the new list, and deleted users lose theirs.
ListedIDs(new) == [u \in Uuids |-> IF u \in new THEN IdOf[u] ELSE 0]

\* s.userIDs gains the ids of the list and never loses one.
NewIDs(new) == [u \in Uuids |-> IF u \in new THEN IdOf[u] ELSE userIDs[u]]

UpdateUsers(new) ==
    LET kept == Kept(new, pending)
    IN  /\ users' = new
        /\ userIDs' = NewIDs(new)
        /\ stats' = kept \cup new
        /\ pending' = [u \in Uuids |-> IF u \in kept THEN pending[u] ELSE Zero]
        /\ uid' = [u \in Uuids |-> IF u \in new THEN IdOf[u]
                                   ELSE IF u \in kept THEN uid[u] ELSE 0]
        /\ line' = Orphan(kept)
        /\ known' = known \cup new
        /\ stable' = stable \cap new
        /\ UNCHANGED <<report, panel, ledger>>

-------------------------------------------------------------------------------
(***************************************************************************)
(* The report task, reportUserTrafficTask.                                 *)
(***************************************************************************)

\* GetUserTrafficSlice; with nothing above the threshold nothing is pushed.
Snapshot ==
    LET due == {u \in stats : Above(pending[u], Threshold)}
    IN  /\ rpc = "idle"
        /\ due # {}
        /\ batch' = [u \in Uuids |-> IF u \in due THEN pending[u] ELSE Zero]
        /\ batchUid' = [u \in Uuids |-> IF u \in due THEN uid[u] ELSE 0]
        /\ rpc' = "push"
        /\ tries' = 0
        /\ UNCHANGED <<lists, counters, line, activeSeen, panel, ledger>>

\* Each entry of a push goes to the account its UID names.
Booked(account) ==
    [u \in Uuids |-> IF batchUid[u] = IdOf[u] THEN Plus(account[u], batch[u])
                                              ELSE account[u]]

\* The task goes on without confirming; userTraffic is forgotten.
GiveUp ==
    /\ rpc' = "idle"
    /\ batch' = NoBytes
    /\ batchUid' = NoUids
    /\ tries' = 0
    /\ UNCHANGED activeSeen

\* resty repeats the request after a transport error, RetryCount times.
RetryOrGiveUp ==
    \/ /\ tries < RetryCount
       /\ tries' = tries + 1
       /\ UNCHANGED <<rpc, batch, batchUid, activeSeen>>
    \/ /\ tries >= RetryCount
       /\ GiveUp

\* Fault: the task forgets to confirm.
PushOkUnconfirmed ==
    /\ rpc = "push"
    /\ credited' = Booked(credited)
    /\ GiveUp
    /\ UNCHANGED <<lists, counters, line, unanswered, ledger>>

\* ReportUserTraffic: the panel answers with a status below 400.
PushOk ==
    /\ rpc = "push"
    /\ credited' = Booked(credited)
    /\ rpc' = "active"
    /\ UNCHANGED <<lists, counters, line, batch, batchUid, tries, activeSeen,
                   unanswered, ledger>>

\* Fault: the status of the answer is not looked at.
PushRefusedConfirmed ==
    /\ rpc = "push"
    /\ rpc' = "active"
    /\ UNCHANGED <<lists, counters, line, batch, batchUid, tries, activeSeen,
                   panel, ledger>>

\* ReportUserTraffic: checkResponseStatus fails, which resty does not repeat.
PushRefused ==
    /\ rpc = "push"
    /\ GiveUp
    /\ UNCHANGED <<lists, counters, line, panel, ledger>>

\* ReportUserTraffic: the request does not reach the panel.
PushUnsent ==
    /\ rpc = "push"
    /\ RetryOrGiveUp
    /\ UNCHANGED <<lists, counters, line, panel, ledger>>

\* ReportUserTraffic: the panel books the push, and its answer is lost.
PushUnanswered ==
    /\ rpc = "push"
    /\ credited' = Booked(credited)
    /\ unanswered' = Booked(unanswered)
    /\ \A u \in Uuids, d \in Dirs : unanswered'[u][d] <= MaxUnanswered
    /\ RetryOrGiveUp
    /\ UNCHANGED <<lists, counters, line, ledger>>

\* ConfirmUserTraffic reads the active users under s.usersMu ...
ReadActive ==
    /\ rpc = "active"
    /\ activeSeen' = users
    /\ rpc' = "settle"
    /\ UNCHANGED <<lists, counters, line, batch, batchUid, tries, panel, ledger>>

\* Fault: a reported counter starts again from zero.
Reset == [u \in Uuids |-> IF HasPending(batch[u]) THEN Zero ELSE pending[u]]

\* trafficCounter.confirm of every counter that was reported.
Confirmed == [u \in Uuids |-> Minus(pending[u], batch[u])]

\* ... and then, under s.statsMu, subtracts what was reported and deletes the
\* counters of inactive users that are left with nothing.
Settle ==
    LET left == Confirmed
        kept == Kept(activeSeen, left)
    IN  /\ rpc = "settle"
        /\ stats' = kept
        /\ pending' = [u \in Uuids |-> IF u \in kept THEN left[u] ELSE Zero]
        /\ uid' = [u \in Uuids |-> IF u \in kept THEN uid[u] ELSE 0]
        /\ line' = Orphan(kept)
        /\ rpc' = "idle"
        /\ batch' = NoBytes
        /\ batchUid' = NoUids
        /\ tries' = 0
        /\ activeSeen' = {}
        /\ UNCHANGED <<lists, panel, ledger>>

-------------------------------------------------------------------------------
Consume(s) == Receive(s) \/ Fetch(s) \/ Add(s)

Report ==
    \/ Snapshot
    \/ PushOk \/ PushRefused \/ PushUnsent \/ PushUnanswered
    \/ ReadActive \/ Settle

Next ==
    \/ \E s \in Streams : Consume(s)
    \/ \E new \in SUBSET Uuids : UpdateUsers(new)
    \/ Report

Spec == Init /\ [][Next]_vars

\* The goroutines are scheduled, the report task runs again on every tick of
\* its timer, and a panel that is asked again and again accepts some push.
Fairness ==
    /\ \A s \in Streams : WF_vars(Fetch(s)) /\ WF_vars(Add(s))
    /\ WF_vars(Snapshot) /\ WF_vars(ReadActive) /\ WF_vars(Settle)
    /\ SF_vars(PushOk)

FairSpec == Spec /\ Fairness

-------------------------------------------------------------------------------
Event == [pc : {"read", "fetch", "add"}, user : Uuids, uid : Nat,
          bytes : Bytes, held : BOOLEAN]

\* Every variable keeps the shape of the Go value it stands for.
TypeOK ==
    /\ users \subseteq Uuids
    /\ userIDs \in [Uuids -> Nat]
    /\ stats \subseteq Uuids
    /\ pending \in [Uuids -> Bytes]
    /\ uid \in [Uuids -> Nat]
    /\ line \in [Streams -> Event]
    /\ rpc \in {"idle", "push", "active", "settle"}
    /\ batch \in [Uuids -> Bytes]
    /\ batchUid \in [Uuids -> Nat]
    /\ tries \in Nat
    /\ activeSeen \subseteq Uuids
    /\ credited \in [Uuids -> Bytes]
    /\ unanswered \in [Uuids -> Bytes]
    /\ metered \in [Uuids -> Bytes]
    /\ dropped \in [Uuids -> Bytes]
    /\ known \subseteq Uuids
    /\ stable \subseteq Uuids

\* What the panel has acknowledged and ConfirmUserTraffic has yet to subtract.
Acked(u) == IF rpc \in {"active", "settle"} THEN batch[u] ELSE Zero

Unbilled == [u \in Uuids |-> Minus(pending[u], Acked(u))]

Billed == [u \in Uuids |-> Minus(credited[u], unanswered[u])]

\* GetUserTrafficSlice, ReportUserTraffic, ConfirmUserTraffic: however adds,
\* list updates, retries and lost answers interleave with a report, a byte that
\* reached a live counter is waiting in it or has been booked by the panel; the
\* subtraction of a confirm never takes away bytes that came after its snapshot.
NoUnderbilling ==
    \A u \in Uuids, d \in Dirs :
        metered[u][d] + unanswered[u][d]
            <= Unbilled[u][d] + dropped[u][d] + credited[u][d]

\* ReportUserTraffic and ConfirmUserTraffic: no byte is booked twice, across
\* refused and repeated pushes, but by a push whose answer was lost.
NoDoubleBilling ==
    \A u \in Uuids, d \in Dirs :
        Unbilled[u][d] + dropped[u][d] + credited[u][d]
            <= metered[u][d] + unanswered[u][d]

\* userIDs and setUID: a byte is pushed under the id of the user that caused it,
\* although its user may have been deleted, and its counter recreated, before.
UidAttribution ==
    \A u \in Uuids : HasPending(batch[u]) => batchUid[u] = IdOf[u]

\* replaceUsers and ConfirmUserTraffic: a user that was never missing from the
\* list never loses a byte to a counter deleted under a consumer's hands.
StableUsersLoseNothing ==
    \A u \in stable : dropped[u] = Zero

\* The same of every user: what "pending traffic was not preserved after delete"
\* (TestPendingTrafficSurvivesUserDeleteUntilConfirm) says of deleted users, and
\* does not hold of handleEventLine's fetch and add around a replaceUsers.
NoByteDropped ==
    \A u \in Uuids : dropped[u] = Zero

\* Whatever number of bytes of a user was metered, that many end up booked by
\* the panel or were dropped (with a threshold of 0).
EventuallyBooked ==
    \A u \in Uuids, d \in Dirs, n \in 1..MaxMetered :
        metered[u][d] >= n ~> Billed[u][d] + dropped[u][d] >= n

-------------------------------------------------------------------------------
(***************************************************************************)
(* The inductive invariant behind the properties above.                    *)
(***************************************************************************)

\* An event in hand carries an amount, and the id of its user until the counter
\* has it.
IdsKept ==
    /\ users \subseteq known
    /\ \A u \in known : userIDs[u] = IdOf[u]
    /\ \A u \in stats : uid[u] = IdOf[u]
    /\ \A s \in Streams : line[s].pc = "fetch" => line[s].uid = IdOf[line[s].user]
    /\ \A s \in Streams : line[s].pc # "read" => line[s].bytes \in Chunks

\* A pointer counts as held only while its counter is in s.stats, and there
\* are bytes only in counters that are.
CountersLive ==
    /\ \A s \in Streams : line[s].held => line[s].user \in stats
    /\ \A u \in Uuids \ stats : pending[u] = Zero

\* A counter holds at least what a report in progress has taken from it.
BatchCovered ==
    /\ \A u \in Uuids, d \in Dirs : batch[u][d] <= pending[u][d]
    /\ UidAttribution

\* What the panel booked is what the counters gave away.
BooksBalance ==
    \A u \in Uuids, d \in Dirs :
        /\ unanswered[u][d] <= credited[u][d]
        /\ metered[u][d] + unanswered[u][d] + Acked(u)[d]
              = pending[u][d] + dropped[u][d] + credited[u][d]

\* The counter of a user that was always listed is never deleted.
StableKept ==
    /\ stable \subseteq users
    /\ stable \subseteq stats
    /\ rpc = "settle" => stable \subseteq activeSeen
    /\ \A s \in Streams :
           line[s].pc = "add" /\ line[s].user \in stable => line[s].held
    /\ StableUsersLoseNothing

IInv == TypeOK /\ IdsKept /\ CountersLive /\ BatchCovered /\ BooksBalance /\ StableKept

-------------------------------------------------------------------------------
\* The ledger the panel and the counters keep together, without the reports.
Ledger == INSTANCE Billing WITH Accounts <- Uuids, Amounts <- Chunks,
              unbilled <- Unbilled, billed <- Billed, lost <- dropped

LedgerSpec == Ledger!BillingSpec
===============================================================================
