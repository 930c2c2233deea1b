------------------------------ MODULE LegacyProxy ------------------------------
(***************************************************************************)
(* The traffic metering of the legacy engine, a proxy.Server from New to   *)
(* Close.  Its counters, its snapshot and its ConfirmUserTraffic are those *)
(* of caddyproc, line for line, and the report task is the same: those     *)
(* actions are Traffic's.  What differs is who adds the bytes.  There are  *)
(* no events: a request looks its counter up once and keeps the pointer    *)
(* for as long as it copies, and a list update deletes only the counters   *)
(* of the users it removes.                                                *)
(*                                                                         *)
(* A stream is a request that a handler serves; userIDs, which this engine *)
(* does not have, keeps its initial value.                                 *)
(***************************************************************************)
EXTENDS Traffic

Working == {"read", "fetch", "lookup", "create", "add"}

\* New: an initial list, no request.
LegacyInit == Init

-------------------------------------------------------------------------------
(***************************************************************************)
(* The requests.                                                           *)
(***************************************************************************)

\* authenticate finds the user and CheckLimit lets the device in; the target is
\* dialled before the counter is looked up.
Authenticate(s) ==
    /\ line[s].pc = "read"
    /\ \E u \in users : line' = [line EXCEPT ![s] = [NoEvent EXCEPT !.pc = "fetch", !.user = u]]
    /\ UNCHANGED <<lists, counters, report, panel, ledger>>

\* getCounter: the counter is there ...
Found(s) ==
    /\ line[s].pc = "fetch"
    /\ line[s].user \in stats
    /\ line' = [line EXCEPT ![s].pc = "add", ![s].held = TRUE]
    /\ UNCHANGED <<lists, counters, report, panel, ledger>>

\* ... or it is not ...
Missed(s) ==
    /\ line[s].pc = "fetch"
    /\ line[s].user \notin stats
    /\ line' = [line EXCEPT ![s].pc = "lookup"]
    /\ UNCHANGED <<lists, counters, report, panel, ledger>>

\* ... and the user's id is read, 0 if the user is gone ...
Lookup(s) ==
    LET u == line[s].user
    IN  /\ line[s].pc = "lookup"
        /\ line' = [line EXCEPT ![s].pc = "create",
                                ![s].uid = IF u \in users THEN IdOf[u] ELSE 0]
        /\ UNCHANGED <<lists, counters, report, panel, ledger>>

\* ... before the counter is looked up again, and created.
Create(s) ==
    LET u == line[s].user
    IN  /\ line[s].pc = "create"
        /\ stats' = stats \cup {u}
        /\ uid' = [uid EXCEPT ![u] = IF u \in stats THEN @ ELSE line[s].uid]
        /\ line' = [line EXCEPT ![s].pc = "add", ![s].uid = 0, ![s].held = TRUE]
        /\ UNCHANGED <<lists, pending, report, panel, ledger>>

\* A copy ends, or countingReader has read: the bytes go to the counter.  Two
\* directions, and the reads of a body, share the pointer.
Copied(s) ==
    LET u == line[s].user
    IN  /\ line[s].pc = "add"
        /\ \E b \in Chunks :
              /\ \A d \in Dirs : metered[u][d] + b[d] <= MaxMetered
              /\ metered' = [metered EXCEPT ![u] = Plus(@, b)]
              /\ \/ /\ line[s].held
                    /\ pending' = [pending EXCEPT ![u] = Plus(@, b)]
                    /\ UNCHANGED dropped
                 \/ /\ ~line[s].held
                    /\ dropped' = [dropped EXCEPT ![u] = Plus(@, b)]
                    /\ UNCHANGED pending
        /\ UNCHANGED <<lists, stats, uid, line, report, panel>>

\* The request ends, or looks the counter up again: for the tunnel after the
\* bytes that came with a CONNECT, for the response after the body.
Proceed(s) ==
    /\ line[s].pc = "add"
    /\ \/ line' = [line EXCEPT ![s] = NoEvent]
       \/ line' = [line EXCEPT ![s].pc = "fetch", ![s].held = FALSE]
    /\ UNCHANGED <<lists, counters, report, panel, ledger>>

-------------------------------------------------------------------------------
(***************************************************************************)
(* The node monitor: UpdateUsers holds both locks from end to end.         *)
(***************************************************************************)

\* Fault: the counter of a listed user goes too while nothing is pending in it.
LegacyKeptPending(new) == {u \in stats : HasPending(pending[u])}

\* The counters that survive: those of users the update does not delete, listed
\* or not, and those with pending bytes.
LegacyKept(new) == {u \in stats : u \notin users \ new \/ HasPending(pending[u])}

LegacyUpdateUsers(new) ==
    LET kept == LegacyKept(new)
    IN  /\ users' = new
        /\ stats' = kept \cup new
        /\ pending' = [u \in Uuids |-> IF u \in kept THEN pending[u] ELSE Zero]
        /\ uid' = [u \in Uuids |-> IF u \in new \cup (kept \cap users) THEN IdOf[u]
                                   ELSE IF u \in kept THEN uid[u] ELSE 0]
        /\ line' = Orphan(kept)
        /\ known' = known \cup new
        /\ stable' = stable \cap new
        /\ UNCHANGED <<userIDs, report, panel, ledger>>

-------------------------------------------------------------------------------
\* GetUserTrafficSlice and ConfirmUserTraffic, with the push between them.
LegacyReport == Report

Serve(s) ==
    Authenticate(s) \/ Found(s) \/ Missed(s) \/ Lookup(s) \/ Create(s) \/ Copied(s) \/ Proceed(s)

LegacyNext ==
    \/ \E s \in Streams : Serve(s)
    \/ \E new \in SUBSET Uuids : LegacyUpdateUsers(new)
    \/ LegacyReport

LegacySpec == LegacyInit /\ [][LegacyNext]_vars

-------------------------------------------------------------------------------
\* Every variable keeps the shape of the Go value it stands for.
LegacyTypeOK ==
    /\ users \subseteq Uuids
    /\ stats \subseteq Uuids
    /\ {pending, batch, credited, unanswered, metered, dropped} \subseteq [Uuids -> Bytes]
    /\ {uid, batchUid} \subseteq [Uuids -> Nat]
    /\ \A s \in Streams : /\ line[s].pc \in Working
                          /\ line[s].held => line[s].pc = "add" /\ line[s].user \in stats
    /\ rpc \in {"idle", "push", "active", "settle"}

\* UpdateUsers, getCounter, ConfirmUserTraffic: for a user that was in every list
\* so far the books balance to the byte and every push names the right account,
\* whatever is added and deleted around it.
StableUsersBilled ==
    \A u \in stable :
        /\ dropped[u] = Zero
        /\ HasPending(batch[u]) => batchUid[u] = IdOf[u]
        /\ \A d \in Dirs :
              metered[u][d] + unanswered[u][d] = Unbilled[u][d] + credited[u][d]
===============================================================================
