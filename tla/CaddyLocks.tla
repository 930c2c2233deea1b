------------------------------- MODULE CaddyLocks -------------------------------
(***************************************************************************)
(* The two sync.RWMutex of a caddyproc.Server, usersMu and statsMu, and    *)
(* the goroutines that take them: the node monitor (UpdateUsers), the      *)
(* report task (GetUserTrafficSlice, ConfirmUserTraffic, GetOnlineDevice), *)
(* the consumers of Caddy's output (handleEventLine) and the handlers of   *)
(* /authorize.  An operation is the sequence of its lock operations and of *)
(* its accesses to s.online; everything between two of them is left out.   *)
(*                                                                         *)
(* A RWMutex is Go's: Lock first becomes the one pending writer and then   *)
(* waits for the readers; RLock queues behind a pending writer; Unlock     *)
(* lets all queued readers in before the next writer can be pending.       *)
(***************************************************************************)
EXTENDS Naturals, Sequences, FiniteSets

CONSTANTS
    Monitor, Reporter,   \* the goroutines of the two tasks
    Consumers,           \* the goroutines that run consumeOutput
    Handlers,            \* the goroutines that run handleAuthorize
    NoOne,
    MaxOnline            \* bound: tunnels open at the same time

Threads == {Monitor, Reporter} \cup Consumers \cup Handlers
Mutexes == {"usersMu", "statsMu"}

ASSUME ThreadsAssumption ==
    /\ NoOne \notin Threads
    /\ Monitor # Reporter
    /\ {Monitor, Reporter} \cap (Consumers \cup Handlers) = {}
    /\ Consumers \cap Handlers = {}
ASSUME MaxOnlineAssumption == MaxOnline \in Nat

VARIABLES
    todo,      \* what is left of the operation of each goroutine
    writer,    \* of each mutex: the writer that is pending or inside
    readers,   \* of each mutex: the readers inside
    queued,    \* of each mutex: the readers behind the writer
    online     \* entries of s.online

locks == <<writer, readers, queued>>
vars == <<todo, locks, online>>

-------------------------------------------------------------------------------
(***************************************************************************)
(* The operations.                                                         *)
(***************************************************************************)
Step(what, mutex) == [do |-> what, on |-> mutex]

Reading(mutex, body) ==
    <<Step("RLock", mutex)>> \o body \o <<Step("RUnlock", mutex)>>

Writing(mutex, body) ==
    <<Step("Lock", mutex)>> \o body \o <<Step("Unlock", mutex)>>

\* userByUUID, userIDByUUID, hasActiveUser and activeUserUUIDs
UserLookup == Reading("usersMu", <<>>)

\* One entry of s.online in GetOnlineDevice: the lookup of its user, then its IPs.
OnlineEntry == UserLookup \o <<Step("read", "statsMu")>>

\* Fault: statsMu is not taken around s.online.
ReplaceUsersUnguarded ==
    Writing("usersMu", <<Step("remove", "statsMu")>>)

\* replaceUsers takes statsMu with usersMu held; it drops the tunnels of users
\* that are gone from s.online.
ReplaceUsers ==
    Writing("usersMu", Writing("statsMu", <<Step("remove", "statsMu")>>))

GetUserTrafficSlice == Reading("statsMu", <<>>)

\* Fault: the active users are read inside the section on statsMu.
ConfirmNested == Writing("statsMu", UserLookup)

ConfirmUserTraffic == UserLookup \o Writing("statsMu", <<>>)

\* GetOnlineDevice looks a user up for every entry of s.online it ranges over,
\* with statsMu held.
GetOnlineDevice == Reading("statsMu", <<Step("range", "statsMu")>>)

\* getCounterForEvent looks the id up if the event has none, and takes statsMu
\* once more if the counter is missing.
GetCounterForEvent(unstamped, missing) ==
    (IF unstamped THEN UserLookup ELSE <<>>)
        \o Reading("statsMu", <<>>)
        \o (IF missing THEN Writing("statsMu", <<>>) ELSE <<>>)

OpenEvent == UserLookup \o Writing("statsMu", <<Step("open", "statsMu")>>)

CloseEvent == Writing("statsMu", <<Step("close", "statsMu")>>)

HandleEventLine ==
    {OpenEvent}
        \cup {GetCounterForEvent(u, m) : u, m \in BOOLEAN}
        \cup {GetCounterForEvent(u, m) \o CloseEvent : u, m \in BOOLEAN}

\* handleAuthorize looks at the active users again when it rejects.
HandleAuthorize == {UserLookup, UserLookup \o UserLookup}

ReportTask ==
    {GetUserTrafficSlice \o GetOnlineDevice,
     GetUserTrafficSlice \o ConfirmUserTraffic \o GetOnlineDevice}

Operations(t) ==
    CASE t = Monitor -> {ReplaceUsers}
      [] t = Reporter -> ReportTask
      [] t \in Consumers -> HandleEventLine
      [] OTHER -> HandleAuthorize

-------------------------------------------------------------------------------
Fresh == [m \in Mutexes |-> {}]

\* New: nothing runs yet.
Init ==
    /\ todo = [t \in Threads |-> <<>>]
    /\ writer = [m \in Mutexes |-> NoOne]
    /\ readers = Fresh
    /\ queued = Fresh
    /\ online = 0

At(t, what) == todo[t] # <<>> /\ Head(todo[t]).do = what

Begin(t) ==
    /\ todo[t] = <<>>
    /\ \E op \in Operations(t) : todo' = [todo EXCEPT ![t] = op]
    /\ UNCHANGED <<locks, online>>

Done(ts) == [t \in Threads |-> IF t \in ts THEN Tail(todo[t]) ELSE todo[t]]

RLock(t) ==
    /\ At(t, "RLock")
    /\ LET m == Head(todo[t]).on
       IN  IF writer[m] = NoOne
             THEN /\ readers' = [readers EXCEPT ![m] = @ \cup {t}]
                  /\ todo' = Done({t})
                  /\ UNCHANGED queued
             ELSE /\ t \notin queued[m]
                  /\ queued' = [queued EXCEPT ![m] = @ \cup {t}]
                  /\ UNCHANGED <<readers, todo>>
    /\ UNCHANGED <<writer, online>>

RUnlock(t) ==
    /\ At(t, "RUnlock")
    /\ readers' = [readers EXCEPT ![Head(todo[t]).on] = @ \ {t}]
    /\ todo' = Done({t})
    /\ UNCHANGED <<writer, queued, online>>

\* Lock, first half: become the pending writer.
Announce(t) ==
    /\ At(t, "Lock")
    /\ writer[Head(todo[t]).on] = NoOne
    /\ writer' = [writer EXCEPT ![Head(todo[t]).on] = t]
    /\ UNCHANGED <<todo, readers, queued, online>>

\* Lock, second half: the readers are gone.
Acquire(t) ==
    /\ At(t, "Lock")
    /\ writer[Head(todo[t]).on] = t
    /\ readers[Head(todo[t]).on] = {}
    /\ todo' = Done({t})
    /\ UNCHANGED <<locks, online>>

Unlock(t) ==
    /\ At(t, "Unlock")
    /\ LET m == Head(todo[t]).on
       IN  /\ writer' = [writer EXCEPT ![m] = NoOne]
           /\ readers' = [readers EXCEPT ![m] = queued[m]]
           /\ queued' = [queued EXCEPT ![m] = {}]
           /\ todo' = Done({t} \cup queued[m])
    /\ UNCHANGED online

\* Fault: a close event is subtracted from a count that a list update removed.
TouchUnchecked(t) ==
    /\ \/ At(t, "read") /\ UNCHANGED online
       \/ At(t, "open") /\ online' = online + 1
       \/ At(t, "close") /\ online' = online - 1
       \/ At(t, "remove") /\ online' \in 0..online
    /\ todo' = Done({t})
    /\ UNCHANGED locks

\* The accesses to s.online: an open event of an entry that is there already, and
\* a close event of one that is not or that has another tunnel, change nothing.
Touch(t) ==
    /\ \/ At(t, "read") /\ UNCHANGED online
       \/ At(t, "open") /\ online < MaxOnline /\ online' = online + 1
       \/ At(t, "open") /\ online = MaxOnline /\ UNCHANGED online
       \/ At(t, "close") /\ online' \in {online, online - 1} \cap Nat
       \/ At(t, "remove") /\ online' \in 0..online
    /\ todo' = Done({t})
    /\ UNCHANGED locks

\* for uuid, ipMap := range s.online { user := s.userByUUID(uuid) ... }
Range(t) ==
    /\ At(t, "range")
    /\ LET size == Len(OnlineEntry)
           entries == [i \in 1..(size * online) |-> OnlineEntry[1 + ((i - 1) % size)]]
       IN  todo' = [todo EXCEPT ![t] = entries \o Tail(@)]
    /\ UNCHANGED <<locks, online>>

\* Fault: the deadline passes and nobody is told.
ReloadUnsent(task) == todo[task] # <<>> /\ UNCHANGED vars

\* ExecuteWithTimeout: a task that does not end has the controller reloaded; a
\* new server has fresh mutexes, and the handlers and consumers of the old one
\* serve nobody any more.
Reload(task) ==
    /\ todo[task] # <<>>
    /\ todo' = [t \in Threads |-> <<>>]
    /\ writer' = [m \in Mutexes |-> NoOne]
    /\ readers' = Fresh
    /\ queued' = Fresh
    /\ online' = 0

Run(t) ==
    RLock(t) \/ RUnlock(t) \/ Announce(t) \/ Acquire(t) \/ Unlock(t) \/ Touch(t) \/ Range(t)

Next ==
    \/ \E t \in Threads : Begin(t) \/ Run(t)
    \/ \E task \in {Monitor, Reporter} : Reload(task)

Spec == Init /\ [][Next]_vars

\* Goroutines are scheduled, sync.Mutex starves no writer, and the deadline of
\* a task comes if the task does not end before it.
Fairness ==
    /\ \A t \in Threads : WF_vars(Run(t)) /\ SF_vars(Announce(t))
    /\ \A task \in {Monitor, Reporter} : WF_vars(Reload(task))

FairSpec == Spec /\ Fairness

-------------------------------------------------------------------------------
\* A mutex has readers inside or a writer inside, and a queue only behind a
\* writer.
TypeOK ==
    /\ writer \in [Mutexes -> Threads \cup {NoOne}]
    /\ readers \in [Mutexes -> SUBSET Threads]
    /\ queued \in [Mutexes -> SUBSET Threads]
    /\ online \in 0..MaxOnline
    /\ \A m \in Mutexes : writer[m] = NoOne => queued[m] = {}

Changes == {"open", "close", "remove"}
Reads == {"range", "read"}

\* handleEventLine, replaceUsers, GetOnlineDevice: no goroutine is about to
\* change s.online while another is about to change it or to range over it,
\* which the Go runtime answers with a fatal error.
OnlineMapGuarded ==
    \A t, r \in Threads :
        t # r /\ (\E c \in Changes : At(t, c)) => \A a \in Changes \cup Reads : ~At(r, a)

\* Whom a goroutine waits for.
WaitsFor(t) ==
    IF todo[t] = <<>> THEN {}
    ELSE LET m == Head(todo[t]).on
         IN  IF At(t, "Lock") /\ writer[m] = t THEN readers[m]
             ELSE IF (At(t, "Lock") /\ writer[m] # NoOne) \/ t \in queued[m]
               THEN {writer[m]}
               ELSE {}

CircularWait(ts) == ts # {} /\ \A t \in ts : WaitsFor(t) \cap ts # {}

\* The only goroutines that can wait for each other are a list update and a
\* GetOnlineDevice that finds a tunnel online: no confirm, event or request of
\* /authorize closes a circle without both of them.
OnlyOnlineReportDeadlocks ==
    \A ts \in SUBSET Threads :
        CircularWait(ts) => {Monitor, Reporter} \subseteq ts /\ online > 0

\* UpdateUsers while tunnels are online ("user hot update", README.md:15): a list
\* update never waits for goroutines that wait for it.
HotUpdateNeverBlocked == \A ts \in SUBSET Threads : ~CircularWait(ts)

\* Every operation ends, at the latest with the server it runs on: neither the
\* order of readers and writers nor a circular wait leaves a request of
\* /authorize, an event or a list update hanging for ever.
OperationsEnd == \A t \in Threads : todo[t] # <<>> ~> todo[t] = <<>>
===============================================================================
