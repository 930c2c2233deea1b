----------------------------- MODULE LimiterMaps -----------------------------
(***************************************************************************)
(* The limiter, one operation on its sync.Maps at a time.  UserOnlineIP    *)
(* maps a user to a map of its devices, and the calls that enter, release  *)
(* and collect devices work on both levels without a lock.  Devices takes  *)
(* a call of the limiter for one step; here the steps of several callers   *)
(* interleave.                                                             *)
(*                                                                         *)
(* A caller is a goroutine that makes one call after another for one       *)
(* device: in the caddy engine a handler of the auth server or the reader  *)
(* of the events, which call Authorize and ReleaseIP, in the legacy engine *)
(* a request, which calls CheckLimit.  There the report task calls         *)
(* GetOnlineDevice too.  The node monitor calls UpdateUsers and            *)
(* SetAliveList in either.  NodeSpeedLimit is never set, so that           *)
(* determineSpeedLimit is the user's own limit.                            *)
(***************************************************************************)
EXTENDS Naturals

CONSTANTS
    Users,
    Ips,
    Callers,
    Loads,        \* bound: what may happen together.  The engine, the device of each
                  \* caller, the limits, and whether the panel changes its users
    Limits,       \* device limits the panel gives, 0 for none
    Speeds,       \* speed limits the panel gives, 0 for none
    Maps,         \* the inner maps there can be at once
    None

ASSUME LoadsAssumption ==
    Loads \subseteq [engine : {"caddy", "legacy"}, device : [Callers -> Users \X Ips],
                     speeds : SUBSET Speeds \ {{}}, limit : [Users -> Limits],
                     updates : BOOLEAN]
ASSUME LimitsAssumption == Limits \subseteq Nat
ASSUME SpeedsAssumption == 0 \in Speeds /\ Speeds \subseteq Nat
ASSUME NoneAssumption == None \notin Maps \cup Users

VARIABLES
    load,       \* the engine and the callers' devices
    listed,     \* keys of UserLimitInfo
    speed,      \* SpeedLimit of each user's UserLimitInfo
    alive,      \* AliveList
    online,     \* UserOnlineIP: the inner map of each user
    device,     \* the inner maps: what each says of a device
    old,        \* OldUserOnline: the user of each address
    bucket,     \* SpeedLimiter: the rate of each user's bucket, 0 for none
    call,       \* per caller: the call it is in
    update,     \* UpdateUsers: the user it is about and the next step
    sweep,      \* GetOnlineDevice: where it is and the users to visit
    due,        \* history: devices this report still has to find
    stale       \* history: users whose bucket was stored with a limit that had changed

tables == <<listed, speed, alive, old, bucket>>
history == <<due, stale>>
limiterVars == <<load, tables, online, device, call, update, sweep, history>>

-------------------------------------------------------------------------------
\* An entry is asked while the call that made it has not decided, kept once a
\* call has accepted the device.
NoDevices == [ip \in Ips |-> "no"]

\* Steps of admit and CheckLimit, then of ReleaseIP.
CallSteps == {"idle", "alive", "enter", "join", "check", "forget", "undo",
              "speed", "lookup", "store", "drop", "range", "clear"}

\* alive: aliveIP.  fresh: the call stored the inner map.  info:
\* the speed limit in the UserLimitInfo the call has loaded, None while that is
\* the one in the table.  known and overlap are history, kept for a user with a
\* device limit: the device was known when the call began, another call for it
\* was made meanwhile.
NoCall == [at |-> "idle", map |-> None, fresh |-> FALSE, alive |-> 0, info |-> None,
           known |-> FALSE, overlap |-> FALSE, speed |-> 0]

NoUpdate == [at |-> "off", user |-> None, speed |-> 0]
NoSweep == [at |-> "off", user |-> None, todo |-> {}]

\* The users that the callers' devices belong to.
Served == {load.device[c][1] : c \in Callers}

UserOf(c) == load.device[c][1]
IpOf(c) == load.device[c][2]

LimiterInit ==
    /\ load \in Loads
    /\ listed = Users
    /\ speed \in {f \in [Users -> load.speeds] : \A u \in Users \ Served : f[u] = 0}
    /\ alive = [u \in Users |-> 0]
    /\ online = [u \in Users |-> None]
    /\ device = [m \in Maps |-> NoDevices]
    /\ old = [ip \in Ips |-> None]
    /\ bucket = [u \in Users |-> 0]
    /\ call = [c \in Callers |-> NoCall]
    /\ update = NoUpdate
    /\ sweep = NoSweep
    /\ due = {}
    /\ stale = {}

-------------------------------------------------------------------------------
\* A map that neither UserOnlineIP nor a call refers to is garbage.
Live(m, top, calls) ==
    (\E u \in Users : top[u] = m) \/ (\E c \in Callers : calls[c].map = m)

Becomes(top, maps, calls) ==
    /\ online' = top
    /\ device' = [m \in Maps |-> IF Live(m, top, calls) THEN maps[m] ELSE NoDevices]
    /\ call' = calls

Step(c, at) == [call EXCEPT ![c].at = at]
Return(c) == [call EXCEPT ![c] = NoCall]

SameDevice(c, d) == load.device[c] = load.device[d]

Admitting(c) == call[c].at \in CallSteps \ {"idle", "drop", "range", "clear"}

Known(u, ip) == online[u] # None /\ device[online[u]][ip] = "kept"

-------------------------------------------------------------------------------
(***************************************************************************)
(* admit.                                                                  *)
(***************************************************************************)

\* It loads the user's limits; without them the device is refused.
Admit(c) ==
    LET limited == load.limit[UserOf(c)] > 0
        others == {d \in Callers \ {c} : limited /\ SameDevice(c, d) /\ Admitting(d)}
        begun == [NoCall EXCEPT !.at = "alive", !.known = limited /\ Known(UserOf(c), IpOf(c)),
                                !.overlap = others # {}]
    IN  /\ call[c].at = "idle"
        /\ UserOf(c) \in listed
        /\ call' = [d \in Callers |->
                        IF d = c THEN begun
                        ELSE IF d \in others THEN [call[d] EXCEPT !.overlap = TRUE]
                        ELSE call[d]]
        /\ UNCHANGED <<load, tables, online, device, update, sweep, history>>

\* aliveCount.
ReadAlive(c) ==
    /\ call[c].at = "alive"
    /\ call' = [call EXCEPT ![c].at = "enter", ![c].alive = alive[UserOf(c)]]
    /\ UNCHANGED <<load, tables, online, device, update, sweep, history>>

\* LoadOrStore of a map with this one device.
Enter(c) ==
    LET u == UserOf(c)
        m == CHOOSE x \in Maps : ~Live(x, online, call)
    IN  /\ call[c].at = "enter"
        /\ IF online[u] = None
             THEN /\ \E x \in Maps : ~Live(x, online, call)
                  /\ Becomes([online EXCEPT ![u] = m],
                             [device EXCEPT ![m][IpOf(c)] = "asked"],
                             [call EXCEPT ![c].at = "check", ![c].map = m, ![c].fresh = TRUE])
             ELSE Becomes(online, device, [call EXCEPT ![c].at = "join", ![c].map = online[u]])
        /\ UNCHANGED <<load, tables, update, sweep, history>>

\* The call accepts the device, and CheckLimit goes on to the bucket.
Accept(c) ==
    Becomes(online,
            [device EXCEPT ![call[c].map][IpOf(c)] = IF @ = "no" THEN "no" ELSE "kept"],
            IF load.engine = "legacy"
              THEN [call EXCEPT ![c] = [NoCall EXCEPT !.at = "speed", !.info = call[c].info]]
              ELSE Return(c))

\* LoadOrStore of the device: one that is there is let in.
Join(c) ==
    /\ call[c].at = "join"
    /\ IF device[call[c].map][IpOf(c)] # "no"
         THEN Accept(c)
         ELSE Becomes(online, [device EXCEPT ![call[c].map][IpOf(c)] = "asked"], Step(c, "check"))
    /\ UNCHANGED <<load, tables, update, sweep, history>>

\* Fault: the limit is one device too large.
FullAbove(c) == load.limit[UserOf(c)] > 0 /\ load.limit[UserOf(c)] < call[c].alive

\* The panel counts as many devices of the user as the limit allows.
Full(c) == load.limit[UserOf(c)] > 0 /\ load.limit[UserOf(c)] <= call[c].alive

\* A device the last report has seen is let in, whatever the limit says.
CheckOld(c) ==
    LET seen == old[IpOf(c)]
    IN  /\ call[c].at = "check"
        /\ \/ seen = UserOf(c) /\ Becomes(online, device, Step(c, "forget"))
           \/ seen \notin {UserOf(c), None} /\ Accept(c)
           \/ seen = None /\ Full(c) /\ Becomes(online, device, Step(c, "undo"))
           \/ seen = None /\ ~Full(c) /\ Accept(c)
        /\ UNCHANGED <<load, tables, update, sweep, history>>

Forget(c) ==
    /\ call[c].at = "forget"
    /\ old' = [old EXCEPT ![IpOf(c)] = None]
    /\ Accept(c)
    /\ UNCHANGED <<load, listed, speed, alive, bucket, update, sweep, history>>

\* Fault: a refused device is left in the map of the others.
UndoFirst(c) ==
    IF call[c].fresh
      THEN Becomes([online EXCEPT ![UserOf(c)] = None], device, Return(c))
      ELSE Becomes(online, device, Return(c))

\* What a refusal takes back: the device, or the map if the call stored it, with
\* whatever others have entered since.
TakeBack(c) ==
    IF call[c].fresh
      THEN Becomes([online EXCEPT ![UserOf(c)] = None], device, Return(c))
      ELSE Becomes(online, [device EXCEPT ![call[c].map][IpOf(c)] = "no"], Return(c))

Undo(c) ==
    /\ call[c].at = "undo"
    /\ TakeBack(c)
    /\ due' = {d \in due : IF call[c].fresh THEN d[1] # UserOf(c) ELSE d # load.device[c]}
    /\ UNCHANGED <<load, tables, update, sweep, stale>>

-------------------------------------------------------------------------------
(***************************************************************************)
(* The rest of CheckLimit: the bucket of the legacy engine.                *)
(***************************************************************************)

\* The speed limit is read where the call has found it, however old that is.
ReadSpeed(c) ==
    LET s == IF call[c].info = None THEN speed[UserOf(c)] ELSE call[c].info
    IN  /\ call[c].at = "speed"
        /\ call' = IF s = 0 THEN Return(c)
                   ELSE [call EXCEPT ![c] = [NoCall EXCEPT !.at = "lookup", !.speed = s]]
        /\ UNCHANGED <<load, tables, online, device, update, sweep, history>>

LoadBucket(c) ==
    /\ call[c].at = "lookup"
    /\ call' = IF bucket[UserOf(c)] # 0 THEN Return(c) ELSE Step(c, "store")
    /\ UNCHANGED <<load, tables, online, device, update, sweep, history>>

StoreBucket(c) ==
    LET u == UserOf(c)
    IN  /\ call[c].at = "store"
        /\ bucket' = [bucket EXCEPT ![u] = call[c].speed]
        /\ stale' = IF call[c].speed = speed[u] THEN stale \ {u} ELSE stale \cup {u}
        /\ call' = Return(c)
        /\ UNCHANGED <<load, listed, speed, alive, old, online, device, update, sweep, due>>

-------------------------------------------------------------------------------
(***************************************************************************)
(* ReleaseIP.  OldUserOnline is empty in the engine that calls it.         *)
(***************************************************************************)

\* Fault: the entry of the user is not checked for.
ReleaseUnchecked(c) ==
    /\ call[c].at = "idle" /\ load.engine = "caddy"
    /\ call' = [call EXCEPT ![c].at = "drop", ![c].map = online[UserOf(c)]]
    /\ UNCHANGED <<load, tables, online, device, update, sweep, history>>

\* The user's map is loaded; without one nothing happens ...
Release(c) ==
    /\ call[c].at = "idle" /\ load.engine = "caddy"
    /\ online[UserOf(c)] # None
    /\ call' = [call EXCEPT ![c].at = "drop", ![c].map = online[UserOf(c)]]
    /\ UNCHANGED <<load, tables, online, device, update, sweep, history>>

\* ... the device is deleted from it ...
Drop(c) ==
    /\ call[c].at = "drop"
    /\ Becomes(online, [device EXCEPT ![call[c].map][IpOf(c)] = "no"], Step(c, "range"))
    /\ UNCHANGED <<load, tables, update, sweep, history>>

\* ... and if the map is empty then ...
Range(c) ==
    /\ call[c].at = "range"
    /\ IF device[call[c].map] = NoDevices
         THEN Becomes(online, device, Step(c, "clear"))
         ELSE Becomes(online, device, Return(c))
    /\ UNCHANGED <<load, tables, update, sweep, history>>

\* ... the entry of the user goes, whichever map it has by now.
Clear(c) ==
    /\ call[c].at = "clear"
    /\ Becomes([online EXCEPT ![UserOf(c)] = None], device, Return(c))
    /\ UNCHANGED <<load, tables, update, sweep, history>>

-------------------------------------------------------------------------------
(***************************************************************************)
(* The node monitor: UpdateUsers and SetAliveList.                         *)
(***************************************************************************)

\* A deleted user: its limits go, then its devices, then its bucket, then its
\* alive count.
DeleteUser(u) ==
    /\ load.updates /\ update.at = "off" /\ u \in listed
    /\ listed' = listed \ {u}
    /\ update' = [NoUpdate EXCEPT !.at = "online", !.user = u]
    /\ UNCHANGED <<load, speed, alive, old, bucket, online, device, call, sweep, history>>

DeleteOnline ==
    /\ update.at = "online"
    /\ Becomes([online EXCEPT ![update.user] = None], device, call)
    /\ update' = [update EXCEPT !.at = "bucket"]
    /\ due' = {d \in due : d[1] # update.user}
    /\ UNCHANGED <<load, tables, sweep, stale>>

DeleteBucket ==
    /\ update.at = "bucket"
    /\ bucket' = [bucket EXCEPT ![update.user] = 0]
    /\ stale' = stale \ {update.user}
    /\ update' = [update EXCEPT !.at = "alive"]
    /\ UNCHANGED <<load, listed, speed, alive, old, online, device, call, sweep, due>>

DeleteAlive ==
    /\ update.at = "alive"
    /\ alive' = [alive EXCEPT ![update.user] = 0]
    /\ update' = NoUpdate
    /\ UNCHANGED <<load, listed, speed, old, bucket, online, device, call, sweep, history>>

\* The calls that may still read the speed limit of the user.
StillReads(c) ==
    /\ load.engine = "legacy" /\ call[c].info = None
    /\ Admitting(c) /\ call[c].at \notin {"lookup", "store"}

\* An added user gets a new UserLimitInfo, which a call that has the one before
\* does not see; a modified one has it changed in place ...
ChangeUser(u) ==
    /\ load.updates /\ update.at = "off"
    /\ \E s \in load.speeds :
          /\ u \in listed => s # speed[u]
          /\ speed' = [speed EXCEPT ![u] = s]
          /\ update' = [at |-> "rate", user |-> u, speed |-> s]
          /\ call' = [c \in Callers |->
                         IF UserOf(c) = u /\ u \notin listed /\ s # speed[u] /\ StillReads(c)
                           THEN [call[c] EXCEPT !.info = speed[u]] ELSE call[c]]
    /\ listed' = listed \cup {u}
    /\ UNCHANGED <<load, alive, old, bucket, online, device, sweep, history>>

\* Fault: a user whose limit was lifted keeps its bucket.
BucketKept(s, b) == IF s = 0 THEN b ELSE s

\* updateBucket: a bucket of the new rate, or none.
BucketFor(s, b) == s

\* ... and then its bucket is.
UpdateBucket ==
    LET u == update.user
    IN  /\ update.at = "rate"
        /\ bucket' = [bucket EXCEPT ![u] = BucketFor(update.speed, @)]
        /\ stale' = stale \ {u}
        /\ update' = NoUpdate
        /\ UNCHANGED <<load, listed, speed, alive, old, online, device, call, sweep, due>>

SetAlive ==
    /\ update.at = "off"
    /\ \E u \in Served : \E n \in 0..load.limit[u] : alive' = [alive EXCEPT ![u] = n]
    /\ UNCHANGED <<load, listed, speed, old, bucket, online, device, call, update, sweep, history>>

-------------------------------------------------------------------------------
(***************************************************************************)
(* GetOnlineDevice of the legacy engine.                                   *)
(***************************************************************************)

StartSweep ==
    /\ load.engine = "legacy" /\ sweep.at = "off"
    /\ old' = [ip \in Ips |-> None]
    /\ sweep' = [NoSweep EXCEPT !.at = "range", !.todo = Served]
    /\ due' = {d \in Users \X Ips : Known(d[1], d[2])}
    /\ UNCHANGED <<load, listed, speed, alive, bucket, online, device, call, update, stale>>

\* The devices an inner Range visits.
DevicesIn(m) == {ip \in Ips : device[m][ip] # "no"}

\* Fault: the inner Range stops at the first device.
CollectFirst(u) ==
    /\ sweep.at = "range" /\ u \in sweep.todo /\ online[u] # None
    /\ LET seen == {ip \in Ips : ip = CHOOSE i \in DevicesIn(online[u]) : TRUE}
       IN  /\ old' = [ip \in Ips |-> IF ip \in seen THEN u ELSE old[ip]]
           /\ due' = due \ ({u} \X seen)
    /\ sweep' = [at |-> "remove", user |-> u, todo |-> sweep.todo \ {u}]
    /\ UNCHANGED <<load, listed, speed, alive, bucket, online, device, call, update, stale>>

\* A user's devices are collected ...
Collect(u) ==
    /\ sweep.at = "range" /\ u \in sweep.todo /\ online[u] # None
    /\ LET seen == DevicesIn(online[u])
       IN  /\ old' = [ip \in Ips |-> IF ip \in seen THEN u ELSE old[ip]]
           /\ due' = due \ ({u} \X seen)
    /\ sweep' = [at |-> "remove", user |-> u, todo |-> sweep.todo \ {u}]
    /\ UNCHANGED <<load, listed, speed, alive, bucket, online, device, call, update, stale>>

\* ... unless it has no entry when Range comes by ...
Skip(u) ==
    /\ sweep.at = "range" /\ u \in sweep.todo /\ online[u] = None
    /\ sweep' = [sweep EXCEPT !.todo = @ \ {u}]
    /\ UNCHANGED <<load, tables, online, device, call, update, history>>

\* ... and then its entry is deleted, whatever it holds by now.
Remove ==
    /\ sweep.at = "remove"
    /\ Becomes([online EXCEPT ![sweep.user] = None], device, call)
    /\ sweep' = [sweep EXCEPT !.at = "range", !.user = None]
    /\ UNCHANGED <<load, tables, update, history>>

EndSweep ==
    /\ sweep.at = "range" /\ sweep.todo = {}
    /\ sweep' = NoSweep
    /\ UNCHANGED <<load, tables, online, device, call, update, history>>

-------------------------------------------------------------------------------
Authorize(c) ==
    \/ Admit(c) \/ ReadAlive(c) \/ Enter(c) \/ Join(c)
    \/ CheckOld(c) \/ Forget(c) \/ Undo(c)

CheckLimit(c) == ReadSpeed(c) \/ LoadBucket(c) \/ StoreBucket(c)

ReleaseIP(c) == Release(c) \/ Drop(c) \/ Range(c) \/ Clear(c)

UpdateLimits ==
    \/ \E u \in Served : DeleteUser(u) \/ ChangeUser(u)
    \/ DeleteOnline \/ DeleteBucket \/ DeleteAlive \/ UpdateBucket

GetOnlineDevice == StartSweep \/ (\E u \in Served : Collect(u) \/ Skip(u)) \/ Remove \/ EndSweep

LimiterNext ==
    \/ \E c \in Callers : Authorize(c) \/ CheckLimit(c) \/ ReleaseIP(c)
    \/ UpdateLimits \/ SetAlive
    \/ GetOnlineDevice

LimiterSpec == LimiterInit /\ [][LimiterNext]_limiterVars

-------------------------------------------------------------------------------
\* The maps and the local variables of the calls have the shapes the code relies on:
\* a call has an inner map exactly while it works on one.
LimiterTypeOK ==
    /\ listed \subseteq Users
    /\ speed \in [Users -> Speeds] /\ bucket \in [Users -> Speeds]
    /\ online \in [Users -> Maps \cup {None}]
    /\ device \in [Maps -> [Ips -> {"no", "asked", "kept"}]]
    /\ old \in [Ips -> Users \cup {None}]
    /\ \A c \in Callers :
          /\ call[c].at \in CallSteps
          /\ call[c].map # None <=>
                call[c].at \in {"join", "check", "forget", "undo", "drop", "range", "clear"}
          /\ call[c].map \in Maps \cup {None} /\ call[c].info \in Speeds \cup {None}

\* admit enters a device before it knows whether the device may stay: however the
\* calls interleave, a refused device is not in the user's map once the call that
\* entered it has returned.
NoGhosts ==
    \A u \in Users, ip \in Ips :
        online[u] # None /\ device[online[u]][ip] = "asked" =>
            \E c \in Callers : /\ call[c].map = online[u] /\ IpOf(c) = ip
                               /\ call[c].at \in {"check", "forget", "undo"}

Accepts(c) == call[c].at \in {"join", "check", "forget"} /\ call'[c].at \in {"idle", "speed"}

\* admit: a call that has found the limit reached lets a device in only if it was
\* known when the call began, if the last report has seen its address, of this
\* user or another, or if a second call for the same device ran at the same time.
LimitKept ==
    [][\A c \in Callers :
            Accepts(c) /\ load.limit[UserOf(c)] \in 1..call[c].alive =>
                \/ call[c].known \/ call[c].overlap \/ call[c].at = "forget"
                \/ old[IpOf(c)] # None]_limiterVars

\* GetOnlineDevice: a device that was accepted before the report began is in it,
\* whatever enters meanwhile, unless its user was deleted or a refusal took the
\* user's map away first.
ReportComplete == sweep.at = "range" /\ sweep.todo = {} => due = {}

\* UpdateUsers, updateBucket and CheckLimit: a user's bucket has the rate of its
\* current speed limit, or there is none, unless a call of CheckLimit has stored
\* one for the limit it had read before the update.
BucketCurrent ==
    \A u \in listed \ stale : update.at = "off" => bucket[u] \in {0, speed[u]}
===============================================================================
