---------------------------- MODULE LimiterProofs ----------------------------
(***************************************************************************)
(* The limiter, for every set of users, addresses, callers and loads: the  *)
(* calls of several goroutines on the two levels of maps leave no refused  *)
(* device behind, lose no accepted one from a report, keep the device      *)
(* limit, and a bucket has the rate of its user.                           *)
(*                                                                         *)
(* The argument is one of ownership.  An inner map is only ever linked at  *)
(* the user of the call that made it, and once it is unlinked it is never  *)
(* linked again; so all calls that hold a map are of one user, and those   *)
(* that write the same entry of it are of one device.                      *)
(***************************************************************************)
EXTENDS LimiterMaps, TLAPS

Mapped == {"join", "check", "forget", "undo", "drop", "range", "clear"}
Undecided == {"check", "forget", "undo"}
Releasing == {"drop", "range", "clear"}
Entering == {"alive", "enter", "join"}
Marks == {"no", "asked", "kept"}

CallShape ==
    [at : CallSteps, map : Maps \cup {None}, fresh : BOOLEAN, alive : Nat,
     info : Speeds \cup {None}, known : BOOLEAN, overlap : BOOLEAN, speed : Speeds]

UpdateShape ==
    [at : {"off", "online", "bucket", "alive", "rate"}, user : Users \cup {None}, speed : Speeds]

SweepShape == [at : {"off", "range", "remove"}, user : Users \cup {None}, todo : SUBSET Users]

\* The loads and what the operations know of the panel's users.
TablesTyped ==
    /\ load \in Loads
    /\ listed \subseteq Users /\ stale \subseteq Users
    /\ speed \in [Users -> Speeds] /\ bucket \in [Users -> Speeds]
    /\ alive \in [Users -> Nat]
    /\ update \in UpdateShape
    /\ update.at # "off" => update.user \in Users

MapsTyped ==
    /\ online \in [Users -> Maps \cup {None}]
    /\ device \in [Maps -> [Ips -> Marks]]
    /\ call \in [Callers -> CallShape]
    /\ \A c \in Callers : call[c].map # None <=> call[c].at \in Mapped

SweepTyped ==
    /\ old \in [Ips -> Users \cup {None}]
    /\ due \subseteq Users \X Ips
    /\ sweep \in SweepShape
    /\ sweep.at = "remove" => sweep.user \in Users \ sweep.todo
    /\ sweep.at # "off" => load.engine = "legacy"

\* ReleaseIP is called in the caddy engine only.
Engines == load.engine = "legacy" => \A c \in Callers : call[c].at \notin Releasing

\* A map is linked at one user, all calls that hold it are of that user, and only
\* users with a caller have one.
Owners ==
    /\ \A u, v \in Users : online[u] # None /\ online[u] = online[v] => u = v
    /\ \A c \in Callers, u \in Users :
          call[c].map # None /\ call[c].map = online[u] => UserOf(c) = u
    /\ \A c, d \in Callers :
          call[c].map # None /\ call[c].map = call[d].map => UserOf(c) = UserOf(d)
    /\ \A u \in Users : online[u] # None => u \in Served

\* What nobody refers to is empty.
Cleared == \A m \in Maps : ~Live(m, online, call) => device[m] = NoDevices

\* A user's bucket has the rate of its limit unless it is stale or about to be replaced.
Rates ==
    /\ update.at = "rate" => update.speed = speed[update.user]
    /\ \A u \in Users \ stale :
          bucket[u] \in {0, speed[u]} \/ (update.at = "rate" /\ update.user = u)

\* A device that the report still has to find is linked at a user still to visit.
DueLinked ==
    sweep.at # "off" =>
        \A d \in due : /\ d[1] \in sweep.todo /\ online[d[1]] # None
                       /\ device[online[d[1]]][d[2]] # "no"

\* A call of a limited user that has not looked for its device and knows of no
\* other call for it.
Untried(c) == call[c].at \in Entering /\ load.limit[UserOf(c)] > 0 /\ ~call[c].overlap

\* ... is alone with the device ...
Alone ==
    \A c, d \in Callers : Untried(c) /\ c # d /\ SameDevice(c, d) => ~Admitting(d)

\* The map the call looks in, or would if it looked now.
Place(c) == IF call[c].at = "join" THEN call[c].map ELSE online[UserOf(c)]

\* ... and will not find it unless it was known.
Unseen ==
    \A c \in Callers :
        Untried(c) /\ ~call[c].known /\ Place(c) # None => device[Place(c)][IpOf(c)] = "no"

LimiterInv ==
    /\ TablesTyped /\ MapsTyped /\ SweepTyped /\ Engines
    /\ Owners /\ Cleared /\ NoGhosts
    /\ Rates /\ DueLinked /\ Alone /\ Unseen

-------------------------------------------------------------------------------
(***************************************************************************)
(* The constants of a load, and steps that do not change it.               *)
(***************************************************************************)

\* A load gives each caller a device and each user a limit.
LEMMA LoadShape ==
    ASSUME load \in Loads
    PROVE  /\ \A c \in Callers : /\ UserOf(c) \in Users /\ IpOf(c) \in Ips
                                 /\ load.device[c] = <<UserOf(c), IpOf(c)>>
                                 /\ UserOf(c) \in Served
           /\ Served \subseteq Users
           /\ load.limit \in [Users -> Nat] /\ load.speeds \subseteq Speeds
<1>1. /\ load.device \in [Callers -> Users \X Ips] /\ load.limit \in [Users -> Nat]
      /\ load.speeds \subseteq Speeds
  BY LoadsAssumption, LimitsAssumption
<1>2. QED
  BY <1>1 DEF UserOf, IpOf, Served

\* Two calls are for the same device if user and address agree.
LEMMA SameShape ==
    ASSUME load \in Loads, NEW c \in Callers, NEW d \in Callers
    PROVE  SameDevice(c, d) <=> UserOf(c) = UserOf(d) /\ IpOf(c) = IpOf(d)
BY LoadShape DEF SameDevice, UserOf, IpOf

\* Every step leaves the load alone.
LEMMA SameLoad ==
    ASSUME load' = load
    PROVE  /\ \A c \in Callers : UserOf(c)' = UserOf(c) /\ IpOf(c)' = IpOf(c)
           /\ \A c, d \in Callers : SameDevice(c, d)' <=> SameDevice(c, d)
           /\ Served' = Served
BY DEF UserOf, IpOf, SameDevice, Served

\* New: no device is online and no call is made.
LEMMA LimiterInitInv == ASSUME LimiterInit PROVE LimiterInv
<1> USE NoneAssumption, SpeedsAssumption DEF LimiterInit
<1>1. load \in Loads /\ load.speeds \subseteq Speeds
  BY LoadShape
<1>2. NoCall \in CallShape /\ NoCall.map = None /\ NoCall.at = "idle"
  BY DEF NoCall, CallShape, CallSteps
<1>3. NoUpdate \in UpdateShape /\ NoUpdate.at = "off"
  BY DEF NoUpdate, UpdateShape
<1>4. NoSweep \in SweepShape /\ NoSweep.at = "off"
  BY DEF NoSweep, SweepShape
<1>5. TablesTyped
  BY <1>1, <1>3 DEF TablesTyped
<1>6. MapsTyped
  BY <1>2 DEF MapsTyped, Mapped, NoDevices, Marks
<1>7. SweepTyped /\ Engines
  BY <1>2, <1>4 DEF SweepTyped, Engines, Releasing
<1>8. Owners /\ Cleared
  BY <1>2 DEF Owners, Cleared
<1>9. NoGhosts /\ DueLinked
  BY <1>4 DEF NoGhosts, DueLinked
<1>10. Rates
  BY <1>3 DEF Rates
<1>11. Alone /\ Unseen
  BY <1>2 DEF Alone, Unseen, Untried, Entering
<1>12. QED
  BY <1>5, <1>6, <1>7, <1>8, <1>9, <1>10, <1>11 DEF LimiterInv

-------------------------------------------------------------------------------
(***************************************************************************)
(* Steps that leave the maps of devices alone.                             *)
(***************************************************************************)

\* The parts of the invariant that the maps and the calls carry.
MapsInv == MapsTyped /\ Engines /\ Owners /\ Cleared /\ NoGhosts /\ Alone /\ Unseen

\* Where no call changes its step or its map, the maps and the calls are as they were.
LEMMA MapsRest ==
    ASSUME LimiterInv, UNCHANGED <<load, online, device>>, call' \in [Callers -> CallShape],
           \A c \in Callers : /\ call'[c].at = call[c].at /\ call'[c].map = call[c].map
                              /\ call'[c].known = call[c].known
                              /\ call'[c].overlap = call[c].overlap
    PROVE  MapsInv'
<1> USE SameLoad DEF LimiterInv
<1>1. MapsTyped' /\ Engines'
  BY DEF MapsTyped, Engines
<1>2. Owners'
  BY DEF Owners
<1>3. Cleared'
  BY DEF Cleared, Live
<1>4. NoGhosts'
  BY DEF NoGhosts
<1>5. Alone'
  BY DEF Alone, Untried, Admitting
<1>6. Unseen'
  BY DEF Unseen, Untried, Place
<1>7. QED
  BY <1>1, <1>2, <1>3, <1>4, <1>5, <1>6 DEF MapsInv

\* UpdateUsers on UserLimitInfo, AliveList and SpeedLimiter, and SetAliveList.
LEMMA TablesStep ==
    ASSUME LimiterInv,
           \/ \E u \in Served : DeleteUser(u) \/ ChangeUser(u)
           \/ DeleteBucket \/ DeleteAlive \/ UpdateBucket \/ SetAlive
    PROVE  LimiterInv'
<1> USE LoadShape, SpeedsAssumption, NoneAssumption DEF LimiterInv
<1>1. UNCHANGED <<load, online, device, old, sweep, due>>
  BY DEF DeleteUser, ChangeUser, DeleteBucket, DeleteAlive, UpdateBucket, SetAlive, tables,
         history
<1>2. /\ call' \in [Callers -> CallShape]
      /\ \A c \in Callers : /\ call'[c].at = call[c].at /\ call'[c].map = call[c].map
                            /\ call'[c].known = call[c].known
                            /\ call'[c].overlap = call[c].overlap
  <2>1. CASE \E u \in Served : ChangeUser(u)
    <3>1. PICK u \in Served : ChangeUser(u)
      BY <2>1
    <3>2. \A c \in Callers : call'[c] \in {call[c], [call[c] EXCEPT !.info = speed[u]]}
      BY <3>1 DEF ChangeUser
    <3>3. speed[u] \in Speeds /\ \A c \in Callers : call[c] \in CallShape
      BY DEF TablesTyped, MapsTyped
    <3>4. \A c \in Callers :
              /\ [call[c] EXCEPT !.info = speed[u]] \in CallShape
              /\ [call[c] EXCEPT !.info = speed[u]].at = call[c].at
              /\ [call[c] EXCEPT !.info = speed[u]].map = call[c].map
              /\ [call[c] EXCEPT !.info = speed[u]].known = call[c].known
              /\ [call[c] EXCEPT !.info = speed[u]].overlap = call[c].overlap
      BY <3>3 DEF CallShape
    <3>5. call' = [c \in Callers |-> call'[c]]
      BY <3>1 DEF ChangeUser
    <3>6. call' \in [Callers -> CallShape]
      BY <3>2, <3>3, <3>4, <3>5
    <3>7. ASSUME NEW c \in Callers
          PROVE  /\ call'[c].at = call[c].at /\ call'[c].map = call[c].map
                 /\ call'[c].known = call[c].known /\ call'[c].overlap = call[c].overlap
      <4>1. CASE call'[c] = call[c]
        BY <4>1
      <4>2. CASE call'[c] = [call[c] EXCEPT !.info = speed[u]]
        BY <3>4, <4>2
      <4>3. QED
        BY <3>2, <4>1, <4>2
    <3>8. QED
      BY <3>6, <3>7
  <2>2. CASE call' = call
    BY <2>2 DEF MapsTyped
  <2>3. QED
    BY <2>1, <2>2 DEF DeleteUser, DeleteBucket, DeleteAlive, UpdateBucket, SetAlive
<1>3. MapsInv'
  BY <1>1, <1>2, MapsRest
<1>4. TablesTyped' /\ Rates'
  <2>1. ASSUME NEW u \in Served, DeleteUser(u) PROVE TablesTyped' /\ Rates'
    <3>1. update' = [at |-> "online", user |-> u, speed |-> 0]
      BY <2>1 DEF DeleteUser, NoUpdate
    <3>2. /\ u \in Users /\ update.at = "off" /\ listed' \subseteq Users
          /\ UNCHANGED <<load, speed, alive, bucket, stale>>
      BY <2>1 DEF DeleteUser, TablesTyped, history
    <3>3. QED
      BY <3>1, <3>2 DEF TablesTyped, UpdateShape, Rates
  <2>2. ASSUME NEW u \in Served, ChangeUser(u) PROVE TablesTyped' /\ Rates'
    <3>1. PICK s \in load.speeds : /\ speed' = [speed EXCEPT ![u] = s]
                                   /\ update' = [at |-> "rate", user |-> u, speed |-> s]
      BY <2>2 DEF ChangeUser
    <3>2. /\ u \in Users /\ s \in Speeds /\ listed' \subseteq Users
          /\ UNCHANGED <<load, alive, bucket, stale>> /\ update.at = "off"
      BY <2>2 DEF ChangeUser, TablesTyped, history
    <3>3. QED
      BY <3>1, <3>2 DEF TablesTyped, UpdateShape, Rates
  <2>3. CASE DeleteBucket
    <3>1. /\ update' = [update EXCEPT !.at = "alive"] /\ update.user \in Users
          /\ update \in UpdateShape
      BY <2>3 DEF DeleteBucket, TablesTyped
    <3>2. update' \in UpdateShape /\ update'.at = "alive" /\ update'.user = update.user
      BY <3>1 DEF UpdateShape
    <3>3. QED
      BY <2>3, <3>1, <3>2 DEF DeleteBucket, TablesTyped, Rates
  <2>4. CASE DeleteAlive
    <3>1. update' \in UpdateShape /\ update'.at = "off"
      BY <2>4 DEF DeleteAlive, NoUpdate, UpdateShape
    <3>2. QED
      BY <2>4, <3>1 DEF DeleteAlive, TablesTyped, Rates, history
  <2>5. CASE UpdateBucket
    <3>1. update' \in UpdateShape /\ update'.at = "off"
      BY <2>5 DEF UpdateBucket, NoUpdate, UpdateShape
    <3>2. update.user \in Users /\ update.speed = speed[update.user]
      BY <2>5 DEF UpdateBucket, TablesTyped, Rates
    <3>3. QED
      BY <2>5, <3>1, <3>2 DEF UpdateBucket, TablesTyped, Rates, BucketFor
  <2>6. CASE SetAlive
    <3>1. UNCHANGED <<load, listed, speed, bucket, update, stale>>
      BY <2>6 DEF SetAlive, history
    <3>2. PICK u \in Served : \E n \in 0..load.limit[u] : alive' = [alive EXCEPT ![u] = n]
      BY <2>6 DEF SetAlive
    <3>3. \A n \in 0..load.limit[u] : n \in Nat
      BY DEF TablesTyped
    <3>4. QED
      BY <3>1, <3>2, <3>3 DEF TablesTyped, Rates
  <2>7. QED
    BY <2>1, <2>2, <2>3, <2>4, <2>5, <2>6
<1>5. SweepTyped' /\ DueLinked'
  BY <1>1 DEF SweepTyped, DueLinked
<1>6. QED
  BY <1>3, <1>4, <1>5 DEF MapsInv

\* GetOnlineDevice: a user's devices are due until they are collected.
LEMMA SweepStep ==
    ASSUME LimiterInv, StartSweep \/ (\E u \in Served : Collect(u) \/ Skip(u)) \/ EndSweep
    PROVE  LimiterInv'
<1> USE LoadShape, NoneAssumption DEF LimiterInv
<1>1. UNCHANGED <<load, listed, speed, alive, bucket, online, device, call, update, stale>>
  BY DEF StartSweep, Collect, Skip, EndSweep, tables, history
<1>2. MapsInv'
  BY <1>1, MapsRest DEF MapsTyped
<1>3. TablesTyped' /\ Rates'
  BY <1>1 DEF TablesTyped, Rates
<1>4. SweepTyped' /\ DueLinked'
  <2>1. CASE StartSweep
    <3>1. /\ sweep' = [at |-> "range", user |-> None, todo |-> Served]
          /\ due' = {d \in Users \X Ips : Known(d[1], d[2])}
          /\ old' = [ip \in Ips |-> None] /\ load.engine = "legacy"
      BY <2>1 DEF StartSweep, NoSweep
    <3>2. Served \subseteq Users
      BY DEF TablesTyped
    <3>3. SweepTyped'
      BY <1>1, <3>1, <3>2 DEF SweepTyped, SweepShape
    <3>4. ASSUME NEW d \in due'
          PROVE  d[1] \in Served /\ online[d[1]] # None /\ device[online[d[1]]][d[2]] # "no"
      BY <3>1 DEF Known, Owners
    <3>5. QED
      BY <1>1, <3>1, <3>3, <3>4 DEF DueLinked
  <2>2. ASSUME NEW u \in Served, Collect(u) PROVE SweepTyped' /\ DueLinked'
    <3> DEFINE seen == DevicesIn(online[u])
    <3>1. /\ old' = [ip \in Ips |-> IF ip \in seen THEN u ELSE old[ip]]
          /\ due' = due \ ({u} \X seen) /\ u \in sweep.todo /\ sweep.at = "range"
          /\ sweep' = [at |-> "remove", user |-> u, todo |-> sweep.todo \ {u}]
      BY <2>2 DEF Collect
    <3>2. u \in Users /\ sweep \in SweepShape /\ load.engine = "legacy"
      BY <3>1 DEF TablesTyped, SweepTyped
    <3>3. SweepTyped'
      BY <1>1, <3>1, <3>2 DEF SweepTyped, SweepShape
    <3>4. ASSUME NEW d \in due'
          PROVE  /\ d[1] \in sweep.todo \ {u} /\ online[d[1]] # None
                 /\ device[online[d[1]]][d[2]] # "no"
      <4>1. /\ d \in due /\ d[1] \in sweep.todo /\ online[d[1]] # None
            /\ device[online[d[1]]][d[2]] # "no"
        BY <3>1 DEF DueLinked
      <4>2. d \in Users \X Ips /\ d = <<d[1], d[2]>> /\ d[2] \in Ips
        BY <4>1 DEF SweepTyped
      <4>3. d[1] # u
        BY <3>1, <4>1, <4>2 DEF DevicesIn
      <4>4. QED
        BY <4>1, <4>3
    <3>5. QED
      BY <1>1, <3>1, <3>3, <3>4 DEF DueLinked
  <2>3. ASSUME NEW u \in Served, Skip(u) PROVE SweepTyped' /\ DueLinked'
    <3>1. /\ online[u] = None /\ sweep.at = "range" /\ sweep \in SweepShape
          /\ sweep' = [sweep EXCEPT !.todo = @ \ {u}] /\ UNCHANGED <<old, due>>
      BY <2>3 DEF Skip, SweepTyped, tables, history
    <3>2. sweep' \in SweepShape /\ sweep'.at = "range" /\ sweep'.todo = sweep.todo \ {u}
      BY <3>1 DEF SweepShape
    <3>3. QED
      BY <1>1, <3>1, <3>2 DEF SweepTyped, DueLinked
  <2>4. CASE EndSweep
    <3>1. sweep' \in SweepShape /\ sweep'.at = "off" /\ UNCHANGED <<old, due>>
      BY <2>4 DEF EndSweep, NoSweep, SweepShape, tables, history
    <3>2. QED
      BY <1>1, <3>1 DEF SweepTyped, DueLinked
  <2>5. QED
    BY <2>1, <2>2, <2>3, <2>4
<1>5. QED
  BY <1>2, <1>3, <1>4 DEF MapsInv

\* The call of a caller that works on no map.
LEMMA Unmapped ==
    ASSUME LimiterInv, NEW c \in Callers, NEW r \in CallShape,
           UNCHANGED <<load, online, device>>, call' = [call EXCEPT ![c] = r],
           call[c].map = None, r.map = None, r.at \notin Mapped,
           r.at \in Entering => /\ call[c].at \in Entering /\ r.known = call[c].known
                                /\ r.overlap = call[c].overlap,
           r.at \in CallSteps \ ({"idle"} \cup Releasing) => Admitting(c)
    PROVE  MapsInv'
<1> USE SameLoad DEF LimiterInv
<1>1. /\ call' \in [Callers -> CallShape] /\ call'[c] = r
      /\ \A d \in Callers : d # c => call'[d] = call[d]
      /\ \A d \in Callers : call'[d].map = call[d].map
  BY DEF MapsTyped
<1>2. MapsTyped' /\ Engines'
  BY <1>1 DEF MapsTyped, Engines, Mapped, Releasing
<1>3. Owners'
  BY <1>1 DEF Owners
<1>4. Cleared'
  BY <1>1 DEF Cleared, Live
<1>5. NoGhosts'
  <2>1. ASSUME NEW u \in Users, NEW ip \in Ips, online[u] # None, device[online[u]][ip] = "asked"
        PROVE  \E d \in Callers : /\ call'[d].map = online[u] /\ IpOf(d) = ip
                                  /\ call'[d].at \in Undecided
    <3>1. PICK d \in Callers : /\ call[d].map = online[u] /\ IpOf(d) = ip
                               /\ call[d].at \in Undecided
      BY <2>1 DEF NoGhosts, Undecided
    <3>2. d # c
      BY <2>1, <3>1
    <3>3. QED
      BY <1>1, <3>1, <3>2
  <2>2. QED
    BY <2>1 DEF NoGhosts, Undecided
<1>6. \A d \in Callers : /\ Untried(d)' => Untried(d) /\ call'[d].known = call[d].known
                         /\ Admitting(d)' => Admitting(d)
  BY <1>1 DEF Untried, Admitting, Releasing, CallShape
<1>7. Alone'
  BY <1>6 DEF Alone
<1>8. Unseen'
  <2>1. \A d \in Callers : Untried(d)' => Place(d)' = Place(d)
    BY <1>1, <1>6 DEF Place, Untried, Entering, MapsTyped, Mapped
  <2>2. QED
    BY <1>6, <2>1 DEF Unseen
<1>9. QED
  BY <1>2, <1>3, <1>4, <1>5, <1>7, <1>8 DEF MapsInv

\* aliveCount and the bucket of CheckLimit: a bucket is stored for the limit the
\* call has read, current or not.
LEMMA ReadStep ==
    ASSUME LimiterInv, NEW c \in Callers,
           ReadAlive(c) \/ ReadSpeed(c) \/ LoadBucket(c) \/ StoreBucket(c)
    PROVE  LimiterInv'
<1> USE NoneAssumption, SpeedsAssumption DEF LimiterInv
<1>1. /\ UNCHANGED <<load, online, device, listed, speed, alive, old, update, sweep, due>>
      /\ UserOf(c) \in Users
  BY LoadShape DEF ReadAlive, ReadSpeed, LoadBucket, StoreBucket, tables, history, TablesTyped
<1>2. NoCall \in CallShape /\ NoCall.map = None /\ NoCall.at = "idle"
  BY DEF NoCall, CallShape, CallSteps
<1>3. call[c] \in CallShape /\ call \in [Callers -> CallShape] /\ alive[UserOf(c)] \in Nat
  BY <1>1 DEF MapsTyped, TablesTyped
<1>4. MapsInv'
  <2>1. CASE ReadAlive(c)
    <3> DEFINE r == [call[c] EXCEPT !.at = "enter", !.alive = alive[UserOf(c)]]
    <3>1. call' = [call EXCEPT ![c] = r] /\ call[c].at = "alive"
      BY <2>1 DEF ReadAlive
    <3>2. /\ r \in CallShape /\ r.map = call[c].map /\ r.at = "enter"
          /\ r.known = call[c].known /\ r.overlap = call[c].overlap
      BY <1>3 DEF CallShape, CallSteps
    <3>3. call[c].map = None /\ Admitting(c)
      BY <3>1 DEF MapsTyped, Mapped, Admitting, CallSteps
    <3> HIDE DEF r
    <3>4. QED
      BY <1>1, <3>1, <3>2, <3>3, Unmapped DEF Mapped, Entering
  <2>2. CASE ~ReadAlive(c)
    <3>1. call[c].at \in {"speed", "lookup", "store"}
      BY <2>2 DEF ReadSpeed, LoadBucket, StoreBucket
    <3>2. call[c].map = None /\ Admitting(c)
      BY <3>1 DEF MapsTyped, Mapped, Admitting, CallSteps
    <3>3. PICK r \in CallShape : /\ call' = [call EXCEPT ![c] = r] /\ r.map = None
                                 /\ r.at \in {"idle", "lookup", "store"}
      <4>1. CASE call' = [call EXCEPT ![c] = NoCall]
        BY <1>2, <4>1
      <4>2. CASE ReadSpeed(c) /\ call' # [call EXCEPT ![c] = NoCall]
        <5>1. PICK s \in Speeds :
                  call' = [call EXCEPT ![c] = [NoCall EXCEPT !.at = "lookup", !.speed = s]]
          BY <1>1, <1>3, <4>2 DEF ReadSpeed, Return, TablesTyped, CallShape
        <5>2. /\ [NoCall EXCEPT !.at = "lookup", !.speed = s] \in CallShape
              /\ [NoCall EXCEPT !.at = "lookup", !.speed = s].map = None
              /\ [NoCall EXCEPT !.at = "lookup", !.speed = s].at = "lookup"
          BY DEF NoCall, CallShape, CallSteps
        <5>3. QED
          BY <5>1, <5>2
      <4>3. CASE LoadBucket(c) /\ call' # [call EXCEPT ![c] = NoCall]
        <5>1. call' = [call EXCEPT ![c] = [call[c] EXCEPT !.at = "store"]]
          BY <4>3 DEF LoadBucket, Return, Step
        <5>2. /\ [call[c] EXCEPT !.at = "store"] \in CallShape
              /\ [call[c] EXCEPT !.at = "store"].map = None
              /\ [call[c] EXCEPT !.at = "store"].at = "store"
          BY <1>3, <3>2 DEF CallShape, CallSteps
        <5>3. QED
          BY <5>1, <5>2
      <4>4. QED
        BY <2>2, <4>1, <4>2, <4>3 DEF StoreBucket, Return
    <3>4. QED
      BY <1>1, <3>2, <3>3, Unmapped DEF Mapped, Entering
  <2>3. QED
    BY <2>1, <2>2
<1>5. TablesTyped' /\ Rates'
  <2>1. CASE StoreBucket(c)
    <3>1. call[c].speed \in Speeds
      BY <1>3 DEF CallShape
    <3>2. QED
      BY <1>1, <2>1, <3>1 DEF StoreBucket, TablesTyped, Rates
  <2>2. CASE UNCHANGED <<bucket, stale>>
    BY <1>1, <2>2 DEF TablesTyped, Rates
  <2>3. QED
    BY <2>1, <2>2 DEF ReadAlive, ReadSpeed, LoadBucket, tables, history
<1>6. SweepTyped' /\ DueLinked'
  BY <1>1 DEF SweepTyped, DueLinked
<1>7. QED
  BY <1>4, <1>5, <1>6 DEF MapsInv

\* ReleaseIP loads the map of the user.
LEMMA ReleaseStep == ASSUME LimiterInv, NEW c \in Callers, Release(c) PROVE LimiterInv'
<1> USE SameLoad DEF LimiterInv
<1> DEFINE r == [call[c] EXCEPT !.at = "drop", !.map = online[UserOf(c)]]
<1>1. /\ call' = [call EXCEPT ![c] = r] /\ call[c].at = "idle" /\ load.engine = "caddy"
      /\ online[UserOf(c)] # None /\ UserOf(c) \in Users
      /\ UNCHANGED <<load, tables, online, device, update, sweep, history>>
  BY LoadShape DEF Release, TablesTyped
<1>2. r \in CallShape /\ r.at = "drop" /\ r.map = online[UserOf(c)]
  BY <1>1 DEF MapsTyped, CallShape, CallSteps
<1> HIDE DEF r
<1>3. /\ call' \in [Callers -> CallShape] /\ call'[c] = r
      /\ \A d \in Callers : d # c => call'[d] = call[d]
  BY <1>1, <1>2 DEF MapsTyped
<1>4. call[c].map = None
  BY <1>1 DEF MapsTyped, Mapped
<1>5. TablesTyped' /\ Rates' /\ SweepTyped' /\ DueLinked'
  BY <1>1 DEF TablesTyped, Rates, SweepTyped, DueLinked, tables, history
<1>6. MapsTyped' /\ Engines'
  BY <1>1, <1>2, <1>3 DEF MapsTyped, Engines, Mapped
<1>7. Owners'
  BY <1>1, <1>2, <1>3 DEF Owners
<1>8. Cleared'
  BY <1>1, <1>2, <1>3, <1>4, NoneAssumption DEF Cleared, Live
<1>9. NoGhosts'
  BY <1>1, <1>2, <1>3 DEF NoGhosts
<1>10. \A d \in Callers : /\ Untried(d)' => Untried(d) /\ call'[d] = call[d]
                          /\ Admitting(d)' => Admitting(d)
  BY <1>1, <1>2, <1>3 DEF Untried, Admitting, Entering
<1>11. Alone'
  BY <1>1, <1>10 DEF Alone
<1>12. Unseen'
  BY <1>1, <1>10 DEF Unseen, Place
<1>13. QED
  BY <1>5, <1>6, <1>7, <1>8, <1>9, <1>11, <1>12

\* admit begins: a device that is neither known nor in another call is in no map.
LEMMA AdmitStep == ASSUME LimiterInv, NEW c \in Callers, Admit(c) PROVE LimiterInv'
<1> USE SameLoad DEF LimiterInv
<1> DEFINE limited == load.limit[UserOf(c)] > 0
           others == {d \in Callers \ {c} : limited /\ SameDevice(c, d) /\ Admitting(d)}
           k == limited /\ Known(UserOf(c), IpOf(c))
           r == [NoCall EXCEPT !.at = "alive", !.known = k, !.overlap = others # {}]
<1>1. /\ call[c].at = "idle" /\ UNCHANGED <<load, tables, online, device, update, sweep, history>>
      /\ call' = [d \in Callers |-> IF d = c THEN r
                                    ELSE IF d \in others THEN [call[d] EXCEPT !.overlap = TRUE]
                                    ELSE call[d]]
  BY DEF Admit
<1>2. /\ r \in CallShape /\ r.at = "alive" /\ r.map = None
      /\ r.known = k /\ r.overlap = (others # {})
  BY SpeedsAssumption DEF NoCall, CallShape, CallSteps
<1>3. call[c].map = None /\ UserOf(c) \in Users /\ IpOf(c) \in Ips
  BY <1>1, LoadShape DEF MapsTyped, Mapped, TablesTyped
<1>4. \A d \in Callers :
          /\ [call[d] EXCEPT !.overlap = TRUE] \in CallShape
          /\ [call[d] EXCEPT !.overlap = TRUE].at = call[d].at
          /\ [call[d] EXCEPT !.overlap = TRUE].map = call[d].map
          /\ [call[d] EXCEPT !.overlap = TRUE].known = call[d].known
          /\ [call[d] EXCEPT !.overlap = TRUE].overlap = TRUE
  BY ZenonT(60) DEF MapsTyped, CallShape
<1>5. \A d \in Callers : d \in others <=> d # c /\ limited /\ SameDevice(c, d) /\ Admitting(d)
  OBVIOUS
<1> HIDE DEF r, others, k
<1>6. /\ call' \in [Callers -> CallShape] /\ call'[c] = r
      /\ \A d \in Callers : d # c =>
            /\ call'[d].at = call[d].at /\ call'[d].map = call[d].map
            /\ call'[d].known = call[d].known
            /\ d \in others => call'[d].overlap = TRUE
            /\ d \notin others => call'[d] = call[d]
  BY <1>1, <1>2, <1>4 DEF MapsTyped
<1>7. TablesTyped' /\ Rates' /\ SweepTyped' /\ DueLinked'
  BY <1>1 DEF TablesTyped, Rates, SweepTyped, DueLinked, tables, history
<1>8. MapsTyped' /\ Engines'
  BY <1>1, <1>2, <1>6 DEF MapsTyped, Engines, Mapped, Releasing
<1>9. Owners'
  BY <1>1, <1>2, <1>6 DEF Owners
<1>10. Cleared'
  BY <1>1, <1>2, <1>3, <1>6 DEF Cleared, Live
<1>11. NoGhosts'
  BY <1>1, <1>6 DEF NoGhosts
<1>12. \A d \in Callers \ {c} : /\ Untried(d)' => Untried(d) /\ d \notin others
                                /\ Admitting(d)' <=> Admitting(d)
  BY <1>1, <1>6 DEF Untried, Admitting
<1>13. \A d \in Callers \ {c} : Untried(d)' /\ SameDevice(c, d) => ~Admitting(d)
  <2>1. \A d \in Callers \ {c} : Untried(d)' /\ SameDevice(c, d) => limited
    BY <1>1, <1>12, SameShape DEF Untried, TablesTyped
  <2>2. QED
    BY <1>5, <1>12, <2>1
<1>14. Untried(c)' => limited /\ others = {}
  BY <1>1, <1>2, <1>6 DEF Untried
<1>15. Alone'
  <2>1. \A d \in Callers \ {c} : Untried(d)' => d \notin others /\ Admitting(d)
    BY <1>12 DEF Untried, Admitting, Entering, CallSteps
  <2>2. \A d \in Callers \ {c} : SameDevice(c, d) <=> SameDevice(d, c)
    BY DEF SameDevice
  <2>3. QED
    BY <1>1, <1>5, <1>12, <1>13, <1>14, <2>1, <2>2 DEF Alone
<1>16. Unseen'
  <2>1. ASSUME Untried(c)', ~r.known, online[UserOf(c)] # None
        PROVE  device[online[UserOf(c)]][IpOf(c)] = "no"
    <3>1. limited /\ others = {} /\ ~Known(UserOf(c), IpOf(c))
      BY <1>2, <1>14, <2>1 DEF k
    <3>2. device[online[UserOf(c)]][IpOf(c)] # "kept"
      BY <2>1, <3>1 DEF Known
    <3>3. device[online[UserOf(c)]][IpOf(c)] # "asked"
      <4>1. SUFFICES ASSUME device[online[UserOf(c)]][IpOf(c)] = "asked" PROVE FALSE
        OBVIOUS
      <4>2. PICK d \in Callers : /\ call[d].map = online[UserOf(c)] /\ IpOf(d) = IpOf(c)
                                 /\ call[d].at \in Undecided
        BY <1>3, <2>1, <4>1 DEF NoGhosts, Undecided
      <4>3. UserOf(d) = UserOf(c) /\ d # c
        BY <1>3, <2>1, <4>2 DEF Owners
      <4>4. SameDevice(c, d) /\ Admitting(d)
        BY <4>2, <4>3, SameShape DEF Admitting, Undecided, CallSteps, TablesTyped
      <4>5. QED
        BY <1>5, <3>1, <4>3, <4>4
    <3>4. QED
      BY <1>3, <2>1, <3>2, <3>3 DEF MapsTyped, Marks
  <2>2. \A d \in Callers \ {c} : Untried(d)' => Place(d)' = Place(d)
    BY <1>1, <1>6 DEF Place
  <2>3. Place(c)' = online[UserOf(c)]
    BY <1>1, <1>2, <1>6 DEF Place
  <2>4. ASSUME NEW d \in Callers, Untried(d)', ~call'[d].known, Place(d)' # None
        PROVE  device'[Place(d)'][IpOf(d)] = "no"
    <3>1. CASE d = c
      BY <1>1, <1>6, <2>1, <2>3, <2>4, <3>1
    <3>2. CASE d # c
      BY <1>1, <1>6, <1>12, <2>2, <2>4, <3>2 DEF Unseen
    <3>3. QED
      BY <3>1, <3>2
  <2>5. QED
    BY <1>1, <2>4 DEF Unseen
<1>17. QED
  BY <1>7, <1>8, <1>9, <1>10, <1>11, <1>15, <1>16

-------------------------------------------------------------------------------
(***************************************************************************)
(* Steps on the maps of devices.                                           *)
(***************************************************************************)

\* Of the maps that are still referred to, only the entry of the call has changed.
Writes(c, x) ==
    /\ device' \in [Maps -> [Ips -> Marks]]
    /\ \A m \in Maps, ip \in Ips :
          device'[m][ip] = IF ~Live(m, online', call') THEN "no"
                           ELSE IF m = call[c].map /\ ip = IpOf(c) THEN x ELSE device[m][ip]

\* A call that holds a map writes at most its own entry of it, and unlinks at most
\* the entry of its own user.  What such a step must respect: it marks a device as
\* asked only if it goes on to decide, adds one only in an admission, and takes one
\* away that a report is due to find only if the report is told.
LEMMA MappedStep ==
    ASSUME LimiterInv, NEW c \in Callers, NEW r \in CallShape, NEW x \in Marks,
           call[c].at \in Mapped,
           UNCHANGED <<load, listed, speed, alive, bucket, update, sweep, stale>>,
           old' \in [Ips -> Users \cup {None}],
           call' = [call EXCEPT ![c] = r],
           online' \in {online, [online EXCEPT ![UserOf(c)] = None]},
           Writes(c, x),
           r.map # None <=> r.at \in Mapped, r.map \in {call[c].map, None},
           r.at \notin Entering,
           r.at \in CallSteps \ ({"idle"} \cup Releasing) => Admitting(c),
           r.at \in Releasing => call[c].at \in Releasing,
           x = "asked" => \/ r.at \in Undecided \/ online'[UserOf(c)] = None
                          \/ x = device[call[c].map][IpOf(c)] /\ call[c].at \notin Undecided,
           x = device[call[c].map][IpOf(c)] \/ x = "no" \/ Admitting(c),
           due' \subseteq due,
           sweep.at # "off" =>
               \A d \in due' :
                   /\ online'[UserOf(c)] # online[UserOf(c)] => d[1] # UserOf(c)
                   /\ x = "no" => d # load.device[c] \/ device[call[c].map][IpOf(c)] = "no"
    PROVE  LimiterInv'
<1> USE SameLoad, NoneAssumption DEF LimiterInv
<1>1. UserOf(c) \in Users /\ IpOf(c) \in Ips /\ call[c].map \in Maps
  BY LoadShape DEF TablesTyped, MapsTyped, CallShape
<1>2. /\ call' \in [Callers -> CallShape] /\ call'[c] = r
      /\ \A d \in Callers : d # c => call'[d] = call[d]
      /\ \A d \in Callers : call'[d].map \in {call[d].map, None}
  BY DEF MapsTyped
<1>3. /\ online' \in [Users -> Maps \cup {None}]
      /\ \A u \in Users : /\ online'[u] \in {online[u], None}
                          /\ u # UserOf(c) => online'[u] = online[u]
  BY <1>1 DEF MapsTyped
<1>4. /\ device' \in [Maps -> [Ips -> Marks]]
      /\ \A m \in Maps : ~Live(m, online', call') => device'[m] = NoDevices
      /\ \A m \in Maps, ip \in Ips : ~Live(m, online', call') => device'[m][ip] = "no"
      /\ Live(call[c].map, online', call') => device'[call[c].map][IpOf(c)] = x
      /\ \A m \in Maps, ip \in Ips :
            Live(m, online', call') /\ (m # call[c].map \/ ip # IpOf(c)) =>
                device'[m][ip] = device[m][ip]
  BY <1>1 DEF Writes, NoDevices
<1>5. TablesTyped' /\ Rates'
  BY DEF TablesTyped, Rates
<1>6. MapsTyped' /\ Engines'
  BY <1>2, <1>3, <1>4 DEF MapsTyped, Engines
<1>7. SweepTyped'
  BY DEF SweepTyped
<1>8. Owners'
  BY <1>2, <1>3 DEF Owners
<1>9. Cleared'
  BY <1>4 DEF Cleared
<1>10. NoGhosts'
  <2>1. ASSUME NEW u \in Users, NEW ip \in Ips, online'[u] # None,
               device'[online'[u]][ip] = "asked"
        PROVE  \E d \in Callers : /\ call'[d].map = online'[u] /\ IpOf(d) = ip
                                  /\ call'[d].at \in Undecided
    <3>1. online'[u] = online[u] /\ online[u] \in Maps /\ Live(online[u], online', call')
      BY <1>3, <2>1 DEF Live, MapsTyped
    <3>2. CASE online[u] = call[c].map /\ ip = IpOf(c)
      <4>1. x = "asked" /\ u = UserOf(c)
        BY <1>1, <1>4, <2>1, <3>1, <3>2 DEF Owners
      <4>2. CASE r.at \in Undecided
        <5>1. r.map = call[c].map
          BY <4>2 DEF Undecided, Mapped
        <5>2. QED
          BY <1>2, <3>1, <3>2, <4>2, <5>1
      <4>3. CASE r.at \notin Undecided
        <5>1. device[online[u]][ip] = "asked" /\ call[c].at \notin Undecided
          BY <2>1, <3>2, <4>1, <4>3
        <5>2. PICK d \in Callers : /\ call[d].map = online[u] /\ IpOf(d) = ip
                                   /\ call[d].at \in Undecided
          BY <2>1, <3>1, <5>1 DEF NoGhosts, Undecided
        <5>3. QED
          BY <1>2, <3>1, <5>1, <5>2
      <4>4. QED
        BY <4>2, <4>3
    <3>3. CASE ~(online[u] = call[c].map /\ ip = IpOf(c))
      <4>1. device[online[u]][ip] = "asked"
        <5>1. device'[online[u]][ip] = device[online[u]][ip]
          BY <1>4, <3>1, <3>3
        <5>2. QED
          BY <2>1, <3>1, <5>1
      <4>2. PICK d \in Callers : /\ call[d].map = online[u] /\ IpOf(d) = ip
                                 /\ call[d].at \in Undecided
        BY <2>1, <3>1, <4>1 DEF NoGhosts, Undecided
      <4>3. QED
        BY <1>2, <3>1, <3>3, <4>2
    <3>4. QED
      BY <3>2, <3>3
  <2>2. \A d \in Callers : IpOf(d)' = IpOf(d)
    OBVIOUS
  <2>3. QED
    BY ONLY <2>1, <2>2 DEF NoGhosts, Undecided
<1>11. DueLinked'
  <2>1. SUFFICES ASSUME sweep.at # "off", NEW d \in due'
                 PROVE  /\ d[1] \in sweep.todo /\ online'[d[1]] # None
                        /\ device'[online'[d[1]]][d[2]] # "no"
    BY DEF DueLinked
  <2>2. /\ d \in due /\ d[1] \in sweep.todo /\ online[d[1]] # None
        /\ device[online[d[1]]][d[2]] # "no"
    BY <2>1 DEF DueLinked
  <2>3. d \in Users \X Ips /\ d = <<d[1], d[2]>> /\ d[1] \in Users /\ d[2] \in Ips
    BY <2>2 DEF SweepTyped
  <2>4. online'[d[1]] = online[d[1]] /\ online[d[1]] \in Maps
    BY <1>3, <2>1, <2>2, <2>3 DEF MapsTyped
  <2>5. Live(online[d[1]], online', call')
    BY <2>3, <2>4 DEF Live
  <2>6. CASE online[d[1]] = call[c].map /\ d[2] = IpOf(c)
    <3>1. d[1] = UserOf(c)
      BY <1>1, <2>3, <2>6 DEF Owners
    <3>2. d = load.device[c]
      BY <2>3, <2>6, <3>1, LoadShape DEF TablesTyped
    <3>3. x # "no"
      BY <2>1, <2>2, <2>6, <3>2
    <3>4. QED
      BY <1>4, <2>2, <2>3, <2>4, <2>5, <2>6, <3>3
  <2>7. CASE ~(online[d[1]] = call[c].map /\ d[2] = IpOf(c))
    <3>1. device'[online[d[1]]][d[2]] = device[online[d[1]]][d[2]]
      BY <1>4, <2>3, <2>4, <2>5, <2>7
    <3>2. QED
      BY <2>2, <2>4, <3>1
  <2>8. QED
    BY <2>6, <2>7
<1>12. \A d \in Callers : /\ Untried(d)' => d # c /\ Untried(d) /\ call'[d] = call[d]
                          /\ Admitting(d)' => Admitting(d)
  BY <1>2 DEF Untried, Admitting, Releasing, CallShape
<1>13. Alone'
  BY <1>12 DEF Alone
<1>14. Unseen'
  <2>1. SUFFICES ASSUME NEW d \in Callers, Untried(d)', ~call'[d].known, Place(d)' # None
                 PROVE  device'[Place(d)'][IpOf(d)] = "no"
    BY DEF Unseen
  <2>2. d # c /\ Untried(d) /\ ~call[d].known /\ call'[d] = call[d]
    BY <1>12, <2>1
  <2>3. UserOf(d) \in Users /\ IpOf(d) \in Ips
    BY LoadShape DEF TablesTyped
  <2>4. Place(d)' = Place(d) /\ Place(d) \in Maps
    <3>1. call[d].map \in Maps \cup {None} /\ online[UserOf(d)] \in Maps \cup {None}
      BY <2>3 DEF MapsTyped, CallShape
    <3>2. Place(d)' \in {Place(d), None}
      BY <1>3, <2>2, <2>3 DEF Place
    <3>3. QED
      BY <2>1, <3>1, <3>2 DEF Place
  <2>5. device[Place(d)][IpOf(d)] = "no"
    BY <2>1, <2>2, <2>4 DEF Unseen
  <2>6. CASE Place(d) = call[c].map /\ IpOf(d) = IpOf(c)
    <3>1. UserOf(c) = UserOf(d)
      BY <1>1, <2>3, <2>4, <2>6 DEF Owners, Place
    <3>2. SameDevice(d, c)
      BY <2>6, <3>1, SameShape DEF TablesTyped
    <3>3. ~Admitting(c)
      BY <2>2, <3>2 DEF Alone
    <3>4. x = "no"
      BY <2>5, <2>6, <3>3
    <3>5. QED
      BY <1>1, <1>4, <2>3, <2>4, <2>6, <3>4
  <2>7. CASE ~(Place(d) = call[c].map /\ IpOf(d) = IpOf(c))
    <3>1. CASE Live(Place(d), online', call')
      <4>1. device'[Place(d)][IpOf(d)] = device[Place(d)][IpOf(d)]
        BY <1>4, <2>3, <2>4, <2>7, <3>1
      <4>2. QED
        BY <2>4, <2>5, <4>1
    <3>2. CASE ~Live(Place(d), online', call')
      <4>1. device'[Place(d)][IpOf(d)] = "no"
        BY <1>4, <2>3, <2>4, <3>2
      <4>2. QED
        BY <2>4, <4>1
    <3>3. QED
      BY <3>1, <3>2
  <2>8. QED
    BY <2>6, <2>7
<1>15. QED
  BY <1>5, <1>6, <1>7, <1>8, <1>9, <1>10, <1>11, <1>13, <1>14

\* The caller of a step on a map.
LEMMA Holder ==
    ASSUME LimiterInv, NEW c \in Callers, call[c].at \in Mapped
    PROVE  /\ call[c].map \in Maps /\ UserOf(c) \in Users /\ IpOf(c) \in Ips
           /\ call[c] \in CallShape /\ call \in [Callers -> CallShape]
           /\ device[call[c].map][IpOf(c)] \in Marks
<1>1. UserOf(c) \in Users /\ IpOf(c) \in Ips
  BY LoadShape DEF LimiterInv, TablesTyped
<1>2. call[c].map \in Maps /\ call[c] \in CallShape /\ call \in [Callers -> CallShape]
  BY DEF LimiterInv, MapsTyped, CallShape
<1>3. QED
  BY <1>1, <1>2 DEF LimiterInv, MapsTyped

\* What a call is that returns.
LEMMA Returned == NoCall \in CallShape /\ NoCall.at = "idle" /\ NoCall.map = None
BY SpeedsAssumption DEF CallShape, NoCall, CallSteps

\* What Becomes says of the entries, where a call writes its own ...
LEMMA Written ==
    ASSUME LimiterInv, NEW c \in Callers, call[c].at \in Mapped, NEW x \in Marks,
           device' = [m \in Maps |->
                         IF Live(m, online', call')
                           THEN [device EXCEPT ![call[c].map][IpOf(c)] = x][m] ELSE NoDevices]
    PROVE  Writes(c, x)
<1>1. call[c].map \in Maps /\ IpOf(c) \in Ips /\ device \in [Maps -> [Ips -> Marks]]
  BY Holder DEF LimiterInv, MapsTyped
<1>2. NoDevices \in [Ips -> Marks] /\ \A ip \in Ips : NoDevices[ip] = "no"
  BY DEF NoDevices, Marks
<1>3. QED
  BY <1>1, <1>2 DEF Writes

\* ... and where it writes none.
LEMMA Untouched ==
    ASSUME LimiterInv, NEW c \in Callers, call[c].at \in Mapped,
           device' = [m \in Maps |-> IF Live(m, online', call') THEN device[m] ELSE NoDevices]
    PROVE  Writes(c, device[call[c].map][IpOf(c)])
<1>1. call[c].map \in Maps /\ IpOf(c) \in Ips /\ device \in [Maps -> [Ips -> Marks]]
  BY Holder DEF LimiterInv, MapsTyped
<1>2. NoDevices \in [Ips -> Marks] /\ \A ip \in Ips : NoDevices[ip] = "no"
  BY DEF NoDevices, Marks
<1>3. QED
  BY <1>1, <1>2 DEF Writes

\* An accepted device is kept if it is still there.
LEMMA AcceptStep ==
    ASSUME LimiterInv, NEW c \in Callers, call[c].at \in {"join", "check", "forget"}, Accept(c),
           UNCHANGED <<load, listed, speed, alive, bucket, update, sweep, stale, due>>,
           old' \in [Ips -> Users \cup {None}]
    PROVE  LimiterInv'
<1> DEFINE x == IF device[call[c].map][IpOf(c)] = "no" THEN "no" ELSE "kept"
           r == IF load.engine = "legacy"
                  THEN [NoCall EXCEPT !.at = "speed", !.info = call[c].info] ELSE NoCall
<1>1. call[c].at \in Mapped /\ Admitting(c)
  BY DEF Mapped, Admitting, CallSteps
<1>2. call[c].info \in Speeds \cup {None} /\ call[c].map \in Maps /\ IpOf(c) \in Ips
  BY <1>1, Holder DEF CallShape
<1>3. r \in CallShape /\ r.map = None /\ r.at \in {"idle", "speed"}
  BY <1>2, SpeedsAssumption DEF NoCall, CallShape, CallSteps
<1>4. x \in Marks /\ x # "asked" /\ (x = "no" => device[call[c].map][IpOf(c)] = "no")
  BY DEF Marks
<1>5. [device EXCEPT ![call[c].map][IpOf(c)] = IF @ = "no" THEN "no" ELSE "kept"]
        = [device EXCEPT ![call[c].map][IpOf(c)] = x]
  BY <1>2 DEF LimiterInv, MapsTyped
<1>6. online' = online /\ call' = [call EXCEPT ![c] = r]
  BY DEF Accept, Becomes, Return
<1>7. device' = [m \in Maps |->
                    IF Live(m, online', call')
                      THEN [device EXCEPT ![call[c].map][IpOf(c)] = x][m] ELSE NoDevices]
  <2>1. CASE load.engine = "legacy"
    BY <1>5, <2>1 DEF Accept, Becomes
  <2>2. CASE load.engine # "legacy"
    BY <1>5, <2>2 DEF Accept, Becomes
  <2>3. QED
    BY <2>1, <2>2
<1> HIDE DEF x, r
<1>8. Writes(c, x)
  BY <1>1, <1>4, <1>7, Written
<1>9. r.at \notin Mapped \cup Entering \cup Releasing
  BY <1>3 DEF Mapped, Entering, Releasing
<1>10. QED
  BY <1>1, <1>3, <1>4, <1>6, <1>8, <1>9, MappedStep

\* LoadOrStore of the device in the map of the others.
LEMMA JoinStep == ASSUME LimiterInv, NEW c \in Callers, Join(c) PROVE LimiterInv'
<1>1. /\ call[c].at = "join" /\ call[c].at \in Mapped /\ Admitting(c)
      /\ UNCHANGED <<load, listed, speed, alive, bucket, update, sweep, stale, due, old>>
  BY DEF Join, Mapped, Admitting, CallSteps, tables, history
<1>2. old' \in [Ips -> Users \cup {None}]
  BY <1>1 DEF LimiterInv, SweepTyped
<1>3. CASE device[call[c].map][IpOf(c)] # "no"
  BY <1>1, <1>2, <1>3, AcceptStep DEF Join
<1>4. CASE device[call[c].map][IpOf(c)] = "no"
  <2> DEFINE r == [call[c] EXCEPT !.at = "check"]
  <2>1. online' = online /\ call' = [call EXCEPT ![c] = r]
    BY <1>1, <1>4 DEF Join, Becomes, Step
  <2>2. device' = [m \in Maps |->
                      IF Live(m, online', call')
                        THEN [device EXCEPT ![call[c].map][IpOf(c)] = "asked"][m] ELSE NoDevices]
    BY <1>1, <1>4 DEF Join, Becomes
  <2>3. Writes(c, "asked") /\ "asked" \in Marks
    BY <1>1, <2>2, Written DEF Marks
  <2>4. r \in CallShape /\ r.at = "check" /\ r.map = call[c].map /\ r.map # None
    <3>1. call[c] \in CallShape /\ call[c].map # None
      BY <1>1, Holder, NoneAssumption
    <3>2. QED
      BY <3>1 DEF CallShape, CallSteps
  <2> HIDE DEF r
  <2>5. r.at \in Mapped \cap Undecided /\ r.at \notin Entering \cup Releasing
    BY <2>4 DEF Mapped, Undecided, Entering, Releasing
  <2>6. QED
    BY <1>1, <1>2, <2>1, <2>3, <2>4, <2>5, MappedStep
<1>5. QED
  BY <1>3, <1>4

\* A step of a call that only moves it on: what the last report says of the
\* address, and what Range of ReleaseIP finds.
LEMMA MoveStep ==
    ASSUME LimiterInv, NEW c \in Callers, NEW r \in CallShape,
           online' = online, call' = [call EXCEPT ![c] = r],
           device' = [m \in Maps |-> IF Live(m, online', call') THEN device[m] ELSE NoDevices],
           UNCHANGED <<load, tables, update, sweep, history>>,
           \/ call[c].at = "check" /\ r.at \in {"forget", "undo"} /\ r.map = call[c].map
           \/ call[c].at = "range" /\ r.at = "clear" /\ r.map = call[c].map
           \/ call[c].at = "range" /\ r.at = "idle" /\ r.map = None
    PROVE  LimiterInv'
<1> DEFINE x == device[call[c].map][IpOf(c)]
<1>1. call[c].at \in Mapped /\ (call[c].at = "check" => Admitting(c))
  BY DEF Mapped, Admitting, CallSteps
<1>2. Writes(c, x) /\ x \in Marks /\ call[c].map # None
  BY <1>1, Untouched, Holder, NoneAssumption
<1>3. /\ UNCHANGED <<load, listed, speed, alive, bucket, update, sweep, stale, due, old>>
      /\ old' \in [Ips -> Users \cup {None}]
  BY DEF LimiterInv, SweepTyped, tables, history
<1> HIDE DEF x
<1>4. /\ r.map # None <=> r.at \in Mapped
      /\ r.map \in {call[c].map, None} /\ r.at \notin Entering
      /\ r.at \in Undecided \/ call[c].at \notin Undecided
      /\ r.at \in Releasing => call[c].at \in Releasing
      /\ r.at \in CallSteps \ ({"idle"} \cup Releasing) => Admitting(c)
  BY <1>1, <1>2 DEF Mapped, Entering, Undecided, Releasing
<1>5. x = device[call[c].map][IpOf(c)]
  BY DEF x
<1>6. QED
  BY <1>1, <1>2, <1>3, <1>4, <1>5, MappedStep

\* OldUserOnline decides before the limit does.
LEMMA CheckOldStep == ASSUME LimiterInv, NEW c \in Callers, CheckOld(c) PROVE LimiterInv'
<1>1. call[c].at = "check" /\ UNCHANGED <<load, tables, update, sweep, history>>
  BY DEF CheckOld
<1>2. CASE Accept(c)
  <2>1. /\ UNCHANGED <<load, listed, speed, alive, bucket, update, sweep, stale, due>>
        /\ old' \in [Ips -> Users \cup {None}]
    BY <1>1 DEF LimiterInv, SweepTyped, tables, history
  <2>2. QED
    BY <1>1, <1>2, <2>1, AcceptStep
<1>3. ASSUME NEW at \in {"forget", "undo"}, Becomes(online, device, Step(c, at))
      PROVE  LimiterInv'
  <2> DEFINE r == [call[c] EXCEPT !.at = at]
  <2>1. /\ online' = online /\ call' = [call EXCEPT ![c] = r]
        /\ device' = [m \in Maps |-> IF Live(m, online', call') THEN device[m] ELSE NoDevices]
    BY <1>3 DEF Becomes, Step
  <2>2. r \in CallShape /\ r.at = at /\ r.map = call[c].map
    <3>1. call[c] \in CallShape
      BY <1>1, Holder DEF Mapped
    <3>2. QED
      BY <3>1 DEF CallShape, CallSteps
  <2> HIDE DEF r
  <2>3. QED
    BY <1>1, <2>1, <2>2, MoveStep
<1>4. QED
  BY <1>2, <1>3 DEF CheckOld

\* The address is no longer one the last report has seen.
LEMMA ForgetStep == ASSUME LimiterInv, NEW c \in Callers, Forget(c) PROVE LimiterInv'
<1>1. old' \in [Ips -> Users \cup {None}]
  BY DEF Forget, LimiterInv, SweepTyped
<1>2. QED
  BY <1>1, AcceptStep DEF Forget, history

\* Range of ReleaseIP.
LEMMA RangeStep == ASSUME LimiterInv, NEW c \in Callers, Range(c) PROVE LimiterInv'
<1>1. call[c].at = "range" /\ UNCHANGED <<load, tables, update, sweep, history>>
  BY DEF Range
<1>2. call[c] \in CallShape
  BY <1>1, Holder DEF Mapped
<1>3. CASE device[call[c].map] = NoDevices
  <2> DEFINE r == [call[c] EXCEPT !.at = "clear"]
  <2>1. r \in CallShape /\ r.at = "clear" /\ r.map = call[c].map
    BY <1>2 DEF CallShape, CallSteps
  <2>2. /\ online' = online /\ call' = [call EXCEPT ![c] = r]
        /\ device' = [m \in Maps |-> IF Live(m, online', call') THEN device[m] ELSE NoDevices]
    BY <1>3 DEF Range, Becomes, Step
  <2> HIDE DEF r
  <2>3. QED
    BY <1>1, <2>1, <2>2, MoveStep
<1>4. CASE device[call[c].map] # NoDevices
  <2>1. /\ online' = online /\ call' = [call EXCEPT ![c] = NoCall]
        /\ device' = [m \in Maps |-> IF Live(m, online', call') THEN device[m] ELSE NoDevices]
    BY <1>4 DEF Range, Becomes, Return
  <2>2. QED
    BY <1>1, <2>1, Returned, MoveStep
<1>5. QED
  BY <1>3, <1>4

\* Delete of the device in ReleaseIP.
LEMMA DropStep == ASSUME LimiterInv, NEW c \in Callers, Drop(c) PROVE LimiterInv'
<1> DEFINE r == [call[c] EXCEPT !.at = "range"]
<1>1. /\ call[c].at = "drop" /\ call[c].at \in Mapped \cap Releasing
      /\ UNCHANGED <<load, listed, speed, alive, bucket, update, sweep, stale, due, old>>
  BY DEF Drop, Mapped, Releasing, tables, history
<1>2. old' \in [Ips -> Users \cup {None}] /\ sweep.at = "off"
  BY <1>1 DEF LimiterInv, SweepTyped, Engines
<1>3. online' = online /\ call' = [call EXCEPT ![c] = r]
  BY DEF Drop, Becomes, Step
<1>4. device' = [m \in Maps |->
                    IF Live(m, online', call')
                      THEN [device EXCEPT ![call[c].map][IpOf(c)] = "no"][m] ELSE NoDevices]
  BY DEF Drop, Becomes
<1>5. Writes(c, "no") /\ "no" \in Marks
  BY <1>1, <1>4, Written DEF Marks
<1>6. r \in CallShape /\ r.at = "range" /\ r.map = call[c].map /\ r.map # None
  <2>1. call[c] \in CallShape /\ call[c].map # None
    BY <1>1, Holder, NoneAssumption
  <2>2. QED
    BY <2>1 DEF CallShape, CallSteps
<1> HIDE DEF r
<1>7. r.at \in Mapped \cap Releasing /\ r.at \notin Entering
  BY <1>6 DEF Mapped, Releasing, Entering
<1>8. QED
  BY <1>1, <1>2, <1>3, <1>5, <1>6, <1>7, MappedStep

\* A call that ends by unlinking whatever map its user has: ReleaseIP, and a
\* refusal that had stored the map.
LEMMA UnlinkStep ==
    ASSUME LimiterInv, NEW c \in Callers, call[c].at \in {"undo", "clear"},
           online' = [online EXCEPT ![UserOf(c)] = None], call' = [call EXCEPT ![c] = NoCall],
           device' = [m \in Maps |-> IF Live(m, online', call') THEN device[m] ELSE NoDevices],
           UNCHANGED <<load, tables, update, sweep, stale>>, due' \subseteq due,
           sweep.at # "off" => \A d \in due' : d[1] # UserOf(c)
    PROVE  LimiterInv'
<1> DEFINE x == device[call[c].map][IpOf(c)]
<1>1. call[c].at \in Mapped
  BY DEF Mapped
<1>2. Writes(c, x) /\ x \in Marks
  BY <1>1, Untouched, Holder
<1>3. /\ UNCHANGED <<load, listed, speed, alive, bucket, update, sweep, stale>>
      /\ old' \in [Ips -> Users \cup {None}]
  BY DEF LimiterInv, SweepTyped, tables
<1>4. online'[UserOf(c)] = None
  BY <1>1, Holder DEF LimiterInv, MapsTyped
<1>5. NoCall.at \notin Mapped \cup Entering \cup Releasing
  BY Returned DEF Mapped, Entering, Releasing
<1>6. x = device[call[c].map][IpOf(c)]
  OBVIOUS
<1> HIDE DEF x
<1>7. QED
  BY <1>1, <1>2, <1>3, <1>4, <1>5, <1>6, Returned, MappedStep

\* The entry of the user goes.
LEMMA ClearStep == ASSUME LimiterInv, NEW c \in Callers, Clear(c) PROVE LimiterInv'
<1>1. /\ call[c].at = "clear" /\ UNCHANGED <<load, tables, update, sweep, stale, due>>
      /\ online' = [online EXCEPT ![UserOf(c)] = None] /\ call' = [call EXCEPT ![c] = NoCall]
      /\ device' = [m \in Maps |-> IF Live(m, online', call') THEN device[m] ELSE NoDevices]
  BY DEF Clear, Becomes, Return, history
<1>2. sweep.at = "off"
  BY <1>1 DEF LimiterInv, SweepTyped, Engines, Releasing
<1>3. QED
  BY <1>1, <1>2, UnlinkStep

\* A refusal takes the device back, or the map that it was entered with.
LEMMA UndoStep == ASSUME LimiterInv, NEW c \in Callers, Undo(c) PROVE LimiterInv'
<1>1. /\ call[c].at = "undo" /\ UNCHANGED <<load, tables, update, sweep, stale>>
      /\ due' \subseteq due /\ call[c].at \in Mapped /\ Admitting(c)
  BY DEF Undo, Mapped, Admitting, CallSteps
<1>2. CASE call[c].fresh
  <2>1. /\ online' = [online EXCEPT ![UserOf(c)] = None] /\ call' = [call EXCEPT ![c] = NoCall]
        /\ device' = [m \in Maps |-> IF Live(m, online', call') THEN device[m] ELSE NoDevices]
    BY <1>2 DEF Undo, TakeBack, Becomes, Return
  <2>2. \A d \in due' : d[1] # UserOf(c)
    BY <1>2 DEF Undo
  <2>3. QED
    BY <1>1, <2>1, <2>2, UnlinkStep
<1>3. CASE ~call[c].fresh
  <2>1. online' = online /\ call' = [call EXCEPT ![c] = NoCall]
    BY <1>3 DEF Undo, TakeBack, Becomes, Return
  <2>2. device' = [m \in Maps |->
                      IF Live(m, online', call')
                        THEN [device EXCEPT ![call[c].map][IpOf(c)] = "no"][m] ELSE NoDevices]
    BY <1>3 DEF Undo, TakeBack, Becomes
  <2>3. Writes(c, "no") /\ "no" \in Marks
    BY <1>1, <2>2, Written DEF Marks
  <2>4. \A d \in due' : d # load.device[c]
    BY <1>3 DEF Undo
  <2>5. /\ UNCHANGED <<load, listed, speed, alive, bucket, update, sweep, stale>>
        /\ old' \in [Ips -> Users \cup {None}]
    BY <1>1 DEF LimiterInv, SweepTyped, tables
  <2>6. NoCall.at \notin Mapped \cup Entering \cup Releasing
    BY Returned DEF Mapped, Entering, Releasing
  <2>7. QED
    BY <1>1, <2>1, <2>3, <2>4, <2>5, <2>6, Returned, MappedStep
<1>4. QED
  BY <1>2, <1>3

\* DeleteOnline of UpdateUsers and Remove of GetOnlineDevice unlink the map of a
\* user that the report need not visit any more.
LEMMA ForcedUnlink ==
    ASSUME LimiterInv, NEW u \in Users,
           online' = [online EXCEPT ![u] = None], call' = call, load' = load,
           device' = [m \in Maps |-> IF Live(m, online', call') THEN device[m] ELSE NoDevices]
    PROVE  /\ MapsInv'
           /\ \A v \in Users, ip \in Ips :
                 v # u /\ online[v] # None =>
                     online'[v] = online[v] /\ device'[online[v]][ip] = device[online[v]][ip]
<1> USE SameLoad, NoneAssumption DEF LimiterInv
<1>1. /\ online' \in [Users -> Maps \cup {None}] /\ online'[u] = None
      /\ \A v \in Users : online'[v] \in {online[v], None} /\ (v # u => online'[v] = online[v])
  BY DEF MapsTyped
<1>2. NoDevices \in [Ips -> Marks] /\ \A ip \in Ips : NoDevices[ip] = "no"
  BY DEF NoDevices, Marks
<1>3. /\ device' \in [Maps -> [Ips -> Marks]]
      /\ \A m \in Maps : Live(m, online', call') => device'[m] = device[m]
      /\ \A m \in Maps : ~Live(m, online', call') => device'[m] = NoDevices
  BY <1>2 DEF MapsTyped
<1>4. MapsTyped' /\ Engines' /\ Owners' /\ Cleared'
  <2>1. MapsTyped' /\ Engines'
    BY <1>1, <1>3 DEF MapsTyped, Engines
  <2>2. Owners'
    BY <1>1 DEF Owners
  <2>3. Cleared'
    BY <1>3 DEF Cleared
  <2>4. QED
    BY <2>1, <2>2, <2>3
<1>5. \A v \in Users : online'[v] # None =>
          /\ online'[v] = online[v] /\ online[v] \in Maps
          /\ device'[online[v]] = device[online[v]]
  BY <1>1, <1>3 DEF Live, MapsTyped
<1>6. NoGhosts'
  <2>1. ASSUME NEW v \in Users, NEW ip \in Ips, online'[v] # None,
               device'[online'[v]][ip] = "asked"
        PROVE  \E c \in Callers : /\ call'[c].map = online'[v] /\ IpOf(c) = ip
                                  /\ call'[c].at \in Undecided
    <3>1. online[v] # None /\ device[online[v]][ip] = "asked" /\ online'[v] = online[v]
      BY <1>5, <2>1
    <3>2. QED
      BY <3>1 DEF NoGhosts, Undecided
  <2>2. \A c \in Callers : IpOf(c)' = IpOf(c)
    OBVIOUS
  <2>3. QED
    BY ONLY <2>1, <2>2 DEF NoGhosts, Undecided
<1>7. Alone'
  BY DEF Alone, Untried, Admitting
<1>8. Unseen'
  <2>1. SUFFICES ASSUME NEW d \in Callers, Untried(d)', ~call[d].known, Place(d)' # None
                 PROVE  device'[Place(d)'][IpOf(d)] = "no"
    BY DEF Unseen
  <2>2. UserOf(d) \in Users /\ IpOf(d) \in Ips /\ Untried(d)
    BY <2>1, LoadShape DEF TablesTyped, Untried
  <2>3. Place(d)' = Place(d) /\ Place(d) \in Maps
    <3>1. call[d].map \in Maps \cup {None} /\ online[UserOf(d)] \in Maps \cup {None}
      BY <2>2 DEF MapsTyped, CallShape
    <3>2. Place(d)' \in {Place(d), None}
      BY <1>1, <2>2 DEF Place
    <3>3. QED
      BY <2>1, <3>1, <3>2 DEF Place
  <2>4. device[Place(d)][IpOf(d)] = "no"
    BY <2>1, <2>2, <2>3 DEF Unseen
  <2>5. device'[Place(d)][IpOf(d)] = "no"
    BY <1>2, <1>3, <2>2, <2>3, <2>4
  <2>6. QED
    BY <2>3, <2>5
<1>9. \A v \in Users, ip \in Ips :
          v # u /\ online[v] # None =>
              online'[v] = online[v] /\ device'[online[v]][ip] = device[online[v]][ip]
  BY <1>1, <1>5
<1>10. QED
  BY <1>4, <1>6, <1>7, <1>8, <1>9 DEF MapsInv

\* A user that has left the list loses its devices, and the report need not find them.
LEMMA DeleteOnlineStep == ASSUME LimiterInv, DeleteOnline PROVE LimiterInv'
<1> USE DEF LimiterInv
<1> DEFINE u == update.user
<1>1. /\ u \in Users /\ update.at = "online"
      /\ online' = [online EXCEPT ![u] = None] /\ call' = call
      /\ device' = [m \in Maps |-> IF Live(m, online', call') THEN device[m] ELSE NoDevices]
      /\ update' = [update EXCEPT !.at = "bucket"] /\ due' = {d \in due : d[1] # u}
      /\ UNCHANGED <<load, tables, sweep, stale>>
  BY DEF DeleteOnline, Becomes, TablesTyped
<1>2. update' \in UpdateShape /\ update'.at = "bucket" /\ update'.user = u
  BY <1>1 DEF TablesTyped, UpdateShape
<1> HIDE DEF u
<1>3. TablesTyped' /\ Rates'
  BY <1>1, <1>2 DEF TablesTyped, Rates, tables
<1>4. /\ MapsInv'
      /\ \A v \in Users, ip \in Ips :
            v # u /\ online[v] # None =>
                online'[v] = online[v] /\ device'[online[v]][ip] = device[online[v]][ip]
  BY <1>1, ForcedUnlink
<1>5. SweepTyped'
  BY <1>1 DEF SweepTyped, tables
<1>6. DueLinked'
  <2>1. SUFFICES ASSUME sweep.at # "off", NEW d \in due'
                 PROVE  /\ d[1] \in sweep.todo /\ online'[d[1]] # None
                        /\ device'[online'[d[1]]][d[2]] # "no"
    BY <1>1 DEF DueLinked
  <2>2. /\ d \in due /\ d[1] \in sweep.todo /\ online[d[1]] # None
        /\ device[online[d[1]]][d[2]] # "no"
    BY <1>1, <2>1 DEF DueLinked
  <2>3. d[1] \in Users /\ d[2] \in Ips /\ d[1] # u
    BY <1>1, <2>1, <2>2 DEF SweepTyped
  <2>4. online'[d[1]] = online[d[1]] /\ device'[online[d[1]]][d[2]] = device[online[d[1]]][d[2]]
    BY <1>4, <2>2, <2>3
  <2>5. QED
    BY <2>2, <2>4
<1>7. QED
  BY <1>3, <1>4, <1>5, <1>6 DEF MapsInv

\* The report deletes the entry of the user it has collected.
LEMMA RemoveStep == ASSUME LimiterInv, Remove PROVE LimiterInv'
<1> USE DEF LimiterInv
<1> DEFINE u == sweep.user
<1>1. /\ u \in Users \ sweep.todo /\ sweep.at = "remove"
      /\ online' = [online EXCEPT ![u] = None] /\ call' = call
      /\ device' = [m \in Maps |-> IF Live(m, online', call') THEN device[m] ELSE NoDevices]
      /\ sweep' = [sweep EXCEPT !.at = "range", !.user = None]
      /\ UNCHANGED <<load, tables, update, history>>
  BY DEF Remove, Becomes, SweepTyped
<1>2. sweep' \in SweepShape /\ sweep'.at = "range" /\ sweep'.todo = sweep.todo
  BY <1>1 DEF SweepTyped, SweepShape
<1> HIDE DEF u
<1>3. TablesTyped' /\ Rates'
  BY <1>1 DEF TablesTyped, Rates, tables, history
<1>4. /\ MapsInv'
      /\ \A v \in Users, ip \in Ips :
            v # u /\ online[v] # None =>
                online'[v] = online[v] /\ device'[online[v]][ip] = device[online[v]][ip]
  BY <1>1, ForcedUnlink
<1>5. SweepTyped'
  BY <1>1, <1>2 DEF SweepTyped, tables, history
<1>6. DueLinked'
  <2>1. SUFFICES ASSUME sweep.at # "off", NEW d \in due'
                 PROVE  /\ d[1] \in sweep.todo /\ online'[d[1]] # None
                        /\ device'[online'[d[1]]][d[2]] # "no"
    BY <1>1, <1>2 DEF DueLinked, history
  <2>2. /\ d \in due /\ d[1] \in sweep.todo /\ online[d[1]] # None
        /\ device[online[d[1]]][d[2]] # "no"
    BY <1>1, <2>1 DEF DueLinked, history
  <2>3. d[1] \in Users /\ d[2] \in Ips /\ d[1] # u
    BY <1>1, <2>1, <2>2 DEF SweepTyped
  <2>4. online'[d[1]] = online[d[1]] /\ device'[online[d[1]]][d[2]] = device[online[d[1]]][d[2]]
    BY <1>4, <2>2, <2>3
  <2>5. QED
    BY <2>2, <2>4
<1>7. QED
  BY <1>3, <1>4, <1>5, <1>6 DEF MapsInv

\* LoadOrStore finds the map of the user ...
LEMMA EnterOld ==
    ASSUME LimiterInv, NEW c \in Callers, Enter(c), online[UserOf(c)] # None
    PROVE  LimiterInv'
<1> USE SameLoad, NoneAssumption DEF LimiterInv
<1> DEFINE u == UserOf(c)
           r == [call[c] EXCEPT !.at = "join", !.map = online[u]]
<1>1. /\ call[c].at = "enter" /\ online' = online /\ call' = [call EXCEPT ![c] = r]
      /\ device' = [m \in Maps |-> IF Live(m, online', call') THEN device[m] ELSE NoDevices]
      /\ UNCHANGED <<load, tables, update, sweep, history>>
  BY DEF Enter, Becomes
<1>2. u \in Users /\ online[u] \in Maps /\ call[c].map = None /\ call[c] \in CallShape
  BY <1>1, LoadShape DEF TablesTyped, MapsTyped, Mapped
<1>3. /\ r \in CallShape /\ r.at = "join" /\ r.map = online[u]
      /\ r.known = call[c].known /\ r.overlap = call[c].overlap
  BY <1>2 DEF CallShape, CallSteps
<1> HIDE DEF r
<1>4. /\ call' \in [Callers -> CallShape] /\ call'[c] = r
      /\ \A d \in Callers : d # c => call'[d] = call[d]
  BY <1>1, <1>3 DEF MapsTyped
<1>5. device' = device
  <2>1. \A m \in Maps : Live(m, online, call) => Live(m, online', call')
    BY <1>1, <1>2, <1>4 DEF Live
  <2>2. \A m \in Maps : device'[m] = device[m]
    BY <1>1, <2>1 DEF Cleared
  <2>3. QED
    BY <1>1, <2>2 DEF MapsTyped
<1>6. TablesTyped' /\ Rates' /\ SweepTyped' /\ DueLinked'
  BY <1>1, <1>5 DEF TablesTyped, Rates, SweepTyped, DueLinked, tables, history
<1>7. MapsTyped' /\ Engines'
  BY <1>1, <1>2, <1>3, <1>4, <1>5 DEF MapsTyped, Engines, Mapped, Releasing
<1>8. Owners'
  BY <1>1, <1>2, <1>3, <1>4 DEF Owners
<1>9. Cleared'
  BY <1>1, <1>5 DEF Cleared
<1>10. NoGhosts'
  <2>1. ASSUME NEW v \in Users, NEW ip \in Ips, online'[v] # None,
               device'[online'[v]][ip] = "asked"
        PROVE  \E d \in Callers : /\ call'[d].map = online'[v] /\ IpOf(d) = ip
                                  /\ call'[d].at \in Undecided
    <3>1. online[v] # None /\ device[online[v]][ip] = "asked" /\ online'[v] = online[v]
      BY <1>1, <1>5, <2>1
    <3>2. PICK d \in Callers : /\ call[d].map = online[v] /\ IpOf(d) = ip
                               /\ call[d].at \in Undecided
      BY <3>1 DEF NoGhosts, Undecided
    <3>3. d # c
      BY <1>1, <3>2 DEF Undecided
    <3>4. QED
      BY <1>4, <3>1, <3>2, <3>3
  <2>2. \A d \in Callers : IpOf(d)' = IpOf(d)
    BY <1>1
  <2>3. QED
    BY ONLY <2>1, <2>2 DEF NoGhosts, Undecided
<1>11. \A d \in Callers : /\ Untried(d)' => Untried(d) /\ call'[d].known = call[d].known
                          /\ Admitting(d)' => Admitting(d)
  BY <1>1, <1>3, <1>4 DEF Untried, Admitting, Entering, CallSteps
<1>12. Alone'
  BY <1>1, <1>11 DEF Alone
<1>13. \A d \in Callers : Place(d)' = Place(d)
  BY <1>1, <1>3, <1>4 DEF Place
<1>14. Unseen'
  BY <1>1, <1>5, <1>11, <1>13 DEF Unseen
<1>15. QED
  BY <1>6, <1>7, <1>8, <1>9, <1>10, <1>12, <1>14

\* ... or stores a new one, which nobody else has.
LEMMA EnterNew ==
    ASSUME LimiterInv, NEW c \in Callers, Enter(c), online[UserOf(c)] = None
    PROVE  LimiterInv'
<1> USE SameLoad, NoneAssumption DEF LimiterInv
<1> DEFINE u == UserOf(c)
           n == CHOOSE x \in Maps : ~Live(x, online, call)
           r == [call[c] EXCEPT !.at = "check", !.map = n, !.fresh = TRUE]
           maps == [device EXCEPT ![n][IpOf(c)] = "asked"]
<1>1. /\ call[c].at = "enter" /\ online' = [online EXCEPT ![u] = n]
      /\ call' = [call EXCEPT ![c] = r] /\ (\E x \in Maps : ~Live(x, online, call))
      /\ device' = [m \in Maps |-> IF Live(m, online', call') THEN maps[m] ELSE NoDevices]
      /\ UNCHANGED <<load, tables, update, sweep, history>>
  <2>1. (\E x \in Maps : ~Live(x, online, call)) /\ call[c].at = "enter"
    BY DEF Enter
  <2>2. /\ online' = [online EXCEPT ![u] = n]
        /\ call' = [call EXCEPT ![c].at = "check", ![c].map = n, ![c].fresh = TRUE]
        /\ device' = [m \in Maps |-> IF Live(m, online', call') THEN maps[m] ELSE NoDevices]
    <3>1. Becomes([online EXCEPT ![u] = n], maps,
                  [call EXCEPT ![c].at = "check", ![c].map = n, ![c].fresh = TRUE])
      BY DEF Enter
    <3> HIDE DEF n, maps
    <3>2. QED
      BY <3>1 DEF Becomes
  <2> HIDE DEF n, maps
  <2>3. call' = [call EXCEPT ![c] = r]
    BY <2>2 DEF MapsTyped
  <2>4. QED
    BY <2>1, <2>2, <2>3 DEF Enter
<1>2. n \in Maps /\ ~Live(n, online, call)
  BY <1>1
<1> HIDE DEF n
<1>3. /\ u \in Users /\ IpOf(c) \in Ips /\ call[c].map = None /\ call[c] \in CallShape
  BY <1>1, LoadShape DEF TablesTyped, MapsTyped, Mapped
<1>4. r \in CallShape /\ r.at = "check" /\ r.map = n
  BY <1>2, <1>3 DEF CallShape, CallSteps
<1> HIDE DEF r
<1>5. /\ call' \in [Callers -> CallShape] /\ call'[c] = r
      /\ \A d \in Callers : d # c => call'[d] = call[d] /\ call[d].map # n
  BY <1>1, <1>2, <1>4 DEF MapsTyped, Live
<1>6. /\ online' \in [Users -> Maps \cup {None}] /\ online'[u] = n
      /\ \A v \in Users : v # u => online'[v] = online[v] /\ online[v] # n
  BY <1>1, <1>2, <1>3 DEF MapsTyped, Live
<1>7. /\ device' \in [Maps -> [Ips -> Marks]]
      /\ device'[n][IpOf(c)] = "asked"
      /\ \A ip \in Ips : ip # IpOf(c) => device'[n][ip] = "no"
      /\ \A m \in Maps \ {n} : device'[m] = device[m]
      /\ \A m \in Maps : ~Live(m, online', call') => device'[m] = NoDevices
  <2>1. device[n] = NoDevices
    BY <1>2 DEF Cleared
  <2>2. /\ maps \in [Maps -> [Ips -> Marks]] /\ maps[n][IpOf(c)] = "asked"
        /\ \A ip \in Ips : ip # IpOf(c) => maps[n][ip] = "no"
        /\ \A m \in Maps \ {n} : maps[m] = device[m]
    BY <1>2, <1>3, <2>1 DEF MapsTyped, Marks, NoDevices
  <2> HIDE DEF maps
  <2>3. NoDevices \in [Ips -> Marks]
    BY DEF NoDevices, Marks
  <2>4. Live(n, online', call')
    BY <1>3, <1>6 DEF Live
  <2>5. \A m \in Maps \ {n} : ~Live(m, online', call') => device[m] = NoDevices
    <3>1. \A m \in Maps \ {n} : Live(m, online, call) => Live(m, online', call')
      BY <1>3, <1>5, <1>6 DEF Live
    <3>2. QED
      BY <3>1 DEF Cleared
  <2>6. QED
    BY <1>1, <1>2, <2>2, <2>3, <2>4, <2>5
<1> HIDE DEF maps
<1>8. TablesTyped' /\ Rates' /\ SweepTyped'
  BY <1>1 DEF TablesTyped, Rates, SweepTyped, tables, history
<1>9. MapsTyped' /\ Engines'
  BY <1>1, <1>2, <1>4, <1>5, <1>6, <1>7, ZenonT(60) DEF MapsTyped, Engines, Mapped, Releasing
<1>10. Owners'
  <2>1. u \in Served
    BY LoadShape DEF TablesTyped
  <2>2. QED
    BY <1>1, <1>2, <1>4, <1>5, <1>6, <2>1 DEF Owners
<1>11. Cleared'
  BY <1>7 DEF Cleared
<1>12. NoGhosts'
  <2>1. ASSUME NEW v \in Users, NEW ip \in Ips, online'[v] # None,
               device'[online'[v]][ip] = "asked"
        PROVE  \E d \in Callers : /\ call'[d].map = online'[v] /\ IpOf(d) = ip
                                  /\ call'[d].at \in Undecided
    <3>1. CASE v = u
      BY <1>4, <1>5, <1>6, <1>7, <2>1, <3>1 DEF Undecided
    <3>2. CASE v # u
      <4>1. online[v] \in Maps \ {n} /\ online'[v] = online[v]
        BY <1>6, <2>1, <3>2 DEF MapsTyped
      <4>2. device[online[v]][ip] = "asked"
        BY <1>7, <2>1, <4>1
      <4>3. PICK d \in Callers : /\ call[d].map = online[v] /\ IpOf(d) = ip
                                 /\ call[d].at \in Undecided
        BY <4>1, <4>2 DEF NoGhosts, Undecided
      <4>4. d # c
        BY <1>3, <4>1, <4>3
      <4>5. QED
        BY <1>5, <4>1, <4>3, <4>4
    <3>3. QED
      BY <3>1, <3>2
  <2>2. \A d \in Callers : IpOf(d)' = IpOf(d)
    BY <1>1
  <2>3. QED
    BY ONLY <2>1, <2>2 DEF NoGhosts, Undecided
<1>13. DueLinked'
  <2>1. SUFFICES ASSUME sweep.at # "off", NEW d \in due
                 PROVE  /\ d[1] \in sweep.todo /\ online'[d[1]] # None
                        /\ device'[online'[d[1]]][d[2]] # "no"
    BY <1>1 DEF DueLinked, history
  <2>2. /\ d[1] \in sweep.todo /\ online[d[1]] # None /\ device[online[d[1]]][d[2]] # "no"
        /\ d[1] \in Users
    BY <2>1 DEF DueLinked, SweepTyped
  <2>3. /\ online'[d[1]] = online[d[1]] /\ online[d[1]] \in Maps \ {n}
    BY <1>6, <2>2 DEF MapsTyped
  <2>4. QED
    BY <1>7, <2>2, <2>3
<1>14. \A d \in Callers : /\ Untried(d)' => d # c /\ Untried(d) /\ call'[d] = call[d]
                          /\ Admitting(d)' => Admitting(d)
  BY <1>1, <1>4, <1>5 DEF Untried, Admitting, Entering, CallSteps
<1>15. Alone'
  BY <1>1, <1>14 DEF Alone
<1>16. Unseen'
  <2>1. SUFFICES ASSUME NEW d \in Callers, Untried(d)', ~call'[d].known, Place(d)' # None
                 PROVE  device'[Place(d)'][IpOf(d)] = "no"
    BY <1>1 DEF Unseen
  <2>2. /\ UserOf(d) \in Users /\ IpOf(d) \in Ips /\ d # c /\ Untried(d)
        /\ ~call[d].known /\ call'[d] = call[d]
    BY <1>14, <2>1, LoadShape DEF TablesTyped
  <2>3. CASE call[d].at # "join" /\ UserOf(d) = u
    <3>1. Place(d)' = n
      BY <1>1, <1>6, <2>2, <2>3 DEF Place
    <3>2. IpOf(d) # IpOf(c)
      <4>1. Admitting(c)
        BY <1>1 DEF Admitting, CallSteps
      <4>2. ~SameDevice(d, c)
        BY <2>2, <4>1 DEF Alone
      <4>3. QED
        BY <2>3, <4>2, SameShape DEF TablesTyped
    <3>3. QED
      BY <1>7, <2>2, <3>1, <3>2
  <2>4. CASE ~(call[d].at # "join" /\ UserOf(d) = u)
    <3>1. Place(d)' = Place(d)
      BY <1>1, <1>6, <2>2, <2>4 DEF Place
    <3>2. call[d].map \in Maps \cup {None} /\ online[UserOf(d)] \in Maps \cup {None}
      BY <2>2 DEF MapsTyped, CallShape
    <3>3. Place(d) \in Maps \ {n}
      BY <1>5, <1>6, <2>1, <2>2, <2>4, <3>1, <3>2 DEF Place
    <3>4. device'[Place(d)][IpOf(d)] = "no"
      BY <1>7, <2>1, <2>2, <3>1, <3>3 DEF Unseen
    <3>5. QED
      BY <3>1, <3>4
  <2>5. QED
    BY <2>3, <2>4
<1>17. QED
  BY <1>8, <1>9, <1>10, <1>11, <1>12, <1>13, <1>15, <1>16

-------------------------------------------------------------------------------
(***************************************************************************)
(* The theorems.                                                           *)
(***************************************************************************)

\* Every step of a call, of a list update and of a report keeps the ownership of
\* the maps and what follows from it.
LEMMA LimiterStep == LimiterInv /\ [LimiterNext]_limiterVars => LimiterInv'
<1>1. SUFFICES ASSUME LimiterInv, [LimiterNext]_limiterVars PROVE LimiterInv'
  OBVIOUS
<1>2. CASE UNCHANGED limiterVars
  <2>1. UNCHANGED <<load, listed, speed, alive, old, bucket, online, device, call, update, sweep,
                    due, stale>>
    BY <1>2 DEF limiterVars, tables, history
  <2>2. MapsInv'
    BY <1>1, <2>1, MapsRest DEF LimiterInv, MapsTyped
  <2>3. TablesTyped' /\ SweepTyped' /\ Rates' /\ DueLinked'
    BY <1>1, <2>1 DEF LimiterInv, TablesTyped, SweepTyped, Rates, DueLinked
  <2>4. QED
    BY <2>2, <2>3 DEF LimiterInv, MapsInv
<1>3. ASSUME NEW c \in Callers, Authorize(c) PROVE LimiterInv'
  BY <1>1, <1>3, AdmitStep, ReadStep, EnterOld, EnterNew, JoinStep, CheckOldStep, ForgetStep,
     UndoStep
     DEF Authorize
<1>4. ASSUME NEW c \in Callers, CheckLimit(c) PROVE LimiterInv'
  BY <1>1, <1>4, ReadStep DEF CheckLimit
<1>5. ASSUME NEW c \in Callers, ReleaseIP(c) PROVE LimiterInv'
  BY <1>1, <1>5, ReleaseStep, DropStep, RangeStep, ClearStep DEF ReleaseIP
<1>6. CASE UpdateLimits \/ SetAlive
  BY <1>1, <1>6, TablesStep, DeleteOnlineStep DEF UpdateLimits
<1>7. CASE GetOnlineDevice
  BY <1>1, <1>7, SweepStep, RemoveStep DEF GetOnlineDevice
<1>8. QED
  BY <1>1, <1>2, <1>3, <1>4, <1>5, <1>6, <1>7 DEF LimiterNext

\* Authorize, CheckLimit, ReleaseIP, UpdateUsers, SetAliveList and GetOnlineDevice
\* in any interleaving: all that hold an inner map agree whose it is.
THEOREM LimiterInvariant == LimiterSpec => []LimiterInv
BY LimiterInitInv, LimiterStep, PTL DEF LimiterSpec

\* The maps keep their shape, and a call has an inner map exactly while it works on one.
THEOREM LimiterTyped == LimiterSpec => []LimiterTypeOK
<1>1. LimiterInv => LimiterTypeOK
  BY DEF LimiterInv, TablesTyped, MapsTyped, SweepTyped, LimiterTypeOK, CallShape, Mapped, Marks
<1>2. QED
  BY <1>1, LimiterInvariant, PTL

\* admit: a refused device is not in the user's map once the call has returned.
THEOREM LimiterNoGhosts == LimiterSpec => []NoGhosts
<1>1. LimiterInv => NoGhosts
  BY DEF LimiterInv
<1>2. QED
  BY <1>1, LimiterInvariant, PTL

\* GetOnlineDevice: no accepted device is missing from the report.
THEOREM LimiterReports == LimiterSpec => []ReportComplete
<1>1. LimiterInv => ReportComplete
  BY DEF LimiterInv, DueLinked, ReportComplete
<1>2. QED
  BY <1>1, LimiterInvariant, PTL

\* UpdateUsers and CheckLimit: a bucket that is not stale has the user's rate.
THEOREM LimiterBuckets == LimiterSpec => []BucketCurrent
<1>1. LimiterInv => BucketCurrent
  BY DEF LimiterInv, TablesTyped, Rates, BucketCurrent
<1>2. QED
  BY <1>1, LimiterInvariant, PTL

\* A call that works on a map is moved by its own steps only.
LEMMA OwnStep ==
    ASSUME LimiterInv, LimiterNext, NEW c \in Callers, call[c].at \in {"join", "check"}
    PROVE  Join(c) \/ CheckOld(c) \/ call'[c].at = call[c].at
<1>1. call \in [Callers -> CallShape] /\ \A d \in Callers : call[d] \in CallShape
  BY DEF LimiterInv, MapsTyped
<1>2. ASSUME NEW d \in Callers, Authorize(d) \/ CheckLimit(d) \/ ReleaseIP(d)
      PROVE  Join(c) \/ CheckOld(c) \/ call'[c].at = call[c].at
  <2>1. CASE d = c
    BY <1>2, <2>1
       DEF Authorize, CheckLimit, ReleaseIP, Admit, ReadAlive, Enter, Forget, Undo, ReadSpeed,
           LoadBucket, StoreBucket, Release, Drop, Range, Clear
  <2>2. CASE d # c /\ Admit(d)
    <3>1. call'[c] = call[c] \/ call'[c] = [call[c] EXCEPT !.overlap = TRUE]
      BY <2>2 DEF Admit
    <3>2. [call[c] EXCEPT !.overlap = TRUE].at = call[c].at
      BY <1>1 DEF CallShape
    <3>3. QED
      BY <3>1, <3>2
  <2>3. CASE d # c /\ ~Admit(d)
    <3>1. PICK r : call' = [call EXCEPT ![d] = r]
      <4>1. ASSUME Authorize(d) PROVE \E r : call' = [call EXCEPT ![d] = r]
        BY <2>3, <4>1, ZenonT(60)
           DEF Authorize, ReadAlive, Enter, Join, CheckOld, Forget, Undo, Accept, TakeBack,
               Becomes, Step, Return
      <4>2. ASSUME CheckLimit(d) \/ ReleaseIP(d) PROVE \E r : call' = [call EXCEPT ![d] = r]
        BY <4>2
           DEF CheckLimit, ReleaseIP, ReadSpeed, LoadBucket, StoreBucket, Release, Drop, Range,
               Clear, Becomes, Step, Return
      <4>3. QED
        BY <1>2, <4>1, <4>2
    <3>2. QED
      BY <1>1, <2>3, <3>1
  <2>4. QED
    BY <2>1, <2>2, <2>3
<1>3. ASSUME NEW u \in Served, ChangeUser(u) PROVE call'[c].at = call[c].at
  <2>1. call'[c] = call[c] \/ call'[c] = [call[c] EXCEPT !.info = speed[u]]
    BY <1>3 DEF ChangeUser
  <2>2. [call[c] EXCEPT !.info = speed[u]].at = call[c].at
    BY <1>1 DEF CallShape
  <2>3. QED
    BY <2>1, <2>2
<1>4. CASE call' = call
  BY <1>4
<1>5. ASSUME UpdateLimits \/ SetAlive, ~\E u \in Served : ChangeUser(u) PROVE call' = call
  BY <1>5
     DEF UpdateLimits, DeleteUser, DeleteOnline, DeleteBucket, DeleteAlive, UpdateBucket,
         SetAlive, Becomes
<1>6. ASSUME GetOnlineDevice PROVE call' = call
  BY <1>6 DEF GetOnlineDevice, StartSweep, Collect, Skip, Remove, EndSweep, Becomes
<1>7. QED
  BY <1>2, <1>3, <1>4, <1>5, <1>6 DEF LimiterNext, UpdateLimits

\* admit: where the limit is reached, only a known device, one of the last report
\* or one of two calls at once is let in.
THEOREM LimiterKeepsLimit == LimiterSpec => LimitKept
<1>1. LimiterInv /\ [LimiterNext]_limiterVars =>
        [\A c \in Callers :
            Accepts(c) /\ load.limit[UserOf(c)] \in 1..call[c].alive =>
                \/ call[c].known \/ call[c].overlap \/ call[c].at = "forget"
                \/ old[IpOf(c)] # None]_limiterVars
  <2>1. SUFFICES ASSUME LimiterInv, LimiterNext, NEW c \in Callers, Accepts(c),
                        load.limit[UserOf(c)] \in 1..call[c].alive, ~call[c].known,
                        ~call[c].overlap, call[c].at # "forget", old[IpOf(c)] = None
                 PROVE  FALSE
    OBVIOUS
  <2>2. load.limit[UserOf(c)] \in Nat /\ call[c].alive \in Nat /\ load.limit[UserOf(c)] > 0
    BY <2>1, LoadShape DEF LimiterInv, TablesTyped, MapsTyped, CallShape
  <2>3. call[c].at \in {"join", "check"} /\ call'[c].at \in {"idle", "speed"}
    BY <2>1 DEF Accepts
  <2>4. CASE Join(c)
    <3>1. call[c].at = "join" /\ Untried(c) /\ Place(c) = call[c].map /\ call[c].map # None
      BY <2>1, <2>2, <2>4 DEF Join, Untried, Entering, Place, LimiterInv, MapsTyped, Mapped
    <3>2. device[call[c].map][IpOf(c)] = "no"
      BY <2>1, <3>1 DEF LimiterInv, Unseen
    <3>3. call' = [call EXCEPT ![c].at = "check"]
      BY <2>4, <3>2 DEF Join, Becomes, Step
    <3>4. QED
      BY <2>1, <2>3, <3>3 DEF LimiterInv, MapsTyped, CallShape
  <2>5. CASE CheckOld(c)
    <3>1. Full(c)
      BY <2>1, <2>2 DEF Full
    <3>2. UserOf(c) # None
      BY <2>1, LoadShape, NoneAssumption DEF LimiterInv, TablesTyped
    <3>3. call' = [call EXCEPT ![c].at = "undo"]
      BY <2>1, <2>5, <3>1, <3>2 DEF CheckOld, Becomes, Step
    <3>4. QED
      BY <2>1, <2>3, <3>3 DEF LimiterInv, MapsTyped, CallShape
  <2>6. QED
    BY <2>1, <2>3, <2>4, <2>5, OwnStep
<1>2. QED
  BY <1>1, LimiterInvariant, PTL DEF LimiterSpec, LimitKept
===============================================================================
