# v2naive: a TLA+ model

`v2naive` is the node agent of a naive proxy service. It takes its configuration
and its users from a *panel* over HTTP, runs a patched Caddy whose `forward_proxy`
plugin serves the tunnels, admits devices, meters bytes and reports both to the
panel. This directory models the parts of it in which something can go wrong
between two steps: modules for TLC, theorems for TLAPS.

`PROJECT.json` relates every definition to the lines it stands for, lists the runs,
the faults that each property detects, the theorems and the hazards of the code.

    tlc -workers 2 -config Traffic.cfg MCTraffic.tla      # a run
    tlapm TrafficProofs.tla                               # a proof

## 1. The system

Paths are relative to `src/`.

| component | where | state | operations |
|---|---|---|---|
| node controller and reload loop | `main.go` | controller, `reloadCh`, `panel-cache.json` | `runNode`, `Start`, `Close`, `nodeInfoMonitor`, `reportUserTrafficTask`, `renewCertTask` |
| panel client | `internal/panel/client.go` | ETags of node and users, body hash | `GetNodeInfo`, `GetUserList`, `GetUserAlive`, `ReportUserTraffic`, `ReportNodeOnlineUsers` |
| periodic tasks | `internal/task/task.go` | running flag, stop channel, timer | `Start`, `ExecuteWithTimeout`, `Close` |
| caddyproc: metering | `internal/caddyproc/server.go` | `users`, `userIDs`, `stats` | `handleEventLine`, `UpdateUsers`, `GetUserTrafficSlice`, `ConfirmUserTraffic` |
| caddyproc: devices, auth server | same | `online`, auth listener | `/authorize`, `/release`, `handleEventLine`, `GetOnlineDevice`, `SetAliveList` |
| caddyproc: the process | same | `cmd`, `done`, `authLn` | `Start`, `waitReady`, `Close`, `stopLocked` |
| limiter | `internal/limiter/limiter.go` | nested `sync.Map`s, alive list, buckets | `Authorize`, `CheckLimit`, `ReleaseIP`, `UpdateUsers`, `GetOnlineDevice` |
| forward proxy | `runtime/forwardproxy/` | per tunnel: streams, `streamStats`, ticker; shared rate limiters | `ServeHTTP`, `dualStream`, `reportActiveTunnel`, `deltaSinceLast` |
| legacy engine | `internal/proxy/server.go` | `users`, `stats`, limiter | `ServeHTTP`, `UpdateUsers`, snapshot, confirm |
| certificates | `internal/certutil/cert.go` | per-certificate locks, two files | `CreateCert`, `RenewCert` |
| configuration, Caddyfile, installer | `internal/conf`, `renderConfig`, `caddyfile.go`, `script/` | none after start-up | |

How they interact. One goroutine per node (`runNode`) builds a client and a
controller and replaces both on a reload. The controller's tasks poll the panel, hand
new users to the runtime server and push its counters. Caddy is a child process: it
asks the parent over loopback HTTP whether a device may connect, and writes a line per
tunnel event to its output, which two goroutines of the parent read. The user list is
therefore shared by the node monitor, the report task, the consumers and the handlers
of the auth server, under two mutexes.

What is hard, and what makes each part correct:

- **Metering.** Bytes arrive while counters are snapshotted, pushed, confirmed and
  deleted; pushes are refused, repeated, or booked without an answer. Correct: each
  byte is waiting, dropped or billed, once, on its user's account.
- **Locking.** Two reader-writer mutexes taken in both orders. Correct: the shared map
  is guarded, and no operation hangs.
- **Devices.** Admission, release and the open and close events of a tunnel travel on
  different ways and overtake each other. Correct: counts follow the tunnels, admitted
  devices are released, deleted users are cut off.
- **Following the panel.** Answers that may not be repeated (304), failing calls, a
  cache file, reloads that overlap with a poll of the closed controller, crashes.
  Correct: the node ends up with what the panel has, and its cache is what it serves.
- **Tunnel counters.** Two goroutines take deltas of the same atomics. Correct: each
  byte in exactly one event.
- **The Caddy process.** It may die, hang or be orphaned at any point of `Start` and
  `Close`. Correct: nothing is left behind, nobody waits for ever.
- **Certificates.** Two files written one after the other, by whoever holds a lock that
  depends on the configuration; a renewal outlives its controller. Correct: certificate
  and key are a pair, and Caddy gets to serve the renewed one.
- **The limiter's maps.** A map of maps without a lock around both levels. Correct:
  refused devices leave no trace, the limit is kept, a report misses nobody, a bucket has
  the rate of its user.
- **The rate limiter.** Tunnels hold on to an object that others empty, change or remove,
  and wait on the bucket it had. Correct: one token bucket per user, but for those that
  wait while the rate changes.
- **Frames.** The first eight messages of a direction are framed, then no more. Correct:
  the payload arrives as it was, and nothing else is billed.

The complete list of hazards, each at its line and with the properties that would
catch it, is in `PROJECT.json` under `hazards`; those that no property covers say why, and a hazard
that is exactly the exception of a property is not counted as covered by it.

## 2. The modules

| module | models | state and actions |
|---|---|---|
| `ByteCounts` | `trafficCounter`'s arithmetic | pairs of upload and download: `Plus`, `Minus` (saturating), `Above`, `HasPending` |
| `Billing` | what the metering promises | `unbilled`, `billed`, `lost` per account: `Count`, `Lose`, `Bill` |
| `Traffic`, `TrafficProofs` | metering of caddyproc, from `New` to `Close` | one action per section under a mutex: `Receive`, `Fetch`, `Add` (consumers), `UpdateUsers`, `Snapshot`, `Push...`, `ReadActive`, `Settle` (report task) |
| `LegacyProxy`, `LegacyProofs` | metering of the legacy engine | `EXTENDS Traffic`: its report actions are the same; requests hold a counter's pointer while they copy, and updates delete by difference |
| `CaddyLocks`, `LocksProofs` | `usersMu`, `statsMu` | an operation is its sequence of lock steps and accesses to `s.online`; Go's `RWMutex` is `RLock`, `Announce`, `Acquire`, ... |
| `Devices`, `DevicesProofs` | limiter, `s.online`, auth server, tunnels | per tunnel the handler, the ticker and a request of each; the event pipe; the two halves of `UpdateUsers` |
| `PanelSync`, `PanelSyncProofs` | controller, client, cache file, reload loop | a current and a closed controller with their program counters, file contents and writers |
| `LimiterMaps`, `LimiterProofs` | `limiter.go`, in either engine | one action per access to a `sync.Map`: `Admit`, `ReadAlive`, `Enter`, `Join`, `CheckOld`, `Forget`, `Undo`; `LoadBucket`, `StoreBucket`; `Release`, `Drop`, `Range`, `Clear`; the steps of `UpdateUsers`; `Collect`, `Remove` of `GetOnlineDevice` |
| `Metering` | `streamStats` of one direction | the loads and the compare-and-swap of `deltaSinceLast`, for ticker and handler |
| `RateLimiter` | `getUserRateLimiter`, `WaitN` | the entry of the user, the objects and their buckets, per tunnel where it is and the bucket it waits on: `Load`, `Empty`, `Delete`, `Fetch`, `Set`, `WaitN`, `Wait` |
| `Tunnels`, `TunnelsProofs` | `Metering` with `RateLimiter` | a metered tunnel waits for tokens, writes and counts, among other tunnels of its user |
| `Padding` | `flushingIoCopy` with frames | what is left to read, what was written, the number of frames: `AddPadding`, `RemovePadding`, `CopyPlain` |
| `CaddyProcess` | `Start`, `waitReady`, `Close` of caddyproc, the process, the end of `v2naive` | where `runNode` is, the process, the result channel, the auth listener, an orphan |
| `CertFiles` | `cert.go`, the renewal task | the files, three agents (`RequestCert`, a renewal, a renewal of a closed controller) with their locks; each truncation and each write is a step |
| `NodeLife`, `NodeLifeProofs` | `CaddyProcess` with `CertFiles` | `Controller.Start` requests the certificate and starts the server, the renewal asks for a reload, Caddy reads certificate and key |

A `...Proofs` module holds the theorems about the modules of its row; `TunnelsProofs` and
`NodeLifeProofs` begin with those about `Metering` and `CaddyProcess`, which they compose.
`MC...` modules give the constants of a module their values for TLC. A definition whose
comment begins with "Fault:" is not part of a model: it is a mutated form of the
definition below it, which some property must reject.

Histories. Variables marked `history` record what the properties need to speak of: in
`Traffic` the bytes handed to `add` (`metered`), those added to a counter that is gone
(`dropped`), and who was ever, or always, listed; in `Devices` the admissions that
nobody will release (`unowned`); in `PanelSync` whether an answer was thrown away
(`discarded`), two controllers wrote at once (`overlapped`) or the last save failed
(`disturbed`); in `LimiterMaps` the devices a report owes (`due`) and the buckets stored
with an old limit (`stale`); in `RateLimiter` a limit lifted while another is set
(`mixed`) and the tunnels that wait through a change of the rate (`overtaken`); in `CertFiles` a pair whose write was cut short or crossed another
(`spoiled`). No guard reads them, except the bounds on `metered` and `unanswered`,
and `known`, by which an event only names users that were listed once.

Abstractions to know of: a configuration and a user list are version numbers; a `uuid`
has one id; in `Devices` a call of the limiter is one step; at most one closed
controller still polls, or renews; the ten seconds of `waitReady` are `MaxProbes` rounds;
a certificate is the number of its issue, its age a choice; a token comes or does not.
No symmetry is used.

Composition. `Tunnels` and `NodeLife` extend two components each, and their actions are
conjunctions of the components' actions. That they add no behaviour to `Metering` and
`CaddyProcess` is proved (section 5), so what is known of those holds in the whole.
`MCLegacy` and `MCTunnels` put two parts side by side that share no variable and of which
no step and no property concerns both (the counters of `LegacyProxy` and the maps of
`LimiterMaps`, `Tunnels` and `Padding`): a variable `half` lets one rest while the other
runs, which reaches all states of each without those of their product.

## 3. The runs

Properties that hold:

| run | instance | shows |
|---|---|---|
| `traffic` | 2 users, 1 consumer, 1 retry, at most 2 bytes per user and direction, 1 unanswered byte | the books balance: `NoUnderbilling`, `NoDoubleBilling`, `UidAttribution`, `StableUsersLoseNothing`; `Traffic` implements `Billing` (`LedgerSpec`); `EventuallyBooked` |
| `legacy` | counters: 2 users, 1 request, 2 bytes; limiter: 2 callers in five combinations of engine, devices and limits, 3 inner maps (2.4 million states) | `StableUsersBilled` of the legacy engine; `NoGhosts`, `LimitKept`, `ReportComplete`, `BucketCurrent` of the limiter in both engines |
| `caddy_locks` | both tasks, 1 consumer, 1 handler, 1 open tunnel | `OnlineMapGuarded`; every circular wait has a list update and a `GetOnlineDevice` in it; `OperationsEnd` |
| `devices` | 1 user with a limit of 1, 2 tunnels of one device | `OnlineNeverOvercounts`, `RegistrationsOwned`, `DeletedUsersLeave`, `OnlineDrains` |
| `panel_sync` | 2 configurations, 2 lists, 1 crash, 1 extra reload, a late poll | `NothingMissedAtRest`, `CacheReadable`, `CacheIsServed` |
| `panel_sync_live` | 3 configurations, the second one unsupported, no crash | `EventuallyCurrent` |
| `tunnels` | 2 tunnels of a user, 2 rates and no limit, chunks of 1 and 2, 4 bytes; 2 framed messages, bytes of base 3 (1.6 million states) | `EachByteOnce`, `ClosedIsComplete`, `EventuallyEmitted`; `OneBucketPerUser`; `PaddingTransparent` |
| `node_life` | 1 round of `waitReady`, 2 pairs issued, four `CertInfo`s (1.5 million states) | `AuthOutlivesCaddy`, `NothingLeftBehind`, `StartAndCloseEnd`; `PairOnDisk`, `RenewedIsServed` |

The type invariants are checked with them. `tunnels` alone may stop: a tunnel ends.

Some properties of this table name their exceptions, and each exception is a behaviour of
the code that the run reaches:

- `LimitKept`: a device beyond the limit is let in if another call for it is under way
  (its entry is found before the first call has taken it back), or if the last report
  has seen its address, with whatever user.
- `BucketCurrent`: a call of `CheckLimit` stores a bucket for the limit it read before
  an update (`stale`); the next update of the user puts it right.
- `OneBucketPerUser`: a change of the rate allocates a new bucket, and a tunnel in the
  middle of `WaitN` stays with the old one until its write is through (`overtaken`); an
  authorization without a limit deletes the entry that another has just stored (`mixed`),
  and the next tunnel gets a second bucket.
- `RegistrationsOwned`: a device is admitted for a caller that has given up, for a ticker
  whose tunnel has ended or for a plain proxy request, or its `/release` is lost
  (`unowned`); it stays until another tunnel of it closes or its user is deleted.
- `NothingMissedAtRest`, `EventuallyCurrent`: an answer whose ETag is stored is thrown away
  (`discarded`), by a poll that runs out of time or by a start that falls back on the
  cache; `HotUpdate` shows the first. A rejected configuration (`BadConfigs`) stays missed
  until there is another, which only `panel_sync_live` has.
- `CacheReadable`, `CacheIsServed`: two controllers write the file at once (`overlapped`),
  or a save fails or is a closed controller's (`disturbed`).
- `PairOnDisk`: a crash, a failed write or a reload that changes the lock leaves a
  certificate and a key that are no pair (`spoiled`), and `RequestCert` accepts them.
- `PaddingTransparent`: a frame with padding and no payload has its padding taken for
  the next header (`hollow`); a failed write counts its message in full.

Why the bounds are enough. *Traffic*: a second user makes attribution and the loop over
counters real, a second byte arrives between a snapshot and its confirm, one unanswered
push is what the double booking needs; the proofs drop these bounds for safety. Close
events that bring nothing only occur in `traffic_dropped` and in the proofs. *CaddyLocks*:
one goroutine of each kind is every kind of wait; a second open tunnel repeats the same
steps. *Devices*: every hazard here is about two tunnels of one device; other users are
only more of the same, since maps are per user. *PanelSync*: two versions tell old from
new, and one late poll overlaps a start, a save and a reload. *Tunnels*: two reporters
are all there are, a swap that fails and one after it need two copies; a second tunnel
that is opened again and again is every tunnel that changes what the first one uses; three
objects and four buckets never run out (a fifth bucket adds no state).
*Padding*: the second frame is the last, as the eighth is in the code, and base 3 makes
sizes of two digits; all that depends on the values 8 and 256 is these two borders.
*NodeLife*: one round of `waitReady` lets Caddy become ready or die before and after a
probe, and the proofs cover any number; two pairs tell old from new; the `CertInfo`s are
two providers, whose locks differ, a self-signed pair and given files. *LimiterMaps*: the
combinations are one device twice, two devices of a user and two users behind one
address, where the maps can meet, with a limit that is or is not used up; the third
inner map is one that two callers can still hold after their user has another.

Disagreements with the documentation, found as violations (`findings` quotes the lines):

| run | property | what the code does |
|---|---|---|
| `traffic_dropped` | `NoByteDropped` | a consumer fetches a deleted user's counter, a list update deletes it, the bytes are added to nothing |
| `caddy_locks_update` | `HotUpdateNeverBlocked` | `GetOnlineDevice` and `replaceUsers` take the mutexes in opposite orders; only a reload, which cuts every tunnel, gets the node out |
| `devices_released` | `OpenDeviceNotRefused` | the `/release` of a tunnel that could not be dialled forgets a device that has another tunnel, whose next authorization is refused; a close event makes the same call of `ReleaseIP` |
| `hot_update` | `HotUpdate` | an alive list that runs out of time discards a user list whose ETag is kept, and 304s hide it from then on |

## 4. Fairness

- `Traffic`: consumers (`Fetch`, `Add`) and the report task (`Snapshot`, `ReadActive`,
  `Settle`) are goroutines and a timer, weakly fair. `PushOk` is strongly fair: a panel
  that is asked again and again accepts some push. Nothing makes events arrive or
  users change.
- `CaddyLocks`: goroutines run (`Run`), `sync.Mutex` starves no writer (`Announce`,
  strongly fair: its starvation mode hands the mutex over), and the time limit of a task
  comes if the task does not end (`Reload`). No operation has to begin.
- `Devices`: the 15 s ticker fires, its request is answered or times out after 2 s, and
  the consumer reads. Clients and `dualStream` are not fair: an idle client may hold a
  tunnel open for ever.
- `PanelSync`: goroutines run; a panel that is called again and again answers each kind
  of call some time, `Start` succeeds some time, with a fetched snapshot too (strong
  fairness, since calls and starts keep failing in between); a requested reload is
  taken.
- `Tunnels`: both reporters run; the streams need not end, tokens need not come.
- `NodeLife`: the fairness of `CaddyProcess`: `runNode` and its timers, the goroutine in `cmd.Wait`, and the end of a
  process that was sent SIGKILL. Caddy need not bind, answer or heed SIGTERM.

## 5. The proofs

Every safety invariant that a run checks and the action property `LimitKept` are theorems,
and with them three step formulas that no run lists (`ConfirmExact`, `ServedOnlyNewer`,
`GoesOn`; they were checked on the instances of the runs before they were proved), for
every value of the constants that the assumptions of the modules admit (bounds are
naturals, identifiers are distinct; the only assumption on a size is that the tunnels of
`Devices` are finitely many). An invariant listed with a run is seldom inductive; the text
below says what had to be added. Each proof has a lemma per action.

`TrafficProofs`, for any users, ids, streams, chunks, threshold, number of retries and
bounds: `TrafficTyped`, `TrafficNotUnderbilled`, `TrafficNotDoubleBilled`,
`TrafficAttributed`, `TrafficStableUsers`, and `TrafficImplementsBilling`: `Spec =>
LedgerSpec`, each step is a step of `Billing` or leaves its ledger alone. The books alone
are not inductive: that a confirm takes no more than was reported needs the batch to be
covered by the counters (`BatchCovered`), which needs counters to be deleted only without
pending bytes and orphaned pointers to be known (`CountersLive`); attribution needs
`userIDs` never to forget an id (`IdsKept`); the stable users need to be among the users
`ConfirmUserTraffic` has read (`StableKept`). `BooksBalance` is the equation itself:

    metered + unanswered + acked = pending + dropped + credited

and `IInv` is their conjunction with `TypeOK`. From the same invariant follows
`TrafficConfirmsExactly`: the bytes of a counter become fewer in the confirm of an
acknowledged push only, and by exactly what was pushed. No list
update, no deletion of a counter and no failed push takes a byte.

`LegacyProofs`, with the report actions of `Traffic` and their lemmas: `LegacyTyped`,
`LegacyStableBilled`. The equation holds for the users that were always listed
(`StableBooks`), whose counters are never deleted, so that a request about to add to one
holds the counter of the table (`StableHeld`). For the others the bytes of a deleted
counter go with it.

`LocksProofs`, for any number of consumers, handlers and tunnels: `LocksTyped`,
`OnlineGuarded`, `OnlyReportDeadlocks`. An operation is a sequence of steps, so the
invariant speaks of what is left of it: its steps can be labelled (`Labels`) with the mode
in which the goroutine holds each mutex before and after, according to the rules of `May`,
from what it holds now (`Holds`) to nothing at the end. `May` is where the order of the
mutexes is: `usersMu` is asked for with `statsMu` held between two entries of a range only,
`statsMu` with `usersMu` held by the writer inside only. `LegalOperations` labels every
operation, `LegalRange` the entries a range unfolds into. A circle of waiting goroutines
then leads, from reader to writer, to `GetOnlineDevice` between two entries and from there
to the list update (`Waiting`).

`DevicesProofs`: `DevicesTypedOK`, `OnlineCovered`, `DevicesOwned`. That `s.online` never
counts a tunnel too many needs each tunnel to be announced once and the events of the log
to be in its turn (`InTurn`); that a device has a tunnel that will release it, apart from
those whose answer nobody waited for (`unowned`), needs to say which tunnel: one that has
its answer, is open, or whose close event is unread (`Owned`).

`PanelSyncProofs`, for any numbers of versions, crashes and extra reloads and any set of
bad configurations: `SyncTyped`, `NothingMissed`, `CacheWhole`, `CacheServed`. The ETag and
the hash of the client are those of what the controller has or has in hand, unless an
answer was thrown away or a reload is asked for (`SeenUsers`, `SeenConfig`, place by place
in a poll); the file holds what is served except between a change and its save (`OnFile`);
a writer nobody overlapped has the temporary file for itself (`OneWriter`). Next to it
stands the order of the versions: `SyncNothingInvented` says that every version held, in
hand or on file was once the panel's (`OnceServed`), and that a list in hand is no older
than the one it is about to replace (`Past`); hence `SyncServesForward`, that the list a
runtime serves is never followed by an older one. A restart from the file may begin with
an older list, and the theorem leaves that step out.

`LimiterProofs`, for any users, addresses, callers and loads, and any number of inner maps:
`LimiterTyped`, `LimiterNoGhosts`, `LimiterReports`, `LimiterBuckets`,
`LimiterKeepsLimit`. The argument is one of ownership: an inner map is linked at one user
only, all calls that hold it are of that user, and what nobody refers to is empty
(`Owners`, `Cleared`); what a report still owes is linked at a user it has not visited
(`DueLinked`); a bucket has the user's rate, is stale, or is about to be replaced
(`Rates`); and a call that has not looked for its device, with no other for the same
device under way, will find it only if it was known (`Alone`, `Unseen`), which gives the
step formula `LimitKept`.

`TunnelsProofs` has three parts. Of `Metering`, for any chunks and number of bytes:
`MeteringTyped`, `MeteringExact`, `MeteringComplete`; the strengthening says what the
locals of a reporter may still claim (`DeltaSound`: a stale `previous` makes the swap fail)
and that the handler, which starts after the streams have ended, sees the final total
(`HandlerSawAll`). Of the composition, for any tunnels, rates, objects and buckets:
`TunnelsImplementMetering` (`TunnelsSpec => Spec` of `Metering`), `TunnelsMeterExactly`, and
`OneBucket`: as long as calls that lift a limit and calls that set one have not met
(`Apart`), a call about to write has the object of the table in hand (`CallKnows`), and a
limited tunnel is limited by it (`Current`); a tunnel that waits, and was not overtaken,
waits on the bucket its object has (`Keeps`), since whoever gives an object another bucket
overtakes those that wait on it (`TurnKeeps`). Of `Padding`, for any base, number of framed
messages, set of frame and padding sizes and length of the rest: `PaddingIsTransparent`.
`PaddingInv` says of an upload that some client sends what the proxy reads (`Stream`: its
messages, the bytes after them, where the stream breaks off) and that the proxy stands at
the end of a frame or among the bytes after the last, with the payload up to there written
(`Copied`), or has met the end inside a frame (`BrokeOff`). From there a header is read
where the client has put one (`FrameRead`). Of a download it says that the client has whole
frames only (`Unbroken`), so that what it makes of them does not change with the bytes that
come after (`TakenStays`), and that they carry the payload read so far.
`PaddingGoesOn`: every iteration of `flushingIoCopy` takes a byte of the stream or is the
last, so that a stream of n bytes is copied in n + 1 iterations at the most; this is the
variant behind its termination, which itself would need fairness.

What the frames of a client and the reader of a download are is defined by recursive
functions. The induction theorems of the library take an operator, which no prover here can
instantiate, so the induction is done with sets: a set of numbers has a least one
(`LeastNumber`, from `WFMin`), hence what holds of 0 and is passed on holds up to n
(`UpTo`), hence a function with the recursive equations exists (`Recursion`) and `Payload`,
`Frames` and `Taken` are such functions (`PayloadIs`, `FramesAre`, `TakenIs`).

`NodeLifeProofs` likewise. Of `CaddyProcess`, for any number of probes: `ProcessTyped`,
`ProcessAuthOutlives`, `ProcessNothingLeft`; from `Spawn` to `Stopped` there is a process or
its result in the channel, never both and never neither (`Places`). Of the composition, for
any certificate modes, locks and bounds: `NodeImplementsCaddyProcess`,
`NodeKeepsProcessInvariants`, and `CertificatePaired`, `RenewalServed`: who holds a lock
excludes the others of that lock (`Excluded`), the files are as far as the one that writes
them (`InHand`), and what Caddy has not read yet is about to be told or was
(`Noticed`).

In both compositions each action is a step of the component or leaves its variables alone,
so that the component's invariants carry over unchanged.

Only model-checked: the liveness properties `EventuallyBooked`, `OperationsEnd`,
`DeletedUsersLeave`, `OnlineDrains`, `EventuallyCurrent`, `EventuallyEmitted` and
`StartAndCloseEnd` (fairness is beyond the prover). The findings are counterexamples and
need no proof.

## 6. What is not modelled

- `renderConfig`, `writeCoverSite`, `caddyfile.go`, `conf`, `version`, the engine switch:
  text and start-up values without state.
- `acl.go`: pure rules of the upstream plugin; the generated Caddyfile begins them with
  `allow all`. `httpclient.go`: upstream chaining, which the generated Caddyfile never
  configures.
- The certificate authority, keys and encodings; the installer.
- Bytes that Close discards, unread events included: `Traffic` and `Devices` model one
  server from `New` to `Close`, and no document promises a last report.
- Bytes that `serveHijack` finds in the buffer of an HTTP/1 client and hands on without
  counting them: naive clients speak HTTP/2.
- The goroutine of the auth server that may find its server gone (`server.go:1609`), and
  an admin endpoint that answers for another Caddy (`server.go:292`): the first is an end
  of the process at any point, which `ProcessExits` has, the second is in `Ready`.
- The threads of Caddy itself: external, as `caddyproc` sees them.

## 7. Plan

Done, in this order: `Traffic` with `Billing` and its proofs, `CaddyLocks`, `Devices`,
`PanelSync`, `Metering` and its proofs, `LegacyProxy`, `CaddyProcess` and its proofs;
then `LimiterMaps`, `RateLimiter`, `Tunnels`, `CertFiles`, `NodeLife`, the refinement
proofs of the two compositions, and `Padding`; then the proofs of the certificate pair,
the shared bucket, `Devices`, `PanelSync`, `LegacyProxy`, `LimiterMaps`, `CaddyLocks` and
`Padding`.

Then theorems that say more than the properties of the runs: what a confirm takes, the
order of the versions, and the variant of `flushingIoCopy`.

What remains is variants of that kind for the liveness properties: that a retry, a probe or
a poll leaves less to do, so that TLC's fairness argument has a bound in general.

That a call of `LimiterMaps` is one step of `Devices` is not so: the
exceptions of `LimitKept` are behaviours that `Devices` does not have, which is why both
are kept.
