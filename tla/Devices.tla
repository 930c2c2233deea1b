-------------------------------- MODULE Devices --------------------------------
(***************************************************************************)
(* The device limit of the caddy engine.  The forward proxy inside Caddy   *)
(* asks /authorize of caddyproc before it serves a request, asks again     *)
(* every 15 s for an open tunnel, asks /release when it cannot open the    *)
(* tunnel, and reports open and close events on its output, which the      *)
(* consumer turns into s.online and into a ReleaseIP.  The limiter keeps   *)
(* the devices it has admitted, whichever tunnel they were admitted for.   *)
(*                                                                         *)
(* A request to the auth server has its own life: the client gives up      *)
(* after 2 s, and the server may serve the request after that.  One call   *)
(* of the limiter is one action here; OldUserOnline is always empty, since *)
(* caddyproc never calls Limiter.GetOnlineDevice.                          *)
(***************************************************************************)
EXTENDS Integers, FiniteSets, Sequences

CONSTANTS
    Tunnels,      \* the proxy requests; each is made once
    Users,        \* the user of a request is one of these
    UserOf,       \* user of each request
    IpOf,         \* client IP of each request
    DeviceLimit,  \* of each user, 0 for none
    MaxAlive      \* bound: the largest alive count the panel reports

Devices == {<<UserOf[t], IpOf[t]>> : t \in Tunnels}
DeviceOf(t) == <<UserOf[t], IpOf[t]>>

ASSUME TunnelsAssumption == IsFiniteSet(Tunnels)
ASSUME UserOfAssumption == UserOf \in [Tunnels -> Users]
ASSUME LimitAssumption == DeviceLimit \in [Users -> Nat]
ASSUME MaxAliveAssumption == MaxAlive \in Nat

\* The two goroutines of a tunnel that call the auth server.
Callers == {"handler", "ticker"}

VARIABLES
    listed,     \* s.users
    limited,    \* keys of limiter.UserLimitInfo
    alive,      \* limiter.AliveList
    entries,    \* limiter.UserOnlineIP, as pairs of user and IP
    update,     \* the list UpdateUsers is in the middle of, as {} or {list}
    handler,    \* per tunnel: where ServeHTTP is
    ticker,     \* per tunnel: where reportActiveTunnel is
    conn,       \* per tunnel: targetConn is open
    call,       \* per tunnel and caller: the request to the auth server
    pipe,       \* events Caddy has written and the consumer has not read
    releasing,  \* the tunnel whose close event is half handled, or "none"
    online,     \* s.online, per device
    counted,    \* history: tunnels whose open event is handled, close is not
    removed,    \* history: users that were ever deleted
    unowned     \* history: devices an authorize admitted for nobody, or for a
                \* request that releases nothing

userVars == <<listed, limited, alive, update, removed>>
tunnelVars == <<handler, ticker, conn, call>>
vars == <<userVars, entries, tunnelVars, pipe, releasing, online, counted, unowned>>

None == "none"

-------------------------------------------------------------------------------
Init ==
    /\ listed = Users
    /\ limited = Users
    /\ alive = [u \in Users |-> 0]
    /\ entries = {}
    /\ update = {}
    /\ handler = [t \in Tunnels |-> "new"]
    /\ ticker = [t \in Tunnels |-> "off"]
    /\ conn = [t \in Tunnels |-> FALSE]
    /\ call = [t \in Tunnels |-> [c \in Callers |-> None]]
    /\ pipe = <<>>
    /\ releasing = None
    /\ online = [d \in Devices |-> 0]
    /\ counted = {}
    /\ removed = {}
    /\ unowned = {}

-------------------------------------------------------------------------------
(***************************************************************************)
(* The auth server.                                                        *)
(***************************************************************************)

\* Limiter.admit: a known device passes, a new one if the limit leaves room.
Admits(u, ip) ==
    /\ u \in limited
    /\ <<u, ip>> \in entries \/ DeviceLimit[u] = 0 \/ DeviceLimit[u] > alive[u]

\* What Limiter.ReleaseIP leaves of a set of devices.
Released(devices, t) == devices \ {DeviceOf(t)}

\* handleAuthorize, whether the caller still waits for the answer or not.
Serve(t, c) ==
    LET u == UserOf[t]
        ip == IpOf[t]
        answer == IF Admits(u, ip) THEN "yes" ELSE "no"
        waiting == call[t][c] = "sent"
    IN  /\ call[t][c] \in {"sent", "abandoned"}
        /\ call' = [call EXCEPT ![t][c] = IF waiting THEN answer ELSE None]
        /\ entries' = IF answer = "yes" THEN entries \cup {<<u, ip>>} ELSE entries
        /\ unowned' = IF answer = "yes" /\ (~waiting \/ handler[t] = "done")
                        THEN unowned \cup {<<u, ip>>} ELSE unowned
        /\ UNCHANGED <<userVars, handler, ticker, conn, pipe, releasing, online, counted>>

\* handleRelease, or a release request that never reaches it.
Release(t) ==
    /\ call[t]["handler"] = "release"
    /\ call' = [call EXCEPT ![t]["handler"] = None]
    /\ \/ /\ entries' = Released(entries, t)
          /\ unowned' = Released(unowned, t)
       \/ /\ unowned' = unowned \cup {DeviceOf(t)}
          /\ UNCHANGED entries
    /\ UNCHANGED <<userVars, handler, ticker, conn, pipe, releasing, online, counted>>

-------------------------------------------------------------------------------
(***************************************************************************)
(* ServeHTTP of a tunnel.                                                  *)
(***************************************************************************)
Send(t, c) == [call EXCEPT ![t][c] = "sent"]
Finish(t, c) == [call EXCEPT ![t][c] = None]
AskRelease(t) == [call EXCEPT ![t]["handler"] = "release"]

\* An event is a line of Caddy's log.
Emit(type, t) == Append(pipe, [type |-> type, tunnel |-> t])

\* What is left of a call the client gives up: the server may still serve it.
GiveUp(t, c) ==
    [call EXCEPT ![t][c] = IF @ = "sent" THEN "abandoned" ELSE None]

Connect(t) ==
    /\ handler[t] = "new"
    /\ handler' = [handler EXCEPT ![t] = "auth"]
    /\ call' = Send(t, "handler")
    /\ UNCHANGED <<userVars, entries, ticker, conn, pipe, releasing, online, counted, unowned>>

\* authorizeV2naiveUser returns an authResult.
Accepted(t) ==
    /\ handler[t] = "auth"
    /\ call[t]["handler"] = "yes"
    /\ handler' = [handler EXCEPT ![t] = "dial"]
    /\ call' = Finish(t, "handler")
    /\ UNCHANGED <<userVars, entries, ticker, conn, pipe, releasing, online, counted, unowned>>

\* authorizeV2naiveUser returns an error: the request is refused, and ServeHTTP
\* returns before the release is deferred.
Refused(t) ==
    /\ handler[t] = "auth"
    /\ \/ /\ call[t]["handler"] = "no"
          /\ call' = Finish(t, "handler")
          /\ UNCHANGED unowned
       \/ /\ call[t]["handler"] \in {"sent", "yes"}
          /\ call' = GiveUp(t, "handler")
          /\ unowned' = IF call[t]["handler"] = "yes"
                          THEN unowned \cup {DeviceOf(t)} ELSE unowned
    /\ handler' = [handler EXCEPT ![t] = "done"]
    /\ UNCHANGED <<userVars, entries, ticker, conn, pipe, releasing, online, counted>>

\* A request that is not a CONNECT is forwarded and never released.
Forward(t) ==
    /\ handler[t] = "dial"
    /\ handler' = [handler EXCEPT ![t] = "done"]
    /\ unowned' = unowned \cup {DeviceOf(t)}
    /\ UNCHANGED <<userVars, entries, ticker, conn, call, pipe, releasing, online, counted>>

\* Fault: a failed dial releases nothing.
DialFailsSilently(t) ==
    /\ handler[t] = "dial"
    /\ handler' = [handler EXCEPT ![t] = "done"]
    /\ UNCHANGED <<userVars, entries, ticker, conn, call, pipe, releasing, online,
                   counted, unowned>>

\* dialContextCheckACL fails: the deferred releaseV2naiveUser is sent.
DialFails(t) ==
    /\ handler[t] = "dial"
    /\ handler' = [handler EXCEPT ![t] = "done"]
    /\ call' = AskRelease(t)
    /\ UNCHANGED <<userVars, entries, ticker, conn, pipe, releasing, online, counted, unowned>>

\* The target is dialled: the ticker starts and the open event is written.
Open(t) ==
    /\ handler[t] = "dial"
    /\ handler' = [handler EXCEPT ![t] = "open"]
    /\ ticker' = [ticker EXCEPT ![t] = "wait"]
    /\ conn' = [conn EXCEPT ![t] = TRUE]
    /\ pipe' = Emit("open", t)
    /\ UNCHANGED <<userVars, entries, call, releasing, online, counted, unowned>>

\* The streams end, because a peer is done or because the ticker has closed
\* targetConn: the close event is written, then doneReporting is closed.
End(t) ==
    /\ handler[t] = "open"
    /\ handler' = [handler EXCEPT ![t] = "done"]
    /\ conn' = [conn EXCEPT ![t] = FALSE]
    /\ pipe' = Emit("close", t)
    /\ UNCHANGED <<userVars, entries, ticker, call, releasing, online, counted, unowned>>

-------------------------------------------------------------------------------
(***************************************************************************)
(* reportActiveTunnel.                                                     *)
(***************************************************************************)

\* The ticker fires; select may take it although doneReporting is closed too.
Tick(t) ==
    /\ ticker[t] = "wait"
    /\ ticker' = [ticker EXCEPT ![t] = "auth"]
    /\ call' = Send(t, "ticker")
    /\ UNCHANGED <<userVars, entries, handler, conn, pipe, releasing, online, counted, unowned>>

Kept(t) ==
    /\ ticker[t] = "auth"
    /\ call[t]["ticker"] = "yes"
    /\ ticker' = [ticker EXCEPT ![t] = "wait"]
    /\ call' = Finish(t, "ticker")
    /\ UNCHANGED <<userVars, entries, handler, conn, pipe, releasing, online, counted, unowned>>

\* Fault: a refusal is ignored, and only the next tick asks again.
CutIgnored(t) ==
    /\ ticker[t] = "auth"
    /\ call[t]["ticker"] \in {"sent", "yes", "no"}
    /\ ticker' = [ticker EXCEPT ![t] = "wait"]
    /\ call' = GiveUp(t, "ticker")
    /\ UNCHANGED <<userVars, entries, handler, conn, pipe, releasing, online, counted, unowned>>

\* The tunnel is refused, or the auth server does not answer: targetConn closes.
Cut(t) ==
    /\ ticker[t] = "auth"
    /\ call[t]["ticker"] \in {"sent", "yes", "no"}
    /\ ticker' = [ticker EXCEPT ![t] = "off"]
    /\ conn' = [conn EXCEPT ![t] = FALSE]
    /\ call' = GiveUp(t, "ticker")
    /\ UNCHANGED <<userVars, entries, handler, pipe, releasing, online, counted, unowned>>

StopTicker(t) ==
    /\ ticker[t] = "wait"
    /\ handler[t] = "done"
    /\ ticker' = [ticker EXCEPT ![t] = "off"]
    /\ UNCHANGED <<userVars, entries, handler, conn, call, pipe, releasing, online, counted, unowned>>

-------------------------------------------------------------------------------
(***************************************************************************)
(* handleEventLine.                                                        *)
(***************************************************************************)
OpenEvent ==
    /\ releasing = None
    /\ pipe # <<>>
    /\ Head(pipe).type = "open"
    /\ LET t == Head(pipe).tunnel
       IN  /\ online' = [online EXCEPT ![DeviceOf(t)] = @ + 1]
           /\ counted' = counted \cup {t}
    /\ pipe' = Tail(pipe)
    /\ UNCHANGED <<userVars, entries, tunnelVars, releasing, unowned>>

\* A close event first releases the device ...
CloseRelease ==
    /\ releasing = None
    /\ pipe # <<>>
    /\ Head(pipe).type = "close"
    /\ releasing' = Head(pipe).tunnel
    /\ entries' = Released(entries, Head(pipe).tunnel)
    /\ unowned' = Released(unowned, Head(pipe).tunnel)
    /\ pipe' = Tail(pipe)
    /\ UNCHANGED <<userVars, tunnelVars, online, counted>>

\* Fault: a close event leaves a count of one in place.
OneLess(n) == IF n <= 1 THEN n ELSE n - 1

\* Fault: the count is decremented even when the device is not online.
Decremented(n) == n - 1

\* The count after a close event: an entry of one or of none is deleted.
Fewer(n) == IF n <= 1 THEN 0 ELSE n - 1

\* ... and then takes the tunnel from s.online.
CloseCount ==
    /\ releasing # None
    /\ LET t == releasing
       IN  /\ online' = [online EXCEPT ![DeviceOf(t)] = Fewer(@)]
           /\ counted' = counted \ {t}
    /\ releasing' = None
    /\ UNCHANGED <<userVars, entries, tunnelVars, pipe, unowned>>

-------------------------------------------------------------------------------
(***************************************************************************)
(* The node monitor.                                                       *)
(***************************************************************************)

\* replaceUsers drops the devices of users that are gone from s.online.
StillOnline(new) == [d \in Devices |-> IF d[1] \in new THEN online[d] ELSE 0]

\* UpdateUsers replaces s.users ...
ReplaceUsers(new) ==
    /\ update = {}
    /\ new # listed
    /\ update' = {new}
    /\ listed' = new
    /\ online' = StillOnline(new)
    /\ removed' = removed \cup (listed \ new)
    /\ UNCHANGED <<limited, alive, entries, tunnelVars, pipe, releasing, counted, unowned>>

\* ... and then updates the limiter: a deleted user loses its limits, its
\* devices and its alive count.
UpdateLimiter ==
    \E new \in update :
        LET gone == limited \ new
        IN  /\ limited' = new
            /\ entries' = {d \in entries : d[1] \notin gone}
            /\ unowned' = {d \in unowned : d[1] \notin gone}
            /\ alive' = [u \in Users |-> IF u \in gone THEN 0 ELSE alive[u]]
            /\ update' = {}
            /\ UNCHANGED <<listed, removed, tunnelVars, pipe, releasing, online, counted>>

\* SetAliveList: what the panel counts for a user, on this node and on others.
SetAlive ==
    /\ update = {}
    /\ \E u \in Users, n \in 0..MaxAlive : alive' = [alive EXCEPT ![u] = n]
    /\ UNCHANGED <<listed, limited, update, removed, entries, tunnelVars, pipe,
                   releasing, online, counted, unowned>>

-------------------------------------------------------------------------------
Handle(t) ==
    \/ Release(t)
    \/ Connect(t) \/ Accepted(t) \/ Refused(t)
    \/ Forward(t) \/ DialFails(t) \/ Open(t) \/ End(t)

Watch(t) == Tick(t) \/ Kept(t) \/ Cut(t) \/ StopTicker(t)

Consume == OpenEvent \/ CloseRelease \/ CloseCount

Monitor == (\E new \in SUBSET Users : ReplaceUsers(new)) \/ UpdateLimiter \/ SetAlive

Next ==
    \/ \E t \in Tunnels : Handle(t) \/ Watch(t) \/ \E c \in Callers : Serve(t, c)
    \/ Consume
    \/ Monitor

Spec == Init /\ [][Next]_vars

\* The ticker of an open tunnel fires, a request is answered or times out, and
\* the consumer reads.  Nothing is assumed of the client, nor of dualStream,
\* which waits for an idle client even when targetConn is closed.
Fairness ==
    /\ \A t \in Tunnels : WF_vars(Tick(t)) /\ WF_vars(Kept(t) \/ Cut(t))
    /\ WF_vars(Consume)

FairSpec == Spec /\ Fairness

-------------------------------------------------------------------------------
\* The limiter and s.online only know devices of proxy requests, and a count of
\* s.online never exceeds the number of tunnels there are.
TypeOK ==
    /\ listed \subseteq Users
    /\ limited \subseteq Users
    /\ removed \subseteq Users
    /\ update \in SUBSET SUBSET Users /\ Cardinality(update) <= 1
    /\ alive \in [Users -> 0..MaxAlive]
    /\ entries \subseteq Devices
    /\ handler \in [Tunnels -> {"new", "auth", "dial", "open", "done"}]
    /\ ticker \in [Tunnels -> {"off", "wait", "auth"}]
    /\ conn \in [Tunnels -> BOOLEAN]
    /\ call \in [Tunnels -> [Callers -> {None, "sent", "abandoned", "yes", "no", "release"}]]
    /\ releasing \in Tunnels \cup {None}
    /\ online \in [Devices -> 0..Cardinality(Tunnels)]
    /\ counted \subseteq Tunnels
    /\ unowned \subseteq Devices

\* handleEventLine and replaceUsers: s.online never counts more tunnels of a
\* device than were opened and not closed by the events read so far, whatever
\* list updates, late releases and repeated deletions come between.
OnlineNeverOvercounts ==
    \A d \in Devices : online[d] <= Cardinality({t \in counted : DeviceOf(t) = d})

\* A tunnel that will release its device, or has released it only on the wire.
Holding(t) ==
    \/ handler[t] \in {"auth", "dial", "open"}
    \/ \E i \in 1..Len(pipe) : pipe[i] = [type |-> "close", tunnel |-> t]
    \/ \E c \in Callers : call[t][c] # None

\* releaseOnFailure and the close event: a device the limiter knows has a tunnel
\* that will release it, unless an authorize was answered to nobody, came from
\* a ticker whose tunnel had ended, or belonged to a plain proxy request, or the
\* /release of a failed dial was lost.
RegistrationsOwned ==
    \A d \in entries \ unowned : \E t \in Tunnels : DeviceOf(t) = d /\ Holding(t)

\* reportActiveTunnel: a user that stays deleted has no connection to a target
\* in the end, those that were open or being dialled when it was deleted included.
DeletedUsersLeave ==
    \A u \in Users :
        <>[](u \notin limited) =>
            <>[](\A t \in Tunnels : UserOf[t] = u => ~conn[t])

\* handleEventLine: a device all of whose tunnels have ended stops being
\* reported as online.
OnlineDrains ==
    \A d \in Devices :
        (\A t \in Tunnels : DeviceOf(t) = d => handler[t] = "done") ~> online[d] = 0

\* The limit is one of devices (README.md:23), and handleEventLine counts the
\* tunnels of a device apart: a device is not refused for its device limit while
\* it has an open tunnel on this node.
OpenDeviceNotRefused ==
    [][\A t \in Tunnels, c \in Callers :
            /\ call[t][c] = "sent"
            /\ call'[t][c] = "no"
            /\ UserOf[t] \notin removed
            => ~\E other \in Tunnels : handler[other] = "open" /\ DeviceOf(other) = DeviceOf(t)]_vars
===============================================================================
