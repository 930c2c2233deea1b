----------------------------- MODULE DevicesProofs -----------------------------
(***************************************************************************)
(* The device limit, for every set of tunnels, users and limits: s.online  *)
(* never counts a tunnel too many, and every device the limiter knows has  *)
(* a tunnel that will release it.                                          *)
(***************************************************************************)
EXTENDS Devices, FiniteSetTheorems, TLAPS

\* The lines of Caddy's log that the consumer has not read.
Events == [type : {"open", "close"}, tunnel : Tunnels]
Unread(type, t) == \E i \in 1..Len(pipe) : pipe[i] = [type |-> type, tunnel |-> t]

Calls == {None, "sent", "abandoned", "yes", "no", "release"}

UsersTyped ==
    /\ listed \subseteq Users /\ limited \subseteq Users /\ removed \subseteq Users
    /\ update \in SUBSET SUBSET Users /\ Cardinality(update) <= 1
    /\ alive \in [Users -> 0..MaxAlive]

TunnelsTyped ==
    /\ handler \in [Tunnels -> {"new", "auth", "dial", "open", "done"}]
    /\ ticker \in [Tunnels -> {"off", "wait", "auth"}]
    /\ conn \in [Tunnels -> BOOLEAN]
    /\ call \in [Tunnels -> [Callers -> Calls]]

DevicesTyped ==
    /\ entries \subseteq Devices /\ unowned \subseteq Devices
    /\ pipe \in Seq(Events)
    /\ releasing \in Tunnels \cup {None}
    /\ online \in [Devices -> Nat]
    /\ counted \subseteq Tunnels

Shape == UsersTyped /\ TunnelsTyped /\ DevicesTyped

\* A device is the pair of the user and the address of its tunnels.
LEMMA DeviceFacts ==
    ASSUME NEW t \in Tunnels
    PROVE  /\ DeviceOf(t) = <<UserOf[t], IpOf[t]>>
           /\ DeviceOf(t) \in Devices
           /\ DeviceOf(t)[1] = UserOf[t]
           /\ UserOf[t] \in Users
BY UserOfAssumption DEF DeviceOf, Devices

\* Init: no tunnel, no device.
LEMMA InitShape == ASSUME Init PROVE Shape
<1>1. Cardinality(update) <= 1
  BY FS_EmptySet DEF Init
<1>2. alive \in [Users -> 0..MaxAlive]
  BY MaxAliveAssumption DEF Init
<1>3. UsersTyped
  BY <1>1, <1>2 DEF Init, UsersTyped
<1>4. TunnelsTyped
  BY DEF Init, TunnelsTyped, Calls
<1>5. DevicesTyped
  BY DEF Init, DevicesTyped
<1>6. QED
  BY <1>3, <1>4, <1>5 DEF Shape

\* What the consumer leaves of the log ...
LEMMA PipeTail ==
    ASSUME NEW s \in Seq(Events), s # <<>>
    PROVE  /\ Head(s) \in Events /\ Head(s) = s[1] /\ 1 \in 1..Len(s)
           /\ Tail(s) \in Seq(Events) /\ Len(Tail(s)) = Len(s) - 1
           /\ \A i \in 1..Len(Tail(s)) : i + 1 \in 1..Len(s) /\ Tail(s)[i] = s[i + 1]
OBVIOUS

\* ... and what a tunnel adds to it.
LEMMA PipeAppend ==
    ASSUME NEW s \in Seq(Events), NEW e \in Events
    PROVE  /\ Append(s, e) \in Seq(Events) /\ Len(Append(s, e)) = Len(s) + 1
           /\ \A i \in 1..Len(s) : Append(s, e)[i] = s[i]
           /\ Append(s, e)[Len(s) + 1] = e
OBVIOUS

\* Every request to the auth server is in one of its states.
LEMMA CallsTyped ==
    ASSUME TunnelsTyped, NEW t \in Tunnels, NEW c \in Callers
    PROVE  /\ \A v \in Calls : [call EXCEPT ![t][c] = v] \in [Tunnels -> [Callers -> Calls]]
           /\ {Send(t, c), Finish(t, c), GiveUp(t, c), AskRelease(t)}
                 \subseteq [Tunnels -> [Callers -> Calls]]
<1>1. \A v \in Calls : [call EXCEPT ![t][c] = v] \in [Tunnels -> [Callers -> Calls]]
  BY DEF TunnelsTyped
<1>2. \A v \in Calls : [call EXCEPT ![t]["handler"] = v] \in [Tunnels -> [Callers -> Calls]]
  BY DEF TunnelsTyped, Callers
<1>3. {"sent", None, "abandoned", "release"} \subseteq Calls
  BY DEF Calls
<1>4. GiveUp(t, c) \in [Tunnels -> [Callers -> Calls]]
  BY <1>3 DEF GiveUp, TunnelsTyped
<1>5. QED
  BY <1>1, <1>2, <1>3, <1>4 DEF Send, Finish, AskRelease

\* The auth server and the two goroutines of a tunnel.
LEMMA TunnelShape ==
    ASSUME Shape, NEW t \in Tunnels,
           Handle(t) \/ Watch(t) \/ \E c \in Callers : Serve(t, c)
    PROVE  Shape'
<1> USE DEF Shape, userVars
<1>1. "handler" \in Callers /\ "ticker" \in Callers /\ {"yes", "no", None} \subseteq Calls
  BY DEF Callers, Calls
<1>2. ASSUME NEW c \in Callers, Serve(t, c) PROVE Shape'
  <2>1. call' \in [Tunnels -> [Callers -> Calls]]
    BY <1>1, <1>2, CallsTyped DEF Serve
  <2>2. <<UserOf[t], IpOf[t]>> \in Devices
    BY DeviceFacts
  <2>3. entries' \subseteq Devices /\ unowned' \subseteq Devices
    BY <1>2, <2>2 DEF Serve, DevicesTyped
  <2>4. QED
    BY <1>2, <2>1, <2>3 DEF Serve, UsersTyped, TunnelsTyped, DevicesTyped
<1>3. CASE Release(t)
  <2>1. call' \in [Tunnels -> [Callers -> Calls]]
    BY <1>1, <1>3, CallsTyped DEF Release
  <2>2. QED
    BY <1>3, <2>1, DeviceFacts DEF Release, Released, UsersTyped, TunnelsTyped, DevicesTyped
<1>4. CASE Connect(t) \/ Accepted(t)
  <2>1. call' \in [Tunnels -> [Callers -> Calls]]
    BY <1>1, <1>4, CallsTyped DEF Connect, Accepted
  <2>2. QED
    BY <1>4, <2>1 DEF Connect, Accepted, UsersTyped, TunnelsTyped, DevicesTyped
<1>5. CASE Refused(t)
  <2>1. call' \in [Tunnels -> [Callers -> Calls]]
    BY <1>1, <1>5, CallsTyped DEF Refused
  <2>2. unowned' \subseteq Devices
    BY <1>5, DeviceFacts DEF Refused, DevicesTyped
  <2>3. QED
    BY <1>5, <2>1, <2>2 DEF Refused, UsersTyped, TunnelsTyped, DevicesTyped
<1>6. CASE Forward(t) \/ DialFails(t)
  <2>1. call' \in [Tunnels -> [Callers -> Calls]]
    BY <1>1, <1>6, CallsTyped DEF Forward, DialFails, TunnelsTyped
  <2>2. QED
    BY <1>6, <2>1, DeviceFacts DEF Forward, DialFails, UsersTyped, TunnelsTyped, DevicesTyped
<1>7. CASE Open(t) \/ End(t)
  <2>1. \A type \in {"open", "close"} : [type |-> type, tunnel |-> t] \in Events
    BY DEF Events
  <2>2. pipe' \in Seq(Events)
    <3>1. pipe' = Emit("open", t) \/ pipe' = Emit("close", t)
      BY <1>7 DEF Open, End
    <3>2. QED
      BY <2>1, <3>1, PipeAppend DEF Emit, DevicesTyped
  <2>3. QED
    BY <1>7, <2>2 DEF Open, End, UsersTyped, TunnelsTyped, DevicesTyped
<1>8. CASE Watch(t)
  <2>1. call' \in [Tunnels -> [Callers -> Calls]]
    <3>1. call' \in {Send(t, "ticker"), Finish(t, "ticker"), GiveUp(t, "ticker"), call}
      BY <1>8 DEF Watch, Tick, Kept, Cut, StopTicker
    <3>2. QED
      BY <1>1, <3>1, CallsTyped DEF TunnelsTyped
  <2>2. QED
    BY <1>8, <2>1 DEF Watch, Tick, Kept, Cut, StopTicker, UsersTyped, TunnelsTyped, DevicesTyped
<1>9. QED
  BY <1>2, <1>3, <1>4, <1>5, <1>6, <1>7, <1>8 DEF Handle

\* The consumer.
LEMMA ConsumeShape == ASSUME Shape, Consume PROVE Shape'
<1> USE DeviceFacts, PipeTail DEF Shape, userVars, tunnelVars, Events
<1>1. CASE OpenEvent
  <2>1. Head(pipe).tunnel \in Tunnels /\ pipe' \in Seq(Events)
    BY <1>1 DEF OpenEvent, DevicesTyped
  <2>2. online' \in [Devices -> Nat]
    BY <1>1, <2>1 DEF OpenEvent, DevicesTyped
  <2>3. QED
    BY <1>1, <2>1, <2>2 DEF OpenEvent, UsersTyped, TunnelsTyped, DevicesTyped
<1>2. CASE CloseRelease
  BY <1>2 DEF CloseRelease, Released, UsersTyped, TunnelsTyped, DevicesTyped
<1>3. CASE CloseCount
  BY <1>3 DEF CloseCount, Fewer, UsersTyped, TunnelsTyped, DevicesTyped
<1>4. QED
  BY <1>1, <1>2, <1>3 DEF Consume

\* The node monitor.
LEMMA MonitorShape == ASSUME Shape, Monitor PROVE Shape'
<1> USE DEF Shape, tunnelVars
<1>1. ASSUME NEW new \in SUBSET Users, ReplaceUsers(new) PROVE Shape'
  <2>1. update' \in SUBSET SUBSET Users /\ Cardinality(update') <= 1
    <3>1. Cardinality({new}) = 1
      BY FS_Singleton
    <3>2. QED
      BY <1>1, <3>1 DEF ReplaceUsers
  <2>2. online' \in [Devices -> Nat]
    BY <1>1 DEF ReplaceUsers, StillOnline, DevicesTyped
  <2>3. QED
    BY <1>1, <2>1, <2>2 DEF ReplaceUsers, UsersTyped, TunnelsTyped, DevicesTyped
<1>2. CASE UpdateLimiter
  <2>1. update' \in SUBSET SUBSET Users /\ Cardinality(update') <= 1
    BY <1>2, FS_EmptySet DEF UpdateLimiter
  <2>2. alive' \in [Users -> 0..MaxAlive]
    BY <1>2, MaxAliveAssumption DEF UpdateLimiter, UsersTyped
  <2>3. QED
    BY <1>2, <2>1, <2>2 DEF UpdateLimiter, UsersTyped, TunnelsTyped, DevicesTyped
<1>3. CASE SetAlive
  BY <1>3 DEF SetAlive, UsersTyped, TunnelsTyped, DevicesTyped
<1>4. QED
  BY <1>1, <1>2, <1>3 DEF Monitor

\* A step that changes nothing.
LEMMA StutterShape == ASSUME Shape, UNCHANGED vars PROVE Shape'
BY DEF Shape, vars, userVars, tunnelVars, UsersTyped, TunnelsTyped, DevicesTyped

\* Every action keeps the variables in their types.
LEMMA NextShape == ASSUME Shape, [Next]_vars PROVE Shape'
BY TunnelShape, ConsumeShape, MonitorShape, StutterShape DEF Next

-------------------------------------------------------------------------------
(***************************************************************************)
(* The events of a tunnel: it is opened once, so its open event is written *)
(* once and read once.                                                     *)
(***************************************************************************)

Turn(t) ==
    /\ handler[t] = "new" => call[t]["handler"] = None
    /\ ticker[t] # "off" \/ call[t]["ticker"] # None => handler[t] \in {"open", "done"}
    /\ Unread("open", t) => t \notin counted
    /\ Unread("open", t) \/ t \in counted => handler[t] \in {"open", "done"}

OpenOnce ==
    \A i, j \in 1..Len(pipe) :
        i # j /\ pipe[i].type = "open" /\ pipe[j].type = "open" => pipe[i].tunnel # pipe[j].tunnel

InTurn == OpenOnce /\ \A t \in Tunnels : Turn(t)

\* An event is added at the end of the log ...
LEMMA EmitUnread ==
    ASSUME DevicesTyped, NEW type \in {"open", "close"}, NEW t \in Tunnels, pipe' = Emit(type, t)
    PROVE  \A e \in {"open", "close"}, s \in Tunnels :
               Unread(e, s)' <=> Unread(e, s) \/ (e = type /\ s = t)
<1> DEFINE new == [type |-> type, tunnel |-> t]
<1>1. new \in Events
  BY DEF Events
<1>2. /\ Len(pipe') = Len(pipe) + 1 /\ Len(pipe) \in Nat
      /\ \A i \in 1..Len(pipe) : pipe'[i] = pipe[i]
      /\ pipe'[Len(pipe) + 1] = new
  BY <1>1, PipeAppend DEF Emit, DevicesTyped
<1> HIDE DEF new
<1>3. ASSUME NEW e \in {"open", "close"}, NEW s \in Tunnels, Unread(e, s)'
      PROVE  Unread(e, s) \/ [type |-> e, tunnel |-> s] = new
  BY <1>2, <1>3 DEF Unread
<1>4. ASSUME NEW e \in {"open", "close"}, NEW s \in Tunnels,
             Unread(e, s) \/ [type |-> e, tunnel |-> s] = new
      PROVE  Unread(e, s)'
  BY <1>2, <1>4 DEF Unread
<1>5. \A e, s : [type |-> e, tunnel |-> s] = new <=> e = type /\ s = t
  BY DEF new
<1>6. QED
  BY <1>3, <1>4, <1>5

\* ... and keeps the open event of a tunnel the only one ...
LEMMA EmitOnce ==
    ASSUME DevicesTyped, OpenOnce, NEW type \in {"open", "close"}, NEW t \in Tunnels,
           pipe' = Emit(type, t), type = "open" => ~Unread("open", t)
    PROVE  OpenOnce'
<1> DEFINE new == [type |-> type, tunnel |-> t]
<1>1. new \in Events
  BY DEF Events
<1>2. /\ Len(pipe') = Len(pipe) + 1 /\ Len(pipe) \in Nat
      /\ \A i \in 1..Len(pipe) : pipe'[i] = pipe[i] /\ pipe[i] \in Events
      /\ pipe'[Len(pipe) + 1] = new
  BY <1>1, PipeAppend DEF Emit, DevicesTyped
<1>3. ASSUME NEW i \in 1..Len(pipe), pipe[i].type = "open", type = "open"
      PROVE  pipe[i].tunnel # t
  <2>1. pipe[i] = [type |-> pipe[i].type, tunnel |-> pipe[i].tunnel]
    BY <1>2 DEF Events
  <2>2. QED
    BY <1>3, <2>1 DEF Unread
<1>4. new.type = type /\ new.tunnel = t
  OBVIOUS
<1> HIDE DEF new
<1>5. QED
  BY <1>2, <1>3, <1>4 DEF OpenOnce

\* ... and read at its beginning.
LEMMA ReadUnread ==
    ASSUME DevicesTyped, pipe # <<>>, pipe' = Tail(pipe)
    PROVE  \A e \in {"open", "close"}, s \in Tunnels :
               /\ Unread(e, s)' => Unread(e, s)
               /\ Unread(e, s) /\ Head(pipe) # [type |-> e, tunnel |-> s] => Unread(e, s)'
               /\ Head(pipe) = [type |-> e, tunnel |-> s] => Unread(e, s)
               /\ Head(pipe) = [type |-> "open", tunnel |-> s] /\ OpenOnce => ~Unread("open", s)'
<1>1. /\ Head(pipe) = pipe[1] /\ 1 \in 1..Len(pipe)
      /\ Len(pipe') = Len(pipe) - 1 /\ Len(pipe) \in Nat
      /\ \A i \in 1..Len(pipe') : i + 1 \in 1..Len(pipe) /\ pipe'[i] = pipe[i + 1]
  BY PipeTail DEF DevicesTyped
<1>2. TAKE e \in {"open", "close"}, s \in Tunnels
<1>3. Unread(e, s)' => Unread(e, s)
  BY <1>1 DEF Unread
<1>4. ASSUME Unread(e, s), Head(pipe) # [type |-> e, tunnel |-> s] PROVE Unread(e, s)'
  <2>1. PICK i \in 1..Len(pipe) : pipe[i] = [type |-> e, tunnel |-> s]
    BY <1>4 DEF Unread
  <2>2. i - 1 \in 1..Len(pipe')
    BY <1>1, <1>4, <2>1
  <2>3. pipe'[i - 1] = pipe[i]
    BY <1>1, <2>2
  <2>4. QED
    BY <2>1, <2>2, <2>3 DEF Unread
<1>5. Head(pipe) = [type |-> e, tunnel |-> s] => Unread(e, s)
  BY <1>1 DEF Unread
<1>6. ASSUME Head(pipe) = [type |-> "open", tunnel |-> s], OpenOnce, Unread("open", s)'
      PROVE  FALSE
  <2>1. PICK i \in 1..Len(pipe') : pipe'[i] = [type |-> "open", tunnel |-> s]
    BY <1>6 DEF Unread
  <2>2. pipe[i + 1] = [type |-> "open", tunnel |-> s] /\ i + 1 \in 1..Len(pipe) /\ i + 1 # 1
    BY <1>1, <2>1
  <2>3. QED
    BY <1>1, <1>6, <2>2 DEF OpenOnce
<1>7. QED
  BY <1>3, <1>4, <1>5, <1>6

\* Init: nothing is written.
LEMMA InitInTurn == ASSUME Init PROVE InTurn
BY DEF Init, InTurn, OpenOnce, Turn, Unread, Callers

\* The steps that write nothing and count nothing.
LEMMA QuietInTurn ==
    ASSUME InTurn, UNCHANGED <<pipe, counted>>,
           \A t \in Tunnels :
              /\ handler'[t] = "new" => call'[t]["handler"] = None
              /\ ticker'[t] # "off" \/ call'[t]["ticker"] # None => handler'[t] \in {"open",
                  "done"}
              /\ handler[t] \in {"open", "done"} => handler'[t] \in {"open", "done"}
    PROVE  InTurn'
BY DEF InTurn, OpenOnce, Turn, Unread

\* ServeHTTP, reportActiveTunnel and the auth server.
LEMMA TunnelInTurn ==
    ASSUME Shape, InTurn, NEW t \in Tunnels,
           Handle(t) \/ Watch(t) \/ \E c \in Callers : Serve(t, c)
    PROVE  InTurn'
<1> USE DEF Shape, TunnelsTyped, InTurn, Turn
<1>1. "handler" \in Callers /\ "ticker" \in Callers
  BY DEF Callers
<1>2. ASSUME NEW c \in Callers, Serve(t, c) PROVE InTurn'
  BY <1>1, <1>2, QuietInTurn DEF Serve, None
<1>3. CASE Release(t)
  BY <1>1, <1>3, QuietInTurn DEF Release
<1>4. CASE Connect(t) \/ Accepted(t) \/ Refused(t)
  BY <1>1, <1>4, QuietInTurn DEF Connect, Accepted, Refused, Send, Finish, GiveUp
<1>5. CASE Forward(t) \/ DialFails(t)
  BY <1>1, <1>5, QuietInTurn DEF Forward, DialFails, AskRelease
<1>6. CASE Watch(t)
  BY <1>1, <1>6, QuietInTurn DEF Watch, Tick, Kept, Cut, StopTicker, Send, Finish, GiveUp
<1>7. CASE Open(t)
  <2>1. \A e \in {"open", "close"}, s \in Tunnels :
            Unread(e, s)' <=> Unread(e, s) \/ (e = "open" /\ s = t)
    BY <1>7, EmitUnread DEF Open
  <2>2. OpenOnce'
    BY <1>7, EmitOnce DEF Open
  <2>3. \A s \in Tunnels : Turn(s)'
    BY <1>7, <2>1 DEF Open
  <2>4. QED
    BY <2>2, <2>3
<1>8. CASE End(t)
  <2>1. \A e \in {"open", "close"}, s \in Tunnels :
            Unread(e, s)' <=> Unread(e, s) \/ (e = "close" /\ s = t)
    BY <1>8, EmitUnread DEF End
  <2>2. OpenOnce'
    BY <1>8, EmitOnce DEF End
  <2>3. \A s \in Tunnels : Turn(s)'
    BY <1>8, <2>1 DEF End
  <2>4. QED
    BY <2>2, <2>3
<1>9. QED
  BY <1>2, <1>3, <1>4, <1>5, <1>6, <1>7, <1>8 DEF Handle

\* What is read leaves the other events as they were.
LEMMA ReadOnce ==
    ASSUME pipe \in Seq(Events), pipe # <<>>, pipe' = Tail(pipe), OpenOnce
    PROVE  OpenOnce'
<1> SUFFICES ASSUME NEW i \in 1..Len(pipe'), NEW j \in 1..Len(pipe'), i # j,
                    pipe'[i].type = "open", pipe'[j].type = "open"
             PROVE  pipe'[i].tunnel # pipe'[j].tunnel
  BY DEF OpenOnce
<1>1. /\ i + 1 \in 1..Len(pipe) /\ pipe'[i] = pipe[i + 1]
      /\ j + 1 \in 1..Len(pipe) /\ pipe'[j] = pipe[j + 1]
  BY PipeTail
<1>2. i + 1 # j + 1
  OBVIOUS
<1>3. QED
  BY <1>1, <1>2 DEF OpenOnce

\* The consumer and the node monitor.
LEMMA ServerInTurn == ASSUME Shape, InTurn, Consume \/ Monitor PROVE InTurn'
<1> USE DEF Shape, TunnelsTyped, tunnelVars
<1>1. CASE OpenEvent
  <2>1. PICK t \in Tunnels :
            t = Head(pipe).tunnel /\ Head(pipe) = [type |-> "open", tunnel |-> t]
    BY <1>1, PipeTail DEF OpenEvent, DevicesTyped, Events
  <2>2. UNCHANGED <<handler, ticker, call>> /\ counted' = counted \cup {t}
    BY <1>1, <2>1 DEF OpenEvent
  <2>3. /\ \A s \in Tunnels : Unread("open", s)' => Unread("open", s)
        /\ Unread("open", t) /\ ~Unread("open", t)'
    BY <1>1, <2>1, ReadUnread DEF OpenEvent, InTurn
  <2>4. \A s \in Tunnels : Turn(s)'
    BY <2>2, <2>3 DEF InTurn, Turn
  <2>5. OpenOnce'
    BY <1>1, ReadOnce DEF OpenEvent, DevicesTyped, InTurn
  <2>6. QED
    BY <2>4, <2>5 DEF InTurn
<1>2. CASE CloseRelease
  <2>1. OpenOnce'
    BY <1>2, ReadOnce DEF CloseRelease, DevicesTyped, InTurn
  <2>2. UNCHANGED <<handler, ticker, call, counted>>
    BY <1>2 DEF CloseRelease
  <2>3. \A s \in Tunnels : Unread("open", s)' => Unread("open", s)
    BY <1>2, ReadUnread DEF CloseRelease
  <2>4. \A s \in Tunnels : Turn(s)'
    BY <2>2, <2>3 DEF InTurn, Turn
  <2>5. QED
    BY <2>1, <2>4 DEF InTurn
<1>3. CASE CloseCount
  BY <1>3 DEF CloseCount, InTurn, OpenOnce, Turn, Unread
<1>4. CASE Monitor
  BY <1>4 DEF Monitor, ReplaceUsers, UpdateLimiter, SetAlive, InTurn, OpenOnce, Turn, Unread
<1>5. QED
  BY <1>1, <1>2, <1>3, <1>4 DEF Consume

\* Every action keeps the events of a tunnel in their turn.
LEMMA NextInTurn == ASSUME Shape, InTurn, [Next]_vars PROVE InTurn'
<1>1. CASE UNCHANGED vars
  BY <1>1 DEF vars, tunnelVars, InTurn, OpenOnce, Turn, Unread
<1>2. QED
  BY <1>1, TunnelInTurn, ServerInTurn DEF Next

-------------------------------------------------------------------------------
(***************************************************************************)
(* s.online.                                                               *)
(***************************************************************************)

OfDevice(S, d) == {t \in S : DeviceOf(t) = d}

\* The tunnels of a device are a finite set, and one event adds or takes one.
LEMMA CountedFacts ==
    ASSUME NEW S \in SUBSET Tunnels, NEW t \in Tunnels, NEW d
    PROVE  /\ Cardinality(OfDevice(S, d)) \in 0..Cardinality(Tunnels)
           /\ Cardinality(Tunnels) \in Nat
           /\ DeviceOf(t) # d =>
                 OfDevice(S \cup {t}, d) = OfDevice(S, d) /\ OfDevice(S \ {t}, d) = OfDevice(S, d)
           /\ DeviceOf(t) = d /\ t \notin S =>
                 Cardinality(OfDevice(S \cup {t}, d)) = Cardinality(OfDevice(S, d)) + 1
           /\ DeviceOf(t) = d /\ t \in S =>
                 Cardinality(OfDevice(S, d)) = Cardinality(OfDevice(S \ {t}, d)) + 1
           /\ t \notin S => S \ {t} = S
<1>1. IsFiniteSet(OfDevice(S, d)) /\ OfDevice(S, d) \subseteq Tunnels
  BY TunnelsAssumption, FS_Subset DEF OfDevice
<1>2. Cardinality(OfDevice(S, d)) \in 0..Cardinality(Tunnels) /\ Cardinality(Tunnels) \in Nat
  BY <1>1, TunnelsAssumption, FS_Subset, FS_CardinalityType
<1>3. DeviceOf(t) # d =>
        OfDevice(S \cup {t}, d) = OfDevice(S, d) /\ OfDevice(S \ {t}, d) = OfDevice(S, d)
  BY DEF OfDevice
<1>4. ASSUME DeviceOf(t) = d, t \notin S
      PROVE  Cardinality(OfDevice(S \cup {t}, d)) = Cardinality(OfDevice(S, d)) + 1
  <2>1. OfDevice(S \cup {t}, d) = OfDevice(S, d) \cup {t} /\ t \notin OfDevice(S, d)
    BY <1>4 DEF OfDevice
  <2>2. QED
    BY <1>1, <2>1, FS_AddElement
<1>5. ASSUME DeviceOf(t) = d, t \in S
      PROVE  Cardinality(OfDevice(S, d)) = Cardinality(OfDevice(S \ {t}, d)) + 1
  <2>1. OfDevice(S \ {t}, d) = OfDevice(S, d) \ {t} /\ t \in OfDevice(S, d)
    BY <1>5 DEF OfDevice
  <2>2. Cardinality(OfDevice(S, d) \ {t}) = Cardinality(OfDevice(S, d)) - 1
    BY <1>1, <2>1, FS_RemoveElement
  <2>3. Cardinality(OfDevice(S, d)) \in Nat
    BY <1>1, FS_CardinalityType
  <2>4. QED
    BY <2>1, <2>2, <2>3, SMTT(30)
<1>6. t \notin S => S \ {t} = S
  OBVIOUS
<1>7. QED
  BY <1>2, <1>3, <1>4, <1>5, <1>6

\* OnlineNeverOvercounts in these terms.
LEMMA Overcounts ==
    OnlineNeverOvercounts <=> \A d \in Devices : online[d] <= Cardinality(OfDevice(counted, d))
BY DEF OnlineNeverOvercounts, OfDevice

\* handleEventLine and replaceUsers keep the count below what the events say.
LEMMA NextCounts ==
    ASSUME Shape, InTurn, OnlineNeverOvercounts, [Next]_vars
    PROVE  OnlineNeverOvercounts'
<1> USE DEF Shape, DevicesTyped
<1>1. CASE UNCHANGED <<online, counted>>
  BY <1>1 DEF OnlineNeverOvercounts
<1>2. CASE OpenEvent
  <2>1. PICK t \in Tunnels :
            t = Head(pipe).tunnel /\ Head(pipe) = [type |-> "open", tunnel |-> t]
    BY <1>2, PipeTail DEF OpenEvent, Events
  <2>2. t \notin counted
    BY <1>2, <2>1, ReadUnread DEF OpenEvent, InTurn, Turn
  <2>3. online' = [online EXCEPT ![DeviceOf(t)] = @ + 1] /\ counted' = counted \cup {t}
    BY <1>2, <2>1 DEF OpenEvent
  <2>4. SUFFICES ASSUME NEW d \in Devices
                 PROVE  online'[d] <= Cardinality(OfDevice(counted', d))
    BY DEF OnlineNeverOvercounts, OfDevice
  <2>5. online[d] <= Cardinality(OfDevice(counted, d))
    BY Overcounts
  <2>6. QED
    BY <2>1, <2>2, <2>3, <2>5, CountedFacts
<1>3. CASE CloseCount
  <2>1. /\ releasing \in Tunnels /\ counted' = counted \ {releasing}
        /\ online' = [online EXCEPT ![DeviceOf(releasing)] = Fewer(@)]
    BY <1>3 DEF CloseCount
  <2>2. SUFFICES ASSUME NEW d \in Devices
                 PROVE  online'[d] <= Cardinality(OfDevice(counted', d))
    BY DEF OnlineNeverOvercounts, OfDevice
  <2>3. online[d] <= Cardinality(OfDevice(counted, d))
    BY Overcounts
  <2>4. /\ Cardinality(OfDevice(counted, d)) \in Nat
        /\ Cardinality(OfDevice(counted \ {releasing}, d)) \in Nat
    BY TunnelsAssumption, FS_Subset, FS_CardinalityType DEF OfDevice
  <2>5. CASE DeviceOf(releasing) # d
    <3>1. OfDevice(counted', d) = OfDevice(counted, d) /\ online'[d] = online[d]
      BY <2>1, <2>5 DEF OfDevice
    <3>2. QED
      BY <2>3, <3>1
  <2>6. CASE DeviceOf(releasing) = d
    <3>1. online'[d] = Fewer(online[d]) /\ online[d] \in Nat
      BY <2>1, <2>6
    <3>2. CASE releasing \in counted
      <4>1. Cardinality(OfDevice(counted, d))
              = Cardinality(OfDevice(counted \ {releasing}, d)) + 1
        BY <2>1, <2>6, <3>2, CountedFacts
      <4>2. QED
        BY <2>1, <2>3, <2>4, <3>1, <4>1 DEF Fewer
    <3>3. CASE releasing \notin counted
      <4>1. counted' = counted
        BY <2>1, <3>3
      <4>2. QED
        BY <2>3, <2>4, <3>1, <4>1 DEF Fewer
    <3>4. QED
      BY <3>2, <3>3
  <2>7. QED
    BY <2>5, <2>6
<1>4. ASSUME NEW new \in SUBSET Users, ReplaceUsers(new) PROVE OnlineNeverOvercounts'
  <2>1. counted' = counted /\ \A d \in Devices : online'[d] \in {online[d], 0}
    BY <1>4 DEF ReplaceUsers, StillOnline
  <2>2. \A d \in Devices : Cardinality(OfDevice(counted, d)) \in Nat
    BY TunnelsAssumption, FS_Subset, FS_CardinalityType DEF OfDevice
  <2>3. QED
    BY <2>1, <2>2 DEF OnlineNeverOvercounts, OfDevice
<1>5. QED
  BY <1>1, <1>2, <1>3, <1>4
     DEF Next, Handle, Watch, Consume, Monitor, vars, Serve, Release, Connect, Accepted, Refused,
         Forward, DialFails, Open, End, Tick, Kept, Cut, StopTicker, CloseRelease, UpdateLimiter,
         SetAlive
-------------------------------------------------------------------------------
(***************************************************************************)
(* The limiter's registrations.                                            *)
(***************************************************************************)

\* A tunnel whose ServeHTTP or whose unread close event releases its device.
Owns(t) ==
    \/ handler[t] \in {"dial", "open"}
    \/ call[t]["handler"] \in {"yes", "release"}
    \/ Unread("close", t)

Owned ==
    /\ \A d \in entries : d[1] \in limited
    /\ \A d \in entries \ unowned : \E t \in Tunnels : DeviceOf(t) = d /\ Owns(t)

\* A step that adds no device, and takes the owner of none that stays.
LEMMA OwnersKept ==
    ASSUME Owned, \A d \in entries' : d[1] \in limited',
           entries' \ unowned' \subseteq entries \ unowned,
           \A s \in Tunnels : Owns(s) /\ DeviceOf(s) \in entries' \ unowned' => Owns(s)'
    PROVE  Owned'
BY DEF Owned

\* The auth server: an admitted device is owned by the request that waits for
\* the answer, or by the open tunnel whose ticker asks.
LEMMA ServeOwned ==
    ASSUME Shape, InTurn, Owned, NEW t \in Tunnels, NEW c \in Callers, Serve(t, c)
    PROVE  Owned'
<1> USE DEF Shape, TunnelsTyped
<1>1. DeviceOf(t) = <<UserOf[t], IpOf[t]>> /\ DeviceOf(t)[1] = UserOf[t]
  BY DeviceFacts
<1>2. "handler" \in Callers /\ "ticker" \in Callers /\ c \in {"handler", "ticker"}
  BY DEF Callers
<1>3. UNCHANGED <<limited, handler, pipe>> /\ call[t][c] \in {"sent", "abandoned"}
  BY DEF Serve, userVars
<1>4. \A s \in Tunnels : Owns(s) => Owns(s)'
  <2>1. \A s \in Tunnels, b \in Callers : s # t \/ b # c => call'[s][b] = call[s][b]
    BY DEF Serve
  <2>2. \A s \in Tunnels : Unread("close", s)' <=> Unread("close", s)
    BY <1>3 DEF Unread
  <2>3. QED
    BY <1>2, <1>3, <2>1, <2>2 DEF Owns
<1>5. CASE Admits(UserOf[t], IpOf[t])
  <2>1. entries' = entries \cup {DeviceOf(t)} /\ UserOf[t] \in limited /\ unowned \subseteq unowned'
    BY <1>1, <1>5 DEF Serve, Admits
  <2>2. ASSUME DeviceOf(t) \notin unowned' PROVE Owns(t)'
    <3>1. call[t][c] = "sent" /\ handler[t] # "done"
      BY <1>1, <1>5, <2>2 DEF Serve
    <3>2. call'[t][c] = "yes"
      BY <1>5, <3>1 DEF Serve
    <3>3. c = "ticker" => handler[t] = "open"
      BY <3>1 DEF InTurn, Turn, None
    <3>4. QED
      BY <1>2, <1>3, <3>2, <3>3 DEF Owns
  <2>3. QED
    BY <1>1, <1>3, <1>4, <2>1, <2>2 DEF Owned
<1>6. CASE ~Admits(UserOf[t], IpOf[t])
  <2>1. UNCHANGED <<entries, unowned>>
    BY <1>6 DEF Serve
  <2>2. QED
    BY <1>3, <1>4, <2>1, OwnersKept DEF Owned
<1>7. QED
  BY <1>5, <1>6

\* ServeHTTP and reportActiveTunnel.
LEMMA TunnelOwned ==
    ASSUME Shape, InTurn, Owned, NEW t \in Tunnels, Handle(t) \/ Watch(t)
    PROVE  Owned'
<1> USE DEF Shape, TunnelsTyped, userVars
<1>1. "handler" \in Callers /\ "ticker" \in Callers
  BY DEF Callers
<1>2. limited' = limited /\ \A d \in entries : d[1] \in limited
  BY DEF Handle, Watch, Release, Connect, Accepted, Refused, Forward, DialFails, Open, End,
         Tick, Kept, Cut, StopTicker, Owned
<1>3. CASE Release(t)
  <2>1. \A s \in Tunnels : s # t /\ Owns(s) => Owns(s)'
    BY <1>1, <1>3 DEF Release, Owns, Unread
  <2>2. entries' \subseteq entries /\ entries' \ unowned' = (entries \ unowned) \ {DeviceOf(t)}
    BY <1>3 DEF Release, Released
  <2>3. QED
    BY <1>2, <2>1, <2>2, OwnersKept
<1>4. CASE Connect(t) \/ Accepted(t) \/ DialFails(t)
  <2>1. \A s \in Tunnels : Unread("close", s)' <=> Unread("close", s)
    BY <1>4 DEF Connect, Accepted, DialFails, Unread
  <2>2. \A s \in Tunnels : Owns(s) => Owns(s)'
    BY <1>1, <1>4, <2>1 DEF Connect, Accepted, DialFails, Send, Finish, AskRelease, Owns,
                            InTurn, Turn, None
  <2>3. QED
    BY <1>2, <1>4, <2>2, OwnersKept DEF Connect, Accepted, DialFails
<1>5. CASE Refused(t)
  <2>1. \A s \in Tunnels : Owns(s) /\ DeviceOf(s) \notin unowned' => Owns(s)'
    BY <1>1, <1>5 DEF Refused, Finish, GiveUp, Owns, Unread
  <2>2. entries' = entries /\ unowned \subseteq unowned'
    BY <1>5 DEF Refused
  <2>3. QED
    BY <1>2, <2>1, <2>2, OwnersKept
<1>6. CASE Forward(t)
  <2>1. \A s \in Tunnels : Owns(s) /\ DeviceOf(s) \notin unowned' => Owns(s)'
    BY <1>1, <1>6 DEF Forward, Owns, Unread
  <2>2. entries' = entries /\ unowned \subseteq unowned'
    BY <1>6 DEF Forward
  <2>3. QED
    BY <1>2, <2>1, <2>2, OwnersKept
<1>7. CASE Open(t)
  <2>1. \A s \in Tunnels : Unread("close", s) => Unread("close", s)'
    BY <1>7, EmitUnread DEF Open
  <2>2. QED
    BY <1>2, <1>7, <2>1, OwnersKept DEF Open, Owns
<1>8. CASE End(t)
  <2>1. Unread("close", t)' /\ \A s \in Tunnels : Unread("close", s) => Unread("close", s)'
    BY <1>8, EmitUnread DEF End
  <2>2. QED
    BY <1>2, <1>8, <2>1, OwnersKept DEF End, Owns
<1>9. CASE Watch(t)
  <2>1. UNCHANGED <<handler, entries, unowned, pipe>>
    BY <1>9 DEF Watch, Tick, Kept, Cut, StopTicker
  <2>2. \A s \in Tunnels : call'[s]["handler"] = call[s]["handler"]
    BY <1>1, <1>9 DEF Watch, Tick, Kept, Cut, StopTicker, Send, Finish, GiveUp
  <2>3. QED
    BY <1>2, <2>1, <2>2, OwnersKept DEF Owns, Unread
<1>10. QED
  BY <1>3, <1>4, <1>5, <1>6, <1>7, <1>8, <1>9 DEF Handle

\* The consumer and the node monitor: what they take, they take from both.
LEMMA ServerOwned == ASSUME Shape, Owned, Consume \/ Monitor PROVE Owned'
<1> USE DEF Shape, userVars, tunnelVars
<1>1. UNCHANGED <<handler, call>>
  BY DEF Consume, Monitor, OpenEvent, CloseRelease, CloseCount, ReplaceUsers, UpdateLimiter,
         SetAlive
<1>2. CASE OpenEvent
  <2>1. \A s \in Tunnels : Unread("close", s) => Unread("close", s)'
    <3>1. \A s \in Tunnels : Head(pipe) # [type |-> "close", tunnel |-> s]
      BY <1>2 DEF OpenEvent
    <3>2. pipe # <<>> /\ pipe' = Tail(pipe)
      BY <1>2 DEF OpenEvent
    <3>3. QED
      BY <3>1, <3>2, ReadUnread
  <2>2. QED
    BY <1>1, <1>2, <2>1, OwnersKept DEF OpenEvent, Owns, Owned
<1>3. CASE CloseRelease
  <2>1. \A s \in Tunnels : Unread("close", s) /\ s # Head(pipe).tunnel => Unread("close", s)'
    <3>1. \A s \in Tunnels : s # Head(pipe).tunnel => Head(pipe) # [type |-> "close",
        tunnel |-> s]
      OBVIOUS
    <3>2. pipe # <<>> /\ pipe' = Tail(pipe)
      BY <1>3 DEF CloseRelease
    <3>3. QED
      BY <3>1, <3>2, ReadUnread
  <2>2. /\ entries' \subseteq entries
        /\ entries' \ unowned' = (entries \ unowned) \ {DeviceOf(Head(pipe).tunnel)}
    BY <1>3 DEF CloseRelease, Released
  <2>3. limited' = limited /\ \A d \in entries : d[1] \in limited
    BY <1>3 DEF CloseRelease, Owned
  <2>4. QED
    BY <1>1, <2>1, <2>2, <2>3, OwnersKept DEF Owns
<1>4. CASE CloseCount
  BY <1>4 DEF CloseCount, Owned, Owns, Unread
<1>5. CASE Monitor
  <2>1. \A s \in Tunnels : Owns(s) => Owns(s)'
    BY <1>1, <1>5 DEF Monitor, ReplaceUsers, UpdateLimiter, SetAlive, Owns, Unread
  <2>2. \A d \in entries' : d[1] \in limited'
    BY <1>5 DEF Monitor, ReplaceUsers, UpdateLimiter, SetAlive, Owned
  <2>3. entries' \ unowned' \subseteq entries \ unowned
    BY <1>5 DEF Monitor, ReplaceUsers, UpdateLimiter, SetAlive
  <2>4. QED
    BY <2>1, <2>2, <2>3, OwnersKept
<1>6. QED
  BY <1>2, <1>3, <1>4, <1>5 DEF Consume

-------------------------------------------------------------------------------
DeviceInv == Shape /\ InTurn /\ OnlineNeverOvercounts /\ Owned

\* The auth server, the forward proxy, the consumer of its log and the node
\* monitor keep the devices in order: an open event is written and read once, a
\* count of s.online is covered by tunnels, and a registered device has an owner.
THEOREM DevicesInvariant == Spec => []DeviceInv
<1>1. Init => DeviceInv
  <2>1. ASSUME Init PROVE OnlineNeverOvercounts /\ Owned
    <3>1. \A d \in Devices : Cardinality({t \in counted : DeviceOf(t) = d}) = 0
      BY <2>1, FS_EmptySet DEF Init
    <3>2. QED
      BY <2>1, <3>1 DEF Init, OnlineNeverOvercounts, Owned
  <2>2. QED
    BY <2>1, InitShape, InitInTurn DEF DeviceInv
<1>2. DeviceInv /\ [Next]_vars => DeviceInv'
  <2>1. SUFFICES ASSUME DeviceInv, [Next]_vars PROVE DeviceInv'
    OBVIOUS
  <2>2. Shape' /\ InTurn' /\ OnlineNeverOvercounts'
    BY <2>1, NextShape, NextInTurn, NextCounts DEF DeviceInv
  <2>3. Owned'
    <3>1. CASE UNCHANGED vars
      BY <2>1, <3>1 DEF DeviceInv, vars, userVars, tunnelVars, Owned, Owns, Unread
    <3>2. QED
      BY <2>1, <3>1, ServeOwned, TunnelOwned, ServerOwned DEF DeviceInv, Next
  <2>4. QED
    BY <2>2, <2>3 DEF DeviceInv
<1>3. QED
  BY <1>1, <1>2, PTL DEF Spec

\* The limiter and s.online only know devices of proxy requests, and a count of
\* s.online never exceeds the number of tunnels.
THEOREM DevicesTypedOK == Spec => []TypeOK
<1>1. DeviceInv => TypeOK
  <2>1. SUFFICES ASSUME DeviceInv PROVE TypeOK
    OBVIOUS
  <2>2. ASSUME NEW d \in Devices PROVE online[d] \in 0..Cardinality(Tunnels)
    <3>1. /\ Cardinality(OfDevice(counted, d)) <= Cardinality(Tunnels)
          /\ Cardinality(OfDevice(counted, d)) \in Nat /\ Cardinality(Tunnels) \in Nat
      BY <2>1, TunnelsAssumption, FS_Subset, FS_CardinalityType
         DEF DeviceInv, Shape, DevicesTyped, OfDevice
    <3>2. online[d] <= Cardinality(OfDevice(counted, d)) /\ online[d] \in Nat
      BY <2>1, Overcounts DEF DeviceInv, Shape, DevicesTyped
    <3>3. QED
      BY <3>1, <3>2
  <2>3. online \in [Devices -> 0..Cardinality(Tunnels)]
    BY <2>1, <2>2 DEF DeviceInv, Shape, DevicesTyped
  <2>4. QED
    BY <2>1, <2>3
       DEF DeviceInv, Shape, UsersTyped, TunnelsTyped, DevicesTyped, Calls, TypeOK
<1>2. QED
  BY <1>1, DevicesInvariant, PTL

\* handleEventLine and replaceUsers: s.online never counts more tunnels of a
\* device than the events read so far have opened and not closed.
THEOREM OnlineCovered == Spec => []OnlineNeverOvercounts
BY DevicesInvariant, PTL DEF DeviceInv

\* releaseOnFailure and the close event: a device the limiter knows has a tunnel
\* that will release it, unless an authorize was answered to nobody, came from a
\* ticker whose tunnel had ended, or belonged to a plain proxy request.
THEOREM DevicesOwned == Spec => []RegistrationsOwned
<1>1. DeviceInv => RegistrationsOwned
  <2>1. \A t \in Tunnels : Owns(t) => Holding(t)
    BY DEF Owns, Holding, Unread, Callers, None
  <2>2. QED
    BY <2>1 DEF DeviceInv, Owned, RegistrationsOwned
<1>2. QED
  BY <1>1, DevicesInvariant, PTL
===============================================================================
