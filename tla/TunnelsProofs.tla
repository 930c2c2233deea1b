----------------------------- MODULE TunnelsProofs -----------------------------
(***************************************************************************)
(* First the metered tunnel alone, for every set of chunk sizes and every  *)
(* bound.  The argument: reported only ever moves up to a value total has  *)
(* had, so the compare-and-swap of a reporter succeeds exactly when nobody *)
(* has reported since its load, and what it takes is what reported gains.  *)
(*                                                                         *)
(* Then a metered tunnel among others that share a rate limiter: it is a   *)
(* tunnel of Metering, so that what is proved there holds here too, and    *)
(* the limiter they share is one bucket.                                   *)
(*                                                                         *)
(* Last one direction of a tunnel with its padding.  What can be read is   *)
(* always what some client would send from there on, so that a header is   *)
(* read where a client has put one; and what a client takes off the frames *)
(* it has whole does not change with the bytes that follow.  Both are      *)
(* recursive functions of the messages, and what they compute is shown by  *)
(* induction from the least number of a set.                               *)
(***************************************************************************)
EXTENDS Tunnels, Padding, SequenceTheorems, WellFoundedInduction, TLAPS

\* streamStats is zero and nobody reports.
LEMMA InitHolds == Init => IInv
<1> SUFFICES ASSUME Init PROVE IInv
  OBVIOUS
<1> USE DEF Init, Nothing, Reporters, Steps
<1>1. TypeOK
  BY DEF TypeOK
<1>2. EachByteOnce /\ DeltaSound /\ HandlerSawAll
  BY DEF EachByteOnce, DeltaSound, HandlerSawAll
<1> QED BY <1>1, <1>2 DEF IInv

\* A stream adds to the total, which only the handler's last report freezes.
LEMMA CopyHolds == IInv /\ Copy => IInv'
<1> SUFFICES ASSUME IInv, Copy PROVE IInv'
  OBVIOUS
<1> USE ChunksAssumption DEF IInv
<1>1. PICK n \in Chunks : total' = total + n
  BY DEF Copy
<1>2. n \in Nat /\ total \in Nat
  BY <1>1 DEF TypeOK
<1>3. copying /\ UNCHANGED <<reported, copying, at, current, previous, held, emitted>>
  BY DEF Copy
<1>4. TypeOK'
  BY <1>1, <1>2, <1>3 DEF TypeOK
<1>5. EachByteOnce'
  BY <1>1, <1>2, <1>3 DEF EachByteOnce, TypeOK
<1>6. DeltaSound'
  BY <1>1, <1>2, <1>3 DEF DeltaSound, TypeOK
<1>7. HandlerSawAll'
  BY <1>3 DEF HandlerSawAll, TypeOK, Reporters, Steps
<1> QED BY <1>4, <1>5, <1>6, <1>7

\* The streams end.
LEMMA EndHolds == IInv /\ EndStreams => IInv'
<1> SUFFICES ASSUME IInv, EndStreams PROVE IInv'
  OBVIOUS
<1> USE DEF IInv, EndStreams
<1>1. TypeOK' /\ EachByteOnce' /\ DeltaSound'
  BY DEF TypeOK, EachByteOnce, DeltaSound
<1>2. HandlerSawAll'
  BY DEF HandlerSawAll, TypeOK, Reporters
<1> QED BY <1>1, <1>2

\* A reporter starts deltaSinceLast; the handler does so after the streams.
LEMMA BeginHolds == ASSUME NEW r \in Reporters, IInv, Begin(r) PROVE IInv'
<1> USE DEF IInv, Begin, Go
<1>1. TypeOK'
  BY DEF TypeOK, Steps
<1>2. EachByteOnce'
  BY DEF EachByteOnce
<1>3. DeltaSound'
  BY DEF DeltaSound, TypeOK
<1>4. HandlerSawAll'
  BY DEF HandlerSawAll, TypeOK, Reporters
<1> QED BY <1>1, <1>2, <1>3, <1>4

\* What a reporter loads from the total is at most the total from then on.
LEMMA LoadTotalHolds == ASSUME NEW r \in Reporters, IInv, LoadTotal(r) PROVE IInv'
<1> USE DEF IInv, LoadTotal, Go
<1>1. TypeOK'
  BY DEF TypeOK, Steps
<1>2. EachByteOnce'
  BY DEF EachByteOnce
<1>3. DeltaSound'
  BY DEF DeltaSound, TypeOK
<1>4. HandlerSawAll'
  BY DEF HandlerSawAll, TypeOK, Reporters
<1> QED BY <1>1, <1>2, <1>3, <1>4

\* A handler that finds nothing new finds everything reported.
LEMMA LoadReportedHolds == ASSUME NEW r \in Reporters, IInv, LoadReported(r) PROVE IInv'
<1> USE DEF IInv, LoadReported, Go
<1>1. TypeOK'
  BY DEF TypeOK, Steps
<1>2. EachByteOnce'
  BY DEF EachByteOnce
<1>3. DeltaSound'
  <2>1. current[r] \in Nat /\ reported \in Nat
    BY DEF TypeOK
  <2> QED BY <2>1 DEF DeltaSound, TypeOK
<1>4. HandlerSawAll'
  <2>1. current["handler"] \in Nat /\ reported \in Nat /\ reported <= total /\ total \in Nat
    BY DEF TypeOK, EachByteOnce, Reporters
  <2> QED BY <2>1 DEF HandlerSawAll, TypeOK, Reporters
<1> QED BY <1>1, <1>2, <1>3, <1>4

\* A swap that succeeds moves reported up by what the reporter takes; one that
\* fails changes nothing.
LEMMA SwapHolds == ASSUME NEW r \in Reporters, IInv, Swap(r) PROVE IInv'
<1> USE DEF IInv
<1> DEFINE taken == current[r] - previous[r]
<1>1. /\ current[r] \in Nat /\ previous[r] \in Nat /\ previous[r] < current[r]
      /\ current[r] <= total /\ held[r] = 0
      /\ total \in Nat /\ reported \in Nat /\ emitted \in Nat
  BY DEF TypeOK, DeltaSound, Swap
<1>2. taken \in Nat
  BY <1>1
<1>3. UNCHANGED <<total, copying, current, previous, emitted>>
  BY DEF Swap
<1>4. CASE reported # previous[r]
  <2>1. at' = [at EXCEPT ![r] = "total"] /\ UNCHANGED <<reported, held>>
    BY <1>4 DEF Swap, Go
  <2>2. TypeOK' /\ EachByteOnce'
    BY <2>1, <1>3 DEF TypeOK, EachByteOnce, Steps
  <2>3. DeltaSound'
    BY <2>1, <1>3 DEF DeltaSound, TypeOK, Swap
  <2>4. HandlerSawAll'
    BY <2>1, <1>3 DEF HandlerSawAll, TypeOK, Reporters, Swap
  <2> QED BY <2>2, <2>3, <2>4
<1>5. CASE reported = previous[r]
  <2>1. /\ at' = [at EXCEPT ![r] = "emit"]
        /\ reported' = current[r]
        /\ held' = [held EXCEPT ![r] = taken]
    BY <1>5 DEF Swap, Go
  <2> HIDE DEF taken
  <2>2. TypeOK'
    BY <1>1, <1>2, <1>3, <2>1 DEF TypeOK, Steps
  <2>3. reported' = reported + taken
    BY <1>1, <1>5, <2>1 DEF taken
  <2>4. /\ held["ticker"] \in Nat /\ held["handler"] \in Nat
        /\ held'["ticker"] + held'["handler"] = held["ticker"] + held["handler"] + taken
    BY <1>1, <1>2, <2>1 DEF TypeOK, Reporters
  <2>5. EachByteOnce'
    <3>1. held'["ticker"] \in Nat /\ held'["handler"] \in Nat
      BY <2>2 DEF TypeOK, Reporters
    <3> QED BY <1>1, <1>2, <1>3, <2>1, <2>3, <2>4, <3>1 DEF EachByteOnce
  <2>6. DeltaSound'
    <3> SUFFICES ASSUME NEW q \in Reporters
                 PROVE  /\ current'[q] <= total'
                        /\ previous'[q] <= reported'
                        /\ at'[q] = "swap" => previous'[q] < current'[q]
                        /\ at'[q] # "emit" => held'[q] = 0
      BY DEF DeltaSound
    <3>1. current[q] <= total /\ previous[q] <= reported
      BY DEF DeltaSound
    <3>2. previous[q] \in Nat
      BY DEF TypeOK
    <3>3. previous'[q] <= reported'
      BY <1>1, <1>2, <1>3, <2>3, <3>1, <3>2
    <3> QED BY <1>3, <2>1, <3>1, <3>3 DEF DeltaSound, TypeOK
  <2>7. HandlerSawAll'
    <3>1. CASE r = "handler"
      BY <1>3, <2>1, <3>1 DEF HandlerSawAll, TypeOK, Reporters, Swap
    <3>2. CASE r = "ticker"
      <4>1. at["handler"] \in {"emit", "end"} => reported = total
        BY DEF HandlerSawAll
      <4>2. at["handler"] \notin {"emit", "end"}
        BY <1>1, <1>5, <4>1
      <4>3. at'["handler"] = at["handler"]
        BY <2>1, <3>2 DEF TypeOK, Reporters
      <4> QED BY <1>3, <4>2, <4>3 DEF HandlerSawAll
    <3> QED BY <3>1, <3>2 DEF Reporters
  <2> QED BY <2>2, <2>5, <2>6, <2>7
<1> QED BY <1>4, <1>5

\* What a reporter holds moves into an event.
LEMMA EmitHolds == ASSUME NEW r \in Reporters, IInv, Emit(r) PROVE IInv'
<1> USE DEF IInv
<1>1. /\ emitted \in Nat /\ held[r] \in Nat
      /\ held["ticker"] \in Nat /\ held["handler"] \in Nat
  BY DEF TypeOK, Reporters
<1>2. /\ emitted' = emitted + held[r]
      /\ held' = [held EXCEPT ![r] = 0]
      /\ UNCHANGED <<total, reported, copying, current, previous>>
  BY DEF Emit
<1>3. \/ r = "ticker" /\ at' = [at EXCEPT ![r] = "wait"]
      \/ at' = [at EXCEPT ![r] = "end"]
  BY DEF Emit, Go
<1>4. TypeOK'
  BY <1>1, <1>2, <1>3 DEF TypeOK, Steps
<1>5. EachByteOnce'
  <2>1. CASE r = "ticker"
    BY <1>1, <1>2, <2>1 DEF EachByteOnce, TypeOK, Reporters
  <2>2. CASE r = "handler"
    BY <1>1, <1>2, <2>2 DEF EachByteOnce, TypeOK, Reporters
  <2> QED BY <2>1, <2>2 DEF Reporters
<1>6. DeltaSound'
  BY <1>2, <1>3 DEF DeltaSound, TypeOK
<1>7. HandlerSawAll'
  BY <1>2, <1>3 DEF HandlerSawAll, TypeOK, Reporters, Emit
<1> QED BY <1>4, <1>5, <1>6, <1>7

\* The ticker ends.
LEMMA StopHolds == IInv /\ StopTicker => IInv'
<1> SUFFICES ASSUME IInv, StopTicker PROVE IInv'
  OBVIOUS
<1> USE DEF IInv, StopTicker, Go
<1>1. TypeOK' /\ EachByteOnce'
  BY DEF TypeOK, EachByteOnce, Steps, Reporters
<1>2. DeltaSound' /\ HandlerSawAll'
  BY DEF DeltaSound, HandlerSawAll, TypeOK, Reporters
<1> QED BY <1>1, <1>2

\* The invariant is inductive.
LEMMA StepHolds == IInv /\ [Next]_vars => IInv'
<1> SUFFICES ASSUME IInv, [Next]_vars PROVE IInv'
  OBVIOUS
<1>1. CASE UNCHANGED vars
  BY <1>1 DEF vars, IInv, TypeOK, EachByteOnce, DeltaSound, HandlerSawAll
<1>2. CASE Copy
  BY <1>2, CopyHolds
<1>3. CASE EndStreams
  BY <1>3, EndHolds
<1>4. ASSUME NEW r \in Reporters, Begin(r) \/ Delta(r) \/ Emit(r) PROVE IInv'
  BY <1>4, BeginHolds, LoadTotalHolds, LoadReportedHolds, SwapHolds, EmitHolds DEF Delta
<1>5. CASE StopTicker
  BY <1>5, StopHolds
<1> QED BY <1>1, <1>2, <1>3, <1>4, <1>5 DEF Next

LEMMA Invariance == Spec => []IInv
<1>1. Init => IInv
  BY InitHolds
<1>2. IInv /\ [Next]_vars => IInv'
  BY StepHolds
<1> QED BY <1>1, <1>2, PTL DEF Spec

-------------------------------------------------------------------------------
\* streamStats: the counters and the deltas in the events are natural numbers.
THEOREM MeteringTyped == Spec => []TypeOK
<1>1. IInv => TypeOK
  BY DEF IInv
<1> QED BY <1>1, Invariance, PTL

\* deltaSinceLast: no byte is in two events and none is invented.
THEOREM MeteringExact == Spec => []EachByteOnce
<1>1. IInv => EachByteOnce
  BY DEF IInv
<1> QED BY <1>1, Invariance, PTL

\* The close event completes what the ticker has reported.
THEOREM MeteringComplete == Spec => []ClosedIsComplete
<1>1. IInv => ClosedIsComplete
  <2> SUFFICES ASSUME IInv, at["handler"] = "end", at["ticker"] \in {"wait", "end"}
               PROVE  emitted = total
    BY DEF ClosedIsComplete
  <2>1. held["handler"] = 0 /\ held["ticker"] = 0
    BY DEF IInv, DeltaSound, Reporters
  <2>2. reported = total /\ emitted \in Nat
    BY DEF IInv, HandlerSawAll, TypeOK
  <2> QED BY <2>1, <2>2 DEF IInv, EachByteOnce
<1> QED BY <1>1, Invariance, PTL

-------------------------------------------------------------------------------
(***************************************************************************)
(* The metered tunnel among others.                                        *)
(***************************************************************************)

\* A step of the tunnels is a step of the metered one, or leaves its counters alone.
LEMMA TunnelsStep == [TunnelsNext]_tunnelsVars => [Next]_vars
<1>1. TunnelsNext => [Next]_vars
  <2>1. ASSUME WrittenAndCounted PROVE Next
    BY <2>1 DEF WrittenAndCounted, Next
  <2>2. ASSUME FinishMetered PROVE Next
    BY <2>2 DEF FinishMetered, Next
  <2>3. ASSUME MeteredStep PROVE UNCHANGED vars
    BY <2>3 DEF MeteredStep
  <2>4. ASSUME NEW t \in Tunnels \ {Metered}, OtherTunnel(t) PROVE UNCHANGED vars
    BY <2>4 DEF OtherTunnel
  <2>5. ASSUME NEW r \in Reporters, MeterBegin(r) PROVE Next
    BY <2>5 DEF MeterBegin, Next
  <2>6. ASSUME NEW r \in Reporters, MeterReport(r) PROVE Next
    BY <2>6 DEF MeterReport, Next
  <2>7. ASSUME MeterStop PROVE Next
    BY <2>7 DEF MeterStop, Next
  <2>8. QED
    BY <2>1, <2>2, <2>3, <2>4, <2>5, <2>6, <2>7 DEF TunnelsNext
<1>2. UNCHANGED tunnelsVars => UNCHANGED vars
  BY DEF tunnelsVars
<1>3. QED
  BY <1>1, <1>2

\* Tunnels implements Metering: waiting for tokens and changing the limiter under
\* an open tunnel add no behaviour to its counters and its events.
THEOREM TunnelsImplementMetering == TunnelsSpec => Spec
<1>1. TunnelsInit => Init
  BY DEF TunnelsInit
<1>2. QED
  BY <1>1, TunnelsStep, PTL DEF TunnelsSpec, Spec

\* However the tunnels of a user share and replace their limiter, each byte of the
\* metered one is in one event, and in one by the time the close event is written.
THEOREM TunnelsMeterExactly == TunnelsSpec => [](EachByteOnce /\ ClosedIsComplete)
BY TunnelsImplementMetering, MeteringExact, MeteringComplete, PTL

-------------------------------------------------------------------------------
(***************************************************************************)
(* The rate limiter of the user.                                           *)
(***************************************************************************)
Refs == Objects \cup {NoObject}

BucketRefs == Buckets \cup {NoBucket}

Limiters == [limiter : BucketRefs, bytesPerSec : Nat]

TunnelStates ==
    [at : {"new"} \cup Lifting \cup Setting \cup Open,
     rate : Nat, object : Refs, size : Nat, left : Nat, burst : Nat, bucket : BucketRefs]

RateTyped ==
    /\ table \in Refs
    /\ object \in [Objects -> Limiters]
    /\ tunnel \in [Tunnels -> TunnelStates]
    /\ mixed \in BOOLEAN
    /\ \A t \in Tunnels : tunnel[t].at \in {"empty", "set"} => tunnel[t].object \in Objects

\* Calls that lift the limit and calls that set it have not met.
Apart == \A t, s \in Tunnels : ~(tunnel[t].at \in Lifting /\ tunnel[s].at \in Setting)

\* The call has the object of the table in its hands, or the table has none that
\* limits anybody.
CallKnows(t) ==
    /\ tunnel[t].at = "set" => tunnel[t].object = table
    /\ tunnel[t].at = "empty" => table \in {NoObject, tunnel[t].object}
    /\ tunnel[t].at = "delete" => table = NoObject \/ object[table].limiter = NoBucket

\* A tunnel that is limited is limited by the object of the table.
Current(t) ==
    tunnel[t].at \in Open =>
        \/ tunnel[t].object \in {NoObject, table}
        \/ object[tunnel[t].object].limiter = NoBucket

\* A tunnel that waits, and was not overtaken by a change, waits on the bucket that
\* its object has.
Keeps(t) ==
    tunnel[t].at = "wait" /\ t \notin overtaken =>
        /\ tunnel[t].object \in Objects
        /\ tunnel[t].bucket = object[tunnel[t].object].limiter

RateInv ==
    /\ RateTyped
    /\ \A t \in Tunnels : Keeps(t)
    /\ ~mixed => Apart /\ \A t \in Tunnels : CallKnows(t) /\ Current(t)

\* Idle and RateInit: no tunnel, no object, no bucket.
LEMMA IdleTyped == Idle \in TunnelStates /\ Unlimited \in Limiters
BY DEF Idle, TunnelStates, Refs, Unlimited, Limiters, BucketRefs

\* RateInit: no call is in progress and no tunnel is open.
LEMMA RateInitHolds == ASSUME RateInit PROVE RateInv
<1>1. RateTyped
  BY IdleTyped DEF RateInit, RateTyped, Refs, Idle
<1>2. \A t \in Tunnels : tunnel[t].at = "new"
  BY DEF RateInit, Idle
<1>3. QED
  BY <1>1, <1>2 DEF RateInv, Keeps, Apart, CallKnows, Current, Lifting, Setting, Open

\* A step of one tunnel: the others stay where they are, an object somebody refers
\* to keeps its limits and another loses them.
LEMMA TurnTyped ==
    ASSUME RateTyped, NEW t \in Tunnels, NEW w \in TunnelStates, NEW entry \in Refs,
           NEW objects \in [Objects -> Limiters],
           w.at \in {"empty", "set"} => w.object \in Objects,
           Turns(entry, objects, [tunnel EXCEPT ![t] = w]), mixed' \in BOOLEAN
    PROVE  /\ RateTyped'
           /\ table' = entry
           /\ tunnel'[t] = w /\ \A s \in Tunnels \ {t} : tunnel'[s] = tunnel[s]
           /\ \A o \in Objects : object'[o] = objects[o] \/ object'[o].limiter = NoBucket
           /\ \A s \in Tunnels, o \in Objects : tunnel'[s].object = o => object'[o] = objects[o]
<1> DEFINE next == [tunnel EXCEPT ![t] = w]
<1>1. /\ table' = entry /\ tunnel' = next /\ next \in [Tunnels -> TunnelStates]
      /\ object' = [o \in Objects |-> IF Used(o, entry, next) THEN objects[o] ELSE Unlimited]
  BY DEF Turns, RateTyped
<1>2. /\ object' \in [Objects -> Limiters]
      /\ \A o \in Objects : object'[o] = objects[o] \/ object'[o].limiter = NoBucket
  BY <1>1, IdleTyped DEF Unlimited
<1>3. tunnel'[t] = w /\ \A s \in Tunnels \ {t} : tunnel'[s] = tunnel[s]
  BY <1>1 DEF RateTyped
<1>4. ASSUME NEW s \in Tunnels, NEW o \in Objects, tunnel'[s].object = o
      PROVE  object'[o] = objects[o]
  BY <1>1, <1>4 DEF Used
<1>5. QED
  BY <1>1, <1>2, <1>3, <1>4 DEF RateTyped

\* The types a turn needs.
LEMMA Typed ==
    ASSUME RateTyped
    PROVE  table \in Refs /\ object \in [Objects -> Limiters] /\ mixed \in BOOLEAN
BY Zenon DEF RateTyped

\* A step that gives an object other limits overtakes whoever waits on it.
LEMMA TurnKeeps ==
    ASSUME RateTyped, \A s \in Tunnels : Keeps(s),
           NEW t \in Tunnels, NEW w \in TunnelStates, NEW objects \in [Objects -> Limiters],
           tunnel'[t] = w, \A s \in Tunnels \ {t} : tunnel'[s] = tunnel[s],
           \A s \in Tunnels, o \in Objects : tunnel'[s].object = o => object'[o] = objects[o],
           overtaken \subseteq overtaken' \cup {t},
           \A o \in Objects : objects[o] = object[o] \/ Waiting(o) \subseteq overtaken' \cup {t},
           w.at = "wait" /\ t \notin overtaken' =>
               w.object \in Objects /\ w.bucket = objects[w.object].limiter
    PROVE  \A s \in Tunnels : Keeps(s)'
<1>1. Keeps(t)'
  BY DEF Keeps
<1>2. ASSUME NEW s \in Tunnels \ {t}, tunnel[s].at = "wait", s \notin overtaken'
      PROVE  Keeps(s)'
  <2> DEFINE o == tunnel[s].object
  <2>1. /\ s \notin overtaken /\ tunnel'[s] = tunnel[s]
        /\ o \in Objects /\ tunnel[s].bucket = object[o].limiter
    BY <1>2 DEF Keeps
  <2>2. objects[o] = object[o] /\ object'[o] = objects[o]
    BY <1>2, <2>1 DEF Waiting
  <2>3. QED
    BY <2>1, <2>2 DEF Keeps
<1>3. QED
  BY <1>1, <1>2 DEF Keeps

\* A tunnel that begins no call, and leaves the table and the objects alone,
\* disturbs nobody.
LEMMA QuietHolds ==
    ASSUME RateInv, NEW t \in Tunnels, NEW w \in TunnelStates,
           tunnel[t].at \in Open, w.at \in Open, w.object = tunnel[t].object,
           w.at = "wait" /\ t \notin overtaken' =>
               w.object \in Objects /\ w.bucket = object[w.object].limiter,
           overtaken \subseteq overtaken' \cup {t},
           Turns(table, object, [tunnel EXCEPT ![t] = w]), UNCHANGED mixed
    PROVE  RateInv'
<1> USE DEF RateInv
<1>1. /\ RateTyped' /\ table' = table
      /\ tunnel'[t] = w /\ \A s \in Tunnels \ {t} : tunnel'[s] = tunnel[s]
      /\ \A o \in Objects : object'[o] = object[o] \/ object'[o].limiter = NoBucket
      /\ \A s \in Tunnels, o \in Objects : tunnel'[s].object = o => object'[o] = object[o]
  <2>1. w.at \notin {"empty", "set"} /\ mixed' \in BOOLEAN
    BY Typed, Zenon DEF Open
  <2>2. QED
    BY <2>1, Typed, TurnTyped
<1>2. \A s \in Tunnels : Keeps(s)'
  BY <1>1, TurnKeeps DEF RateTyped
<1>3. ASSUME ~mixed' PROVE Apart'
  BY <1>1, <1>3 DEF Apart, Lifting, Setting, Open
<1>4. ASSUME ~mixed', NEW s \in Tunnels PROVE CallKnows(s)' /\ Current(s)'
  BY <1>1, <1>4 DEF RateTyped, CallKnows, Current, Open, Refs, TunnelStates
<1>5. QED
  BY <1>1, <1>2, <1>3, <1>4

\* A call that reaches the object of the table, or begins.
LEMMA LimitHolds == ASSUME RateInv, NEW t \in Tunnels, Limit(t) PROVE RateInv'
<1> USE DEF RateInv
<1> PICK r \in Rates :
         /\ Turns(table, object, [tunnel EXCEPT ![t].at = IF r = 0 THEN "load" ELSE "fetch",
                                                ![t].rate = r])
         /\ mixed' = (mixed \/ InCall(IF r = 0 THEN Setting ELSE Lifting, t))
  BY DEF Limit
<1> DEFINE w == [tunnel[t] EXCEPT !.at = IF r = 0 THEN "load" ELSE "fetch", !.rate = r]
<1>1. /\ w \in TunnelStates /\ w.at = (IF r = 0 THEN "load" ELSE "fetch")
      /\ w.object = tunnel[t].object
  BY RatesAssumption DEF Limit, RateTyped, TunnelStates, Lifting, Setting
<1>2. Turns(table, object, [tunnel EXCEPT ![t] = w])
  BY DEF RateTyped, TunnelStates
<1> HIDE DEF w
<1>3. /\ RateTyped' /\ table' = table
      /\ tunnel'[t] = w /\ \A s \in Tunnels \ {t} : tunnel'[s] = tunnel[s]
      /\ \A o \in Objects : object'[o] = object[o] \/ object'[o].limiter = NoBucket
      /\ \A s \in Tunnels, o \in Objects : tunnel'[s].object = o => object'[o] = object[o]
  <2>1. mixed' \in BOOLEAN
    BY Zenon
  <2>2. QED
    BY <1>1, <1>2, <2>1, Typed, TurnTyped
<1>4. \A s \in Tunnels : Keeps(s)'
  BY <1>1, <1>3, TurnKeeps DEF Limit, RateTyped
<1>5. ASSUME ~mixed' PROVE ~mixed /\ Apart'
  BY <1>1, <1>3, <1>5 DEF Limit, Apart, Lifting, Setting, InCall
<1>6. ASSUME ~mixed', NEW s \in Tunnels PROVE CallKnows(s)' /\ Current(s)'
  BY <1>1, <1>3, <1>5, <1>6 DEF Limit, RateTyped, Apart, CallKnows, Current, TunnelStates,
     Refs, Lifting, Setting, Open
<1>7. QED
  BY <1>3, <1>4, <1>5, <1>6

\* The limit is lifted from the object of the table, if there is one.
LEMMA LoadHolds == ASSUME RateInv, NEW t \in Tunnels, Load(t) PROVE RateInv'
<1> USE DEF RateInv
<1> DEFINE w == [tunnel[t] EXCEPT !.at = IF table = NoObject THEN "delete" ELSE "empty",
                                  !.object = table]
<1>1. /\ w \in TunnelStates /\ w.at = (IF table = NoObject THEN "delete" ELSE "empty")
      /\ w.object = table
      /\ w.at \in {"empty", "set"} => w.object \in Objects
  BY DEF Load, RateTyped, TunnelStates, Refs, Lifting
<1>2. Turns(table, object, [tunnel EXCEPT ![t] = w])
  BY DEF Load, RateTyped, TunnelStates
<1> HIDE DEF w
<1>3. /\ RateTyped' /\ table' = table
      /\ tunnel'[t] = w /\ \A s \in Tunnels \ {t} : tunnel'[s] = tunnel[s]
      /\ \A o \in Objects : object'[o] = object[o] \/ object'[o].limiter = NoBucket
      /\ \A s \in Tunnels, o \in Objects : tunnel'[s].object = o => object'[o] = object[o]
  <2>1. mixed' \in BOOLEAN
    BY Typed, Zenon DEF Load
  <2>2. QED
    BY <1>1, <1>2, <2>1, Typed, TurnTyped
<1>4. \A s \in Tunnels : Keeps(s)'
  BY <1>1, <1>3, TurnKeeps DEF Load, RateTyped
<1>5. ASSUME ~mixed' PROVE ~mixed /\ Apart'
  BY <1>1, <1>3, <1>5 DEF Load, Apart, Lifting, Setting
<1>6. ASSUME ~mixed', NEW s \in Tunnels PROVE CallKnows(s)' /\ Current(s)'
  BY <1>1, <1>3, <1>5, <1>6 DEF Load, RateTyped, Apart, CallKnows, Current, TunnelStates,
     Refs, Lifting, Setting, Open
<1>7. QED
  BY <1>3, <1>4, <1>5, <1>6

\* Whoever waits on the object that is emptied is overtaken.
LEMMA EmptyHolds == ASSUME RateInv, NEW t \in Tunnels, Empty(t) PROVE RateInv'
<1> USE DEF RateInv
<1> DEFINE w == [tunnel[t] EXCEPT !.at = "delete"]
           objects == [object EXCEPT ![tunnel[t].object] = Unlimited]
<1>1. /\ w \in TunnelStates /\ w.at = "delete" /\ w.object = tunnel[t].object
      /\ tunnel[t].object \in Objects
  BY DEF Empty, RateTyped, TunnelStates, Lifting
<1>2. Turns(table, objects, [tunnel EXCEPT ![t] = w])
  BY DEF Empty, At, RateTyped, TunnelStates
<1>3. /\ objects \in [Objects -> Limiters] /\ objects[tunnel[t].object].limiter = NoBucket
      /\ \A o \in Objects \ {tunnel[t].object} : objects[o] = object[o]
  BY <1>1, IdleTyped DEF RateTyped, Unlimited
<1> HIDE DEF w, objects
<1>4. /\ RateTyped' /\ table' = table
      /\ tunnel'[t] = w /\ \A s \in Tunnels \ {t} : tunnel'[s] = tunnel[s]
      /\ \A o \in Objects : object'[o] = objects[o] \/ object'[o].limiter = NoBucket
      /\ \A s \in Tunnels, o \in Objects : tunnel'[s].object = o => object'[o] = objects[o]
  <2>1. mixed' \in BOOLEAN
    BY Typed, Zenon DEF Empty
  <2>2. QED
    BY <1>1, <1>2, <1>3, <2>1, Typed, TurnTyped
<1>5. \A s \in Tunnels : Keeps(s)'
  <2>1. \A o \in Objects : objects[o] = object[o] \/ Waiting(o) \subseteq overtaken' \cup {t}
    BY <1>1, <1>3 DEF Empty, Overtake
  <2>2. overtaken \subseteq overtaken' \cup {t}
    BY DEF Empty, Overtake
  <2>3. QED
    BY <1>1, <1>3, <1>4, <2>1, <2>2, TurnKeeps
<1>6. ASSUME ~mixed' PROVE ~mixed /\ Apart'
  BY <1>1, <1>4, <1>6 DEF Empty, Apart, Lifting, Setting
<1>7. ASSUME ~mixed', NEW s \in Tunnels PROVE CallKnows(s)' /\ Current(s)'
  BY <1>1, <1>3, <1>4, <1>6, <1>7 DEF Empty, RateTyped, Apart, CallKnows, Current,
     TunnelStates, Refs, Lifting, Setting, Open
<1>8. QED
  BY <1>4, <1>5, <1>6, <1>7

\* The entry that is deleted limits nobody.
LEMMA DeleteHolds == ASSUME RateInv, NEW t \in Tunnels, Delete(t) PROVE RateInv'
<1> USE DEF RateInv
<1> DEFINE w == [tunnel[t] EXCEPT !.at = "open", !.object = NoObject]
<1>1. w \in TunnelStates /\ w.at = "open" /\ w.object = NoObject
  BY DEF RateTyped, TunnelStates, Refs, Open
<1>2. Turns(NoObject, object, [tunnel EXCEPT ![t] = w])
  BY DEF Delete, RateTyped, TunnelStates
<1> HIDE DEF w
<1>3. /\ RateTyped' /\ table' = NoObject
      /\ tunnel'[t] = w /\ \A s \in Tunnels \ {t} : tunnel'[s] = tunnel[s]
      /\ \A o \in Objects : object'[o] = object[o] \/ object'[o].limiter = NoBucket
      /\ \A s \in Tunnels, o \in Objects : tunnel'[s].object = o => object'[o] = object[o]
  <2>1. mixed' \in BOOLEAN /\ NoObject \in Refs
    BY Typed, Zenon DEF Delete, Refs
  <2>2. QED
    BY <1>1, <1>2, <2>1, Typed, TurnTyped
<1>4. \A s \in Tunnels : Keeps(s)'
  BY <1>1, <1>3, TurnKeeps DEF Delete, RateTyped
<1>5. ASSUME ~mixed' PROVE ~mixed /\ Apart'
  BY <1>1, <1>3, <1>5 DEF Delete, Apart, Lifting, Setting
<1>6. ASSUME ~mixed', NEW s \in Tunnels PROVE CallKnows(s)' /\ Current(s)'
  BY <1>1, <1>3, <1>5, <1>6 DEF Delete, RateTyped, Apart, CallKnows, Current, TunnelStates,
     Refs, Lifting, Setting, Open
<1>7. QED
  BY <1>3, <1>4, <1>5, <1>6

\* A call that sets a limit goes on with the object of the table, or puts a new one
\* there.
LEMMA FetchHolds == ASSUME RateInv, NEW t \in Tunnels, Fetch(t) PROVE RateInv'
<1> USE DEF RateInv
<1> DEFINE o == IF table # NoObject THEN table
                ELSE CHOOSE x \in Objects : ~Used(x, table, tunnel)
           w == [tunnel[t] EXCEPT !.at = "set", !.object = o]
<1>1. o \in Objects /\ (table = NoObject \/ o = table)
  BY DEF Fetch, RateTyped, Refs
<1>2. w \in TunnelStates /\ w.at = "set" /\ w.object = o
  BY <1>1 DEF RateTyped, TunnelStates, Refs, Setting
<1>3. Turns(o, object, [tunnel EXCEPT ![t] = w])
  BY DEF Fetch, RateTyped, TunnelStates
<1> HIDE DEF w, o
<1>4. /\ RateTyped' /\ table' = o
      /\ tunnel'[t] = w /\ \A s \in Tunnels \ {t} : tunnel'[s] = tunnel[s]
      /\ \A x \in Objects : object'[x] = object[x] \/ object'[x].limiter = NoBucket
      /\ \A s \in Tunnels, x \in Objects : tunnel'[s].object = x => object'[x] = object[x]
  <2>1. mixed' \in BOOLEAN /\ o \in Refs
    BY <1>1, Typed, Zenon DEF Fetch, Refs
  <2>2. QED
    BY <1>1, <1>2, <1>3, <2>1, Typed, TurnTyped
<1>5. \A s \in Tunnels : Keeps(s)'
  BY <1>2, <1>4, TurnKeeps DEF Fetch, RateTyped
<1>6. ASSUME ~mixed' PROVE ~mixed /\ Apart'
  BY <1>2, <1>4, <1>6 DEF Fetch, Apart, Lifting, Setting
<1>7. ASSUME ~mixed', NEW s \in Tunnels PROVE CallKnows(s)' /\ Current(s)'
  BY <1>1, <1>2, <1>4, <1>6, <1>7, ObjectsAssumption DEF Fetch, RateTyped, Apart, CallKnows,
     Current, TunnelStates, Refs, Lifting, Setting, Open
<1>8. QED
  BY <1>4, <1>5, <1>6, <1>7

\* Whoever waits on an object that gets another bucket is overtaken; the object keeps
\* its bucket if the rate is the same.
LEMMA SetHolds == ASSUME RateInv, NEW t \in Tunnels, Set(t) PROVE RateInv'
<1> USE DEF RateInv
<1> DEFINE w == [tunnel[t] EXCEPT !.at = "open", !.rate = 0]
           b == CHOOSE x \in Buckets : Free(x)
           limits == [limiter |-> b, bytesPerSec |-> tunnel[t].rate]
           objects == IF Changes(t) THEN [object EXCEPT ![tunnel[t].object] = limits]
                                    ELSE object
<1>1. /\ w \in TunnelStates /\ w.at = "open" /\ w.object = tunnel[t].object
      /\ tunnel[t].object \in Objects
  BY DEF Set, RateTyped, TunnelStates, Open
<1>2. Turns(table, objects, [tunnel EXCEPT ![t] = w])
  BY DEF Set, Renew, Returned, RateTyped, TunnelStates
<1>3. /\ objects \in [Objects -> Limiters]
      /\ \A o \in Objects \ {tunnel[t].object} : objects[o] = object[o]
      /\ Changes(t) \/ objects = object
  <2>1. CASE Changes(t)
    <3>1. limits \in Limiters
      BY <2>1 DEF Set, Renew, RateTyped, TunnelStates, Limiters, BucketRefs
    <3>2. QED
      BY <1>1, <2>1, <3>1 DEF RateTyped
  <2>2. CASE ~Changes(t)
    BY <2>2 DEF RateTyped
  <2>3. QED
    BY <2>1, <2>2
<1> HIDE DEF w, objects
<1>4. /\ RateTyped' /\ table' = table
      /\ tunnel'[t] = w /\ \A s \in Tunnels \ {t} : tunnel'[s] = tunnel[s]
      /\ \A o \in Objects : object'[o] = objects[o] \/ object'[o].limiter = NoBucket
      /\ \A s \in Tunnels, o \in Objects : tunnel'[s].object = o => object'[o] = objects[o]
  <2>1. mixed' \in BOOLEAN
    BY Typed, Zenon DEF Set
  <2>2. QED
    BY <1>1, <1>2, <1>3, <2>1, Typed, TurnTyped
<1>5. \A s \in Tunnels : Keeps(s)'
  <2>1. \A o \in Objects : objects[o] = object[o] \/ Waiting(o) \subseteq overtaken' \cup {t}
    BY <1>1, <1>3 DEF Set, Overtake
  <2>2. overtaken \subseteq overtaken' \cup {t}
    BY DEF Set, Overtake
  <2>3. QED
    BY <1>1, <1>3, <1>4, <2>1, <2>2, TurnKeeps
<1>6. ASSUME ~mixed' PROVE ~mixed /\ Apart'
  BY <1>1, <1>4, <1>6 DEF Set, Apart, Lifting, Setting
<1>7. ASSUME ~mixed', NEW s \in Tunnels PROVE CallKnows(s)' /\ Current(s)'
  BY <1>1, <1>3, <1>4, <1>6, <1>7 DEF Set, RateTyped, Apart, CallKnows, Current,
     TunnelStates, Refs, Lifting, Setting, Open
<1>8. QED
  BY <1>4, <1>5, <1>6, <1>7

\* getUserRateLimiter.
LEMMA LimiterCallHolds ==
    ASSUME RateInv, NEW t \in Tunnels, GetUserRateLimiter(t)
    PROVE  RateInv'
BY LimitHolds, LoadHolds, EmptyHolds, DeleteHolds, FetchHolds, SetHolds DEF GetUserRateLimiter

\* A WaitN that begins takes the bucket of the object.
LEMMA WaitNHolds == ASSUME RateInv, NEW t \in Tunnels, WaitN(t) PROVE RateInv'
<1> USE DEF RateInv
<1> DEFINE limits == IF tunnel[t].object = NoObject THEN Unlimited ELSE object[tunnel[t].object]
           free == limits.limiter = NoBucket
<1>1. /\ limits \in Limiters /\ limits.limiter \in BucketRefs /\ limits.bytesPerSec \in Nat
      /\ ~free => tunnel[t].object \in Objects /\ limits = object[tunnel[t].object]
  BY IdleTyped DEF RateTyped, TunnelStates, Refs, Limiters, Unlimited
<1>2. PICK n \in Sizes :
          Turns(table, object, [tunnel EXCEPT ![t].at = IF free THEN "write" ELSE "wait",
                                              ![t].size = n,
                                              ![t].burst = limits.bytesPerSec,
                                              ![t].bucket = limits.limiter,
                                              ![t].left = IF free THEN 0 ELSE n])
  BY DEF WaitN
<1> HIDE DEF limits
<1> DEFINE w == [tunnel[t] EXCEPT !.at = IF free THEN "write" ELSE "wait", !.size = n,
                                  !.burst = limits.bytesPerSec, !.bucket = limits.limiter,
                                  !.left = IF free THEN 0 ELSE n]
<1>3. /\ w \in TunnelStates /\ w.at \in Open /\ w.object = tunnel[t].object
      /\ w.at = "wait" => ~free /\ w.bucket = limits.limiter
  BY <1>1, SizesAssumption DEF RateTyped, TunnelStates, Open
<1>4. Turns(table, object, [tunnel EXCEPT ![t] = w])
  BY <1>2 DEF RateTyped, TunnelStates
<1> HIDE DEF w
<1>5. QED
  BY <1>1, <1>3, <1>4, QuietHolds DEF WaitN, Open

\* A WaitN that goes on keeps to its bucket, and one that is through has none.
LEMMA WaitHolds == ASSUME RateInv, NEW t \in Tunnels, Wait(t) PROVE RateInv'
<1> USE DEF RateInv
<1>1. CASE TakeTokens(t)
  <2> DEFINE w == [tunnel[t] EXCEPT !.left = @ - tunnel[t].burst]
  <2>1. tunnel[t].left - tunnel[t].burst \in Nat
    BY <1>1 DEF TakeTokens, RateTyped, TunnelStates
  <2>2. /\ w \in TunnelStates /\ w.at = "wait" /\ w.object = tunnel[t].object
        /\ w.bucket = tunnel[t].bucket
    BY <1>1, <2>1 DEF TakeTokens, RateTyped, TunnelStates
  <2>3. Turns(table, object, [tunnel EXCEPT ![t] = w])
    BY <1>1 DEF TakeTokens, RateTyped, TunnelStates
  <2> HIDE DEF w
  <2>4. QED
    BY <1>1, <2>2, <2>3, QuietHolds DEF TakeTokens, Open, Keeps
<1>2. CASE TakeLast(t)
  <2> DEFINE w == [tunnel[t] EXCEPT !.at = "write", !.left = 0, !.burst = 0, !.bucket = NoBucket]
  <2>1. w \in TunnelStates /\ w.at = "write" /\ w.object = tunnel[t].object
    BY DEF RateTyped, TunnelStates, Open, BucketRefs
  <2>2. Turns(table, object, [tunnel EXCEPT ![t] = w])
    BY <1>2 DEF TakeLast, RateTyped, TunnelStates
  <2> HIDE DEF w
  <2>3. QED
    BY <1>2, <2>1, <2>2, QuietHolds DEF TakeLast, Open
<1>3. QED
  BY <1>1, <1>2 DEF Wait

\* flushingIoCopy waits and writes.
LEMMA RelayHolds ==
    ASSUME RateInv, NEW t \in Tunnels, WaitN(t) \/ Wait(t) \/ Written(t)
    PROVE  RateInv'
<1>1. CASE Written(t)
  <2> DEFINE w == [tunnel[t] EXCEPT !.at = "open", !.size = 0]
  <2>1. w \in TunnelStates /\ w.at = "open" /\ w.object = tunnel[t].object
    BY DEF RateInv, RateTyped, TunnelStates, Open
  <2>2. Turns(table, object, [tunnel EXCEPT ![t] = w])
    BY <1>1 DEF Written, RateInv, RateTyped, TunnelStates
  <2> HIDE DEF w
  <2>3. QED
    BY <1>1, <2>1, <2>2, QuietHolds DEF Written, Open
<1>2. QED
  BY <1>1, WaitNHolds, WaitHolds

\* The last tunnel to end leaves nobody who could have been hit by the deletion.
LEMMA FinishHolds == ASSUME RateInv, NEW t \in Tunnels, Finish(t) PROVE RateInv'
<1>1. /\ RateTyped' /\ table' = table
      /\ tunnel'[t] = Idle /\ \A s \in Tunnels \ {t} : tunnel'[s] = tunnel[s]
      /\ \A o \in Objects : object'[o] = object[o] \/ object'[o].limiter = NoBucket
      /\ \A s \in Tunnels, o \in Objects : tunnel'[s].object = o => object'[o] = object[o]
  <2>1. mixed' \in BOOLEAN
    BY Zenon DEF Finish, RateInv, RateTyped
  <2>2. Idle.at \notin {"empty", "set"}
    BY DEF Idle
  <2>3. Turns(table, object, [tunnel EXCEPT ![t] = Idle])
    BY DEF Finish
  <2>4. QED
    BY <2>1, <2>2, <2>3, IdleTyped, Typed, TurnTyped DEF RateInv
<1>2. \A s \in Tunnels : Keeps(s)'
  <2>1. Idle.at # "wait" /\ overtaken' = overtaken
    BY DEF Idle, Finish
  <2>2. QED
    BY <1>1, <2>1, IdleTyped, TurnKeeps DEF RateInv, RateTyped
<1>3. CASE ~mixed
  BY <1>1, <1>2, <1>3 DEF RateInv, RateTyped, Apart, CallKnows, Current, Idle,
                          TunnelStates, Refs, Lifting, Setting, Open
<1>4. CASE mixed /\ ~mixed'
  <2>1. \A s \in Tunnels \ {t} : tunnel[s].at = "new"
    BY <1>4, Zenon DEF Finish
  <2>2. \A s \in Tunnels : tunnel'[s].at = "new"
    BY <1>1, <2>1 DEF Idle
  <2>3. QED
    BY <1>1, <1>2, <2>2 DEF RateInv, Apart, CallKnows, Current, Lifting, Setting, Open
<1>5. QED
  BY <1>1, <1>2, <1>3, <1>4 DEF RateInv, RateTyped

\* A step that leaves the limiter alone.
LEMMA RateStutterHolds == ASSUME RateInv, UNCHANGED rateVars PROVE RateInv'
BY DEF rateVars, RateInv, RateTyped, Keeps, Apart, CallKnows, Current

\* A step of the tunnels is a step of the limiter or leaves it alone.
LEMMA TunnelsRateStep == [TunnelsNext]_tunnelsVars => [RateNext]_rateVars
<1>1. TunnelsNext => [RateNext]_rateVars
  BY MeteredAssumption
     DEF TunnelsNext, WrittenAndCounted, FinishMetered, MeteredStep, OtherTunnel, MeterBegin,
         MeterReport, MeterStop, RateNext
<1>2. UNCHANGED tunnelsVars => UNCHANGED rateVars
  BY DEF tunnelsVars
<1>3. QED
  BY <1>1, <1>2

\* Every state of the tunnels is in the inductive invariant of their limiter.
THEOREM TunnelsRateInvariant == TunnelsSpec => []RateInv
<1>1. TunnelsInit => RateInv
  BY RateInitHolds DEF TunnelsInit
<1>2. RateInv /\ [RateNext]_rateVars => RateInv'
  BY LimiterCallHolds, RelayHolds, FinishHolds, RateStutterHolds DEF RateNext
<1>3. QED
  BY <1>1, <1>2, TunnelsRateStep, PTL DEF TunnelsSpec

\* getUserRateLimiter and WaitN: however many tunnels there are, the limited ones draw
\* on one bucket, and no other tunnel than one whose wait a change of the rate has
\* overtaken draws on another, unless a call that lifts the limit has overlapped one
\* that sets it.
THEOREM OneBucket == TunnelsSpec => []OneBucketPerUser
<1>1. RateInv => OneBucketPerUser
  <2> SUFFICES ASSUME RateInv, ~mixed, NEW t \in Tunnels \ overtaken, tunnel[t].at \in Open,
                      BucketOf(t) # NoBucket
               PROVE  table \in Objects /\ BucketOf(t) = object[table].limiter
    BY DEF OneBucketPerUser
  <2>1. /\ tunnel[t].object \in Objects
        /\ BucketOf(t) = object[tunnel[t].object].limiter
    BY DEF RateInv, RateTyped, TunnelStates, Refs, Keeps, BucketOf
  <2>2. QED
    BY <2>1, ObjectsAssumption DEF RateInv, Current
<1>2. QED
  BY TunnelsRateInvariant, <1>1, PTL

-------------------------------------------------------------------------------
\* A set of numbers has a least one: induction over data, in the form the provers
\* can instantiate.
LEMMA LeastNumber ==
    ASSUME NEW T \in SUBSET Nat, T # {} PROVE \E x \in T : \A y \in T : x <= y
<1>1. IsWellFoundedOn(OpToRel(<, Nat), Nat)
  BY NatLessThanWellFounded
<1>2. PICK x \in T : \A y \in T : <<y, x>> \notin OpToRel(<, Nat)
  BY <1>1, WFMin
<1>3. \A y \in T : x <= y
  <2> TAKE y \in T
  <2>1. x \in Nat /\ y \in Nat
    OBVIOUS
  <2>2. ~(y < x)
    BY <1>2, <2>1 DEF OpToRel
  <2> QED BY <2>1, <2>2
<1> QED BY <1>3

\* What holds of 0 and of k + 1 if of k holds up to n; P is the set where it holds.
LEMMA UpTo ==
    ASSUME NEW n \in Nat, NEW P, 0 \in P, \A k \in 1..n : k - 1 \in P => k \in P
    PROVE  0..n \subseteq P
<1> DEFINE T == {k \in 0..n : k \notin P}
<1> SUFFICES ASSUME T # {} PROVE FALSE
  OBVIOUS
<1>1. T \in SUBSET Nat
  OBVIOUS
<1>2. PICK x \in T : \A y \in T : x <= y
  BY <1>1, LeastNumber
<1>3. x \in 1..n /\ x \notin P
  OBVIOUS
<1>4. x - 1 \in 0..n /\ ~(x <= x - 1)
  BY <1>3
<1>5. x - 1 \in P
  BY <1>2, <1>4
<1> QED BY <1>3, <1>5

\* g is defined by recursion over 0..n, from a, with the step F.
Recurs(g, n, a, F) == g[0] = a /\ \A k \in 1..n : g[k] = F[k][g[k - 1]]

\* There is one.
LEMMA Recursion ==
    ASSUME NEW n \in Nat, NEW S, NEW a \in S, NEW F \in [1..n -> [S -> S]]
    PROVE  \E g \in [0..n -> S] : Recurs(g, n, a, F)
<1> DEFINE Def(m, g) == \A k \in 0..m : g[k] = IF k = 0 THEN a ELSE F[k][g[k - 1]]
           P == {m \in 0..n : \E g \in [0..m -> S] : Def(m, g)}
<1>1. 0 \in P
  <2> DEFINE g == [k \in 0..0 |-> a]
  <2>1. g \in [0..0 -> S] /\ Def(0, g)
    OBVIOUS
  <2>2. 0 \in 0..n
    OBVIOUS
  <2> HIDE DEF g
  <2> QED BY <2>1, <2>2
<1>2. ASSUME NEW m \in 1..n, m - 1 \in P PROVE m \in P
  <2>1. PICK g \in [0..(m - 1) -> S] : Def(m - 1, g)
    BY <1>2
  <2> DEFINE h == [k \in 0..m |-> IF k = m THEN F[m][g[m - 1]] ELSE g[k]]
  <2>2. m - 1 \in 0..(m - 1) /\ m \in Nat
    OBVIOUS
  <2>3. F[m] \in [S -> S] /\ g[m - 1] \in S
    BY <2>2
  <2>4. \A k \in 0..m : k = m \/ k \in 0..(m - 1)
    OBVIOUS
  <2>5. h \in [0..m -> S]
    BY <2>3, <2>4
  <2>6. \A k \in 0..m : h[k] = IF k = 0 THEN a ELSE F[k][h[k - 1]]
    <3> TAKE k \in 0..m
    <3>1. CASE k = m
      <4>1. h[m] = F[m][g[m - 1]] /\ h[m - 1] = g[m - 1] /\ m # 0
        OBVIOUS
      <4> QED BY <3>1, <4>1
    <3>2. CASE k # m /\ k # 0
      <4>1. k \in 0..(m - 1) /\ k - 1 \in 0..(m - 1) /\ k - 1 # m
        BY <3>2
      <4>2. g[k] = F[k][g[k - 1]]
        BY <2>1, <3>2, <4>1
      <4>3. h[k] = g[k] /\ h[k - 1] = g[k - 1]
        BY <3>2, <4>1
      <4> QED BY <3>2, <4>2, <4>3
    <3>3. CASE k # m /\ k = 0
      <4>1. g[0] = a
        BY <2>1, <2>2
      <4> QED BY <3>3, <4>1
    <3> QED BY <3>1, <3>2, <3>3
  <2> HIDE DEF h
  <2>7. m \in 0..n
    OBVIOUS
  <2> QED BY <2>5, <2>6, <2>7
<1>3. n \in P
  <2> HIDE DEF P
  <2>1. \A k \in 1..n : k - 1 \in P => k \in P
    BY <1>2
  <2>2. 0..n \subseteq P
    BY <1>1, <2>1, UpTo
  <2>3. n \in 0..n
    OBVIOUS
  <2> QED BY <2>2, <2>3
<1>4. PICK g \in [0..n -> S] : \A k \in 0..n : g[k] = IF k = 0 THEN a ELSE F[k][g[k - 1]]
  BY <1>3
<1>5. g[0] = a /\ \A k \in 1..n : g[k] = F[k][g[k - 1]]
  BY <1>4
<1> QED BY <1>5 DEF Recurs

\* One sequence after another.
LEMMA Joined ==
    ASSUME NEW a \in Seq(Nat), NEW b \in Seq(Nat)
    PROVE  /\ a \o b \in Seq(Nat) /\ Len(a \o b) = Len(a) + Len(b)
           /\ \A i \in 1..Len(a) : (a \o b)[i] = a[i]
           /\ \A i \in 1..Len(b) : (a \o b)[Len(a) + i] = b[i]
<1> DEFINE s == a \o b
<1>1. /\ s \in Seq(Nat) /\ Len(s) = Len(a) + Len(b)
      /\ \A i \in 1..(Len(a) + Len(b)) : s[i] = IF i <= Len(a) THEN a[i] ELSE b[i - Len(a)]
  BY ConcatProperties
<1> HIDE DEF s
<1>2. Len(a) \in Nat /\ Len(b) \in Nat
  OBVIOUS
<1>3. \A i \in 1..Len(a) : s[i] = a[i]
  BY <1>1, <1>2
<1>4. ASSUME NEW i \in 1..Len(b) PROVE s[Len(a) + i] = b[i]
  <2>1. /\ Len(a) + i \in 1..(Len(a) + Len(b)) /\ ~(Len(a) + i <= Len(a))
        /\ (Len(a) + i) - Len(a) = i
    BY <1>2
  <2> QED BY <1>1, <2>1
<1> QED BY <1>1, <1>3, <1>4 DEF s

\* A byte takes two digits to size a payload.
LEMMA TwoDigits ==
    /\ \A nr \in Nat :
          nr \div Byte \in Nat /\ nr % Byte \in Nat /\ (nr \div Byte) * Byte + (nr % Byte) = nr
    /\ \A x, y \in Nat : x * Byte + y \in Nat
<1>1. Byte \in Nat \ {0}
  BY PaddingAssumption
<1>2. ASSUME NEW nr \in Nat
      PROVE  nr \div Byte \in Nat /\ nr % Byte \in Nat /\ (nr \div Byte) * Byte + (nr % Byte) = nr
  BY <1>1
<1>3. ASSUME NEW x \in Nat, NEW y \in Nat PROVE x * Byte + y \in Nat
  <2>1. \A b \in Nat : x * b \in Nat
    OBVIOUS
  <2>2. x * Byte \in Nat
    BY <1>1, <2>1
  <2> QED BY <2>2
<1> QED BY <1>2, <1>3

\* The digits, as a sequence.
LEMMA DigitsAre ==
    ASSUME NEW from \in Nat, NEW n \in Nat
    PROVE  /\ Digits(from, n) \in Seq(Nat)
           /\ Len(Digits(from, n)) = n
           /\ \A i \in 1..n : Digits(from, n)[i] = (from + i) % Byte
<1>1. \A i \in 1..n : (from + i) % Byte \in Nat
  BY PaddingAssumption
<1>2. Digits(from, n) \in [1..n -> Nat]
  BY <1>1 DEF Digits
<1>3. Digits(from, n) \in Seq(Nat)
  BY <1>2
<1> QED BY <1>2, <1>3 DEF Digits

\* Part of the digits are digits.
LEMMA DigitsPart ==
    ASSUME NEW from \in Nat, NEW n \in Nat, NEW a \in Nat, NEW b \in 0..n, a <= b
    PROVE  SubSeq(Digits(from, n), a + 1, b) = Digits(from + a, b - a)
<1> DEFINE s == Digits(from, n)  t == Digits(from + a, b - a)  u == SubSeq(s, a + 1, b)
<1>1. s \in Seq(Nat) /\ Len(s) = n /\ \A i \in 1..n : s[i] = (from + i) % Byte
  BY DigitsAre
<1>2. t \in Seq(Nat) /\ Len(t) = b - a /\ \A i \in 1..(b - a) : t[i] = (from + a + i) % Byte
  BY DigitsAre, from + a \in Nat, b - a \in Nat
<1> HIDE DEF s, t
<1>3. \A i \in (a + 1)..b : s[i] \in Nat
  BY <1>1
<1>4. a + 1 \in Int /\ b \in Int
  OBVIOUS
<1>5. /\ u \in Seq(Nat)
      /\ Len(u) = IF a + 1 <= b THEN b - (a + 1) + 1 ELSE 0
      /\ \A i \in 1..(b - (a + 1) + 1) : u[i] = s[a + 1 + i - 1]
  BY <1>3, <1>4, SubSeqProperties
<1>6. Len(u) = b - a
  BY <1>5
<1>7. \A i \in 1..(b - a) : u[i] = t[i]
  <2> TAKE i \in 1..(b - a)
  <2>1. i \in 1..(b - (a + 1) + 1) /\ a + i \in 1..n /\ a + 1 + i - 1 = a + i
    OBVIOUS
  <2>2. u[i] = s[a + i]
    BY <1>5, <2>1
  <2>3. s[a + i] = (from + (a + i)) % Byte /\ from + (a + i) = from + a + i
    BY <1>1, <2>1
  <2> QED BY <1>2, <2>2, <2>3
<1> HIDE DEF u
<1>8. u = t
  BY <1>2, <1>5, <1>6, <1>7, SeqEqual
<1> QED BY <1>8 DEF u, s, t

\* Digits that follow digits.
LEMMA DigitsJoin ==
    ASSUME NEW from \in Nat, NEW p \in Nat, NEW q \in Nat
    PROVE  Digits(from, p) \o Digits(from + p, q) = Digits(from, p + q)
<1> DEFINE s == Digits(from, p)  t == Digits(from + p, q)  u == Digits(from, p + q)
<1>1. s \in Seq(Nat) /\ Len(s) = p /\ \A i \in 1..p : s[i] = (from + i) % Byte
  BY DigitsAre
<1>2. t \in Seq(Nat) /\ Len(t) = q /\ \A i \in 1..q : t[i] = (from + p + i) % Byte
  BY DigitsAre, from + p \in Nat
<1>3. u \in Seq(Nat) /\ Len(u) = p + q /\ \A i \in 1..(p + q) : u[i] = (from + i) % Byte
  BY DigitsAre, p + q \in Nat
<1> HIDE DEF s, t, u
<1>4. /\ s \o t \in Seq(Nat) /\ Len(s \o t) = p + q
      /\ \A i \in 1..(p + q) : (s \o t)[i] = IF i <= p THEN s[i] ELSE t[i - p]
  BY <1>1, <1>2, ConcatProperties
<1>5. \A i \in 1..(p + q) : (s \o t)[i] = u[i]
  <2> TAKE i \in 1..(p + q)
  <2>1. CASE i <= p
    <3>1. i \in 1..p
      BY <2>1
    <3> QED BY <1>1, <1>3, <1>4, <2>1, <3>1
  <2>2. CASE ~(i <= p)
    <3>1. i - p \in 1..q /\ from + p + (i - p) = from + i
      BY <2>2
    <3> QED BY <1>2, <1>3, <1>4, <2>2, <3>1
  <2> QED BY <2>1, <2>2
<1>6. s \o t = u
  BY <1>3, <1>4, <1>5, SeqEqual
<1> QED BY <1>6 DEF s, t, u

\* What Upto and After are of the bytes of a stream.
LEMMA Cuts ==
    ASSUME NEW s \in Seq(Nat), NEW n \in Nat
    PROVE  /\ Upto(s, n) \in Seq(Nat) /\ After(s, n) \in Seq(Nat)
           /\ Len(Upto(s, n)) = (IF n < Len(s) THEN n ELSE Len(s))
           /\ Len(After(s, n)) = (IF n < Len(s) THEN Len(s) - n ELSE 0)
           /\ \A i \in 1..Len(After(s, n)) : After(s, n)[i] = s[n + i]
           /\ \A i \in 1..Len(Upto(s, n)) : Upto(s, n)[i] = s[i]
<1> DEFINE m == IF n < Len(s) THEN n ELSE Len(s)
<1>1. Len(s) \in Nat /\ m \in 0..Len(s) /\ \A i \in 1..Len(s) : s[i] \in Nat
  OBVIOUS
<1> HIDE DEF m
<1>2. /\ SubSeq(s, 1, m) \in Seq(Nat)
      /\ Len(SubSeq(s, 1, m)) = IF 1 <= m THEN m - 1 + 1 ELSE 0
      /\ \A i \in 1..(m - 1 + 1) : SubSeq(s, 1, m)[i] = s[1 + i - 1]
  <2>1. 1 \in Int /\ m \in Int /\ \A i \in 1..m : s[i] \in Nat
    BY <1>1
  <2> QED BY <2>1, SubSeqProperties
<1>3. /\ SubSeq(s, n + 1, Len(s)) \in Seq(Nat)
      /\ Len(SubSeq(s, n + 1, Len(s))) = IF n + 1 <= Len(s) THEN Len(s) - (n + 1) + 1 ELSE 0
      /\ \A i \in 1..(Len(s) - (n + 1) + 1) : SubSeq(s, n + 1, Len(s))[i] = s[n + 1 + i - 1]
  <2>1. n + 1 \in Int /\ Len(s) \in Int /\ \A i \in (n + 1)..Len(s) : s[i] \in Nat
    BY <1>1
  <2> QED BY <2>1, SubSeqProperties
<1>4. Upto(s, n) = SubSeq(s, 1, m) /\ After(s, n) = SubSeq(s, n + 1, Len(s))
  BY DEF Upto, After, m
<1>5. Len(Upto(s, n)) = m /\ \A i \in 1..m : Upto(s, n)[i] = s[i]
  BY <1>1, <1>2, <1>4
<1>6. /\ Len(After(s, n)) = (IF n < Len(s) THEN Len(s) - n ELSE 0)
      /\ \A i \in 1..Len(After(s, n)) : After(s, n)[i] = s[n + i]
  <2>1. Len(After(s, n)) = (IF n < Len(s) THEN Len(s) - n ELSE 0)
    BY <1>1, <1>3, <1>4
  <2>2. ASSUME NEW i \in 1..Len(After(s, n)) PROVE After(s, n)[i] = s[n + i]
    <3>1. i \in 1..(Len(s) - (n + 1) + 1) /\ n + 1 + i - 1 = n + i
      BY <1>1, <2>1
    <3> QED BY <1>3, <1>4, <3>1
  <2> QED BY <2>1, <2>2
<1> QED BY <1>2, <1>3, <1>4, <1>5, <1>6 DEF m

\* A read of some of the digits leaves the rest.
LEMMA DigitsCut ==
    ASSUME NEW from \in Nat, NEW n \in Nat, NEW m \in 0..n
    PROVE  /\ Upto(Digits(from, n), m) = Digits(from, m)
           /\ After(Digits(from, n), m) = Digits(from + m, n - m)
<1>1. Len(Digits(from, n)) = n
  BY DigitsAre
<1>2. SubSeq(Digits(from, n), 0 + 1, m) = Digits(from + 0, m - 0)
  <2>1. 0 \in Nat /\ m \in 0..n /\ 0 <= m
    OBVIOUS
  <2> QED BY <2>1, DigitsPart
<1>3. SubSeq(Digits(from, n), m + 1, n) = Digits(from + m, n - m)
  <2>1. m \in Nat /\ n \in 0..n /\ m <= n
    OBVIOUS
  <2> QED BY <2>1, DigitsPart
<1>4. (IF m < n THEN m ELSE n) = m /\ 0 + 1 = 1 /\ from + 0 = from /\ m - 0 = m
  OBVIOUS
<1> QED BY <1>1, <1>2, <1>3, <1>4 DEF Upto, After

\* A frame: where its header, its payload and its end are.
LEMMA FrameIs ==
    ASSUME NEW payload \in Seq(Nat), NEW padding \in Nat
    PROVE  /\ Frame(payload, padding) \in Seq(Nat)
           /\ Len(Frame(payload, padding)) = 3 + Len(payload) + padding
           /\ Frame(payload, padding)[1] * Byte + Frame(payload, padding)[2] = Len(payload)
           /\ Frame(payload, padding)[3] = padding
           /\ \A i \in 1..Len(payload) : Frame(payload, padding)[3 + i] = payload[i]
<1> DEFINE header == <<Len(payload) \div Byte, Len(payload) % Byte, padding>>
           zeros == [i \in 1..padding |-> 0]
           s == header \o payload
           f == s \o zeros
<1>1. Len(payload) \in Nat
  OBVIOUS
<1>2. /\ Len(payload) \div Byte \in Nat /\ Len(payload) % Byte \in Nat
      /\ (Len(payload) \div Byte) * Byte + (Len(payload) % Byte) = Len(payload)
  BY <1>1, TwoDigits
<1>3. /\ header \in Seq(Nat) /\ Len(header) = 3
      /\ header[1] = Len(payload) \div Byte /\ header[2] = Len(payload) % Byte
      /\ header[3] = padding
  BY <1>2
<1>4. zeros \in Seq(Nat) /\ Len(zeros) = padding
  OBVIOUS
<1>5. s = header \o payload /\ f = s \o zeros /\ f = Frame(payload, padding)
  BY DEF Frame
<1> HIDE DEF header, zeros
<1> HIDE DEF s, f
<1>6. /\ s \in Seq(Nat) /\ Len(s) = 3 + Len(payload)
      /\ \A i \in 1..3 : s[i] = header[i]
      /\ \A i \in 1..Len(payload) : s[3 + i] = payload[i]
  <2>1. /\ header \o payload \in Seq(Nat) /\ Len(header \o payload) = Len(header) + Len(payload)
        /\ \A i \in 1..Len(header) : (header \o payload)[i] = header[i]
        /\ \A i \in 1..Len(payload) : (header \o payload)[Len(header) + i] = payload[i]
    BY <1>3, Joined
  <2> QED BY <1>3, <1>5, <2>1
<1>7. /\ f \in Seq(Nat) /\ Len(f) = 3 + Len(payload) + padding
      /\ \A i \in 1..(3 + Len(payload)) : f[i] = s[i]
  <2>1. /\ s \o zeros \in Seq(Nat) /\ Len(s \o zeros) = Len(s) + Len(zeros)
        /\ \A i \in 1..Len(s) : (s \o zeros)[i] = s[i]
    BY <1>4, <1>6, Joined
  <2> QED BY <1>4, <1>5, <1>6, <2>1
<1>8. 1 \in 1..3 /\ 2 \in 1..3 /\ 3 \in 1..3 /\ \A i \in 1..3 : i \in 1..(3 + Len(payload))
  BY <1>1
<1>9. f[1] = header[1] /\ f[2] = header[2] /\ f[3] = header[3]
  BY <1>6, <1>7, <1>8
<1>10. \A i \in 1..Len(payload) : f[3 + i] = payload[i]
  <2> TAKE i \in 1..Len(payload)
  <2>1. 3 + i \in 1..(3 + Len(payload))
    BY <1>1
  <2> QED BY <1>6, <1>7, <2>1
<1> QED BY <1>2, <1>3, <1>5, <1>7, <1>9, <1>10

-------------------------------------------------------------------------------
\* The sizes of a client's messages are numbers.
LEMMA MessageIs ==
    ASSUME NEW n \in Nat, NEW messages \in [1..n -> Messages]
    PROVE  /\ Len(messages) = n
           /\ \A k \in 1..n : messages[k].size \in Nat /\ messages[k].padding \in Nat
<1>1. FrameSizes \subseteq Nat /\ PaddingSizes \subseteq Nat
  BY PaddingAssumption
<1>2. \A k \in 1..n : messages[k].size \in FrameSizes /\ messages[k].padding \in PaddingSizes
  BY DEF Messages
<1>3. \A k \in 1..n : messages[k].size \in Nat /\ messages[k].padding \in Nat
  BY <1>1, <1>2
<1>4. Len(messages) = n
  OBVIOUS
<1> QED BY <1>3, <1>4

\* The definitions by recursion do define.
LEMMA PayloadIs ==
    ASSUME NEW n \in Nat, NEW messages \in [1..n -> Messages]
    PROVE  /\ Payload(messages) \in [0..n -> Nat] /\ Payload(messages)[0] = 0
           /\ \A k \in 1..n :
                 Payload(messages)[k] = Payload(messages)[k - 1] + messages[k].size
<1> DEFINE F == [k \in 1..n |-> [b \in Nat |-> b + messages[k].size]]
           Def(g) == g = [k \in 0..n |-> IF k = 0 THEN 0 ELSE g[k - 1] + messages[k].size]
<1>1. \A k \in 1..n : messages[k].size \in Nat
  BY MessageIs
<1>2. F \in [1..n -> [Nat -> Nat]]
  BY <1>1
<1>3. \A k \in 1..n, b \in Nat : F[k][b] = b + messages[k].size
  OBVIOUS
<1> HIDE DEF F
<1>4. PICK g \in [0..n -> Nat] : g[0] = 0 /\ \A k \in 1..n : g[k] = F[k][g[k - 1]]
  <2>1. \E g \in [0..n -> Nat] : Recurs(g, n, 0, F)
    BY <1>2, Recursion, 0 \in Nat, Zenon
  <2> QED BY <2>1 DEF Recurs
<1>5. \A k \in 0..n : g[k] = IF k = 0 THEN 0 ELSE g[k - 1] + messages[k].size
  <2> TAKE k \in 0..n
  <2>1. CASE k = 0
    BY <1>4, <2>1
  <2>2. CASE k # 0
    <3>1. k \in 1..n /\ k - 1 \in 0..n
      BY <2>2
    <3>2. g[k - 1] \in Nat
      BY <3>1
    <3> QED BY <1>3, <1>4, <2>2, <3>1, <3>2
  <2> QED BY <2>1, <2>2
<1>6. Def(g)
  <2>1. g = [k \in 0..n |-> g[k]]
    OBVIOUS
  <2> QED BY <2>1, <1>5
<1>7. Len(messages) = n
  OBVIOUS
<1>8. Payload(messages) = CHOOSE h : Def(h)
  BY <1>7 DEF Payload
<1>9. Def(Payload(messages))
  BY <1>6, <1>8
<1> DEFINE p == Payload(messages)
<1> HIDE DEF p
<1>10. p = [k \in 0..n |-> IF k = 0 THEN 0 ELSE p[k - 1] + messages[k].size]
  BY <1>9 DEF p
<1>11. DOMAIN p = 0..n /\ \A k \in 0..n : p[k] = IF k = 0 THEN 0 ELSE p[k - 1] + messages[k].size
  BY <1>10
<1>12. p[0] = 0
  BY <1>11
<1>13. \A k \in 1..n : p[k] = p[k - 1] + messages[k].size
  BY <1>11
<1> DEFINE P == {k \in 0..n : p[k] \in Nat}
<1>14. 0 \in P
  BY <1>12
<1>15. \A k \in 1..n : k - 1 \in P => k \in P
  <2> TAKE k \in 1..n
  <2> HAVE k - 1 \in P
  <2>1. p[k - 1] \in Nat /\ k \in 0..n
    OBVIOUS
  <2>2. messages[k].size \in Nat
    BY <1>1
  <2>3. p[k] = p[k - 1] + messages[k].size
    BY <1>13
  <2>4. p[k] \in Nat
    BY <2>1, <2>2, <2>3
  <2> QED BY <2>1, <2>4
<1>16. 0..n \subseteq P
  <2> HIDE DEF P
  <2> QED BY <1>14, <1>15, UpTo
<1>17. p \in [0..n -> Nat]
  BY <1>10, <1>16
<1> QED BY <1>12, <1>13, <1>17 DEF p

\* Frame k of a client.
FrameOf(messages, k) ==
    Frame(Digits(Payload(messages)[k - 1], messages[k].size), messages[k].padding)

\* The frame of a message, as a sequence.
LEMMA FrameOfIs ==
    ASSUME NEW n \in Nat, NEW messages \in [1..n -> Messages], NEW k \in 1..n
    PROVE  /\ FrameOf(messages, k) \in Seq(Nat)
           /\ Len(FrameOf(messages, k)) = 3 + messages[k].size + messages[k].padding
           /\ FrameOf(messages, k)[1] * Byte + FrameOf(messages, k)[2] = messages[k].size
           /\ FrameOf(messages, k)[3] = messages[k].padding
           /\ \A i \in 1..messages[k].size :
                 FrameOf(messages, k)[3 + i] = Digits(Payload(messages)[k - 1],
                     messages[k].size)[i]
<1> DEFINE payload == Digits(Payload(messages)[k - 1], messages[k].size)
<1>1. messages[k].size \in Nat /\ messages[k].padding \in Nat
  BY MessageIs
<1>2. Payload(messages)[k - 1] \in Nat
  BY PayloadIs
<1>3. payload \in Seq(Nat) /\ Len(payload) = messages[k].size
  BY <1>1, <1>2, DigitsAre
<1>4. FrameOf(messages, k) = Frame(payload, messages[k].padding)
  BY DEF FrameOf
<1> HIDE DEF payload
<1>5. /\ Frame(payload, messages[k].padding) \in Seq(Nat)
      /\ Len(Frame(payload, messages[k].padding)) = 3 + Len(payload) + messages[k].padding
      /\ Frame(payload, messages[k].padding)[1] * Byte + Frame(payload, messages[k].padding)[2]
            = Len(payload)
      /\ Frame(payload, messages[k].padding)[3] = messages[k].padding
      /\ \A i \in 1..Len(payload) : Frame(payload, messages[k].padding)[3 + i] = payload[i]
  BY <1>1, <1>3, FrameIs
<1> QED BY <1>3, <1>4, <1>5 DEF payload

\* The frames of a client.
LEMMA FramesAre ==
    ASSUME NEW n \in Nat, NEW messages \in [1..n -> Messages]
    PROVE  /\ Frames(messages) \in [0..n -> Seq(Nat)] /\ Frames(messages)[0] = <<>>
           /\ \A k \in 1..n :
                 Frames(messages)[k] = Frames(messages)[k - 1] \o FrameOf(messages, k)
<1> DEFINE F == [k \in 1..n |-> [w \in Seq(Nat) |-> w \o FrameOf(messages, k)]]
           Def(g) == g = [k \in 0..n |-> IF k = 0 THEN <<>> ELSE g[k - 1] \o FrameOf(messages, k)]
<1>1. \A k \in 1..n : FrameOf(messages, k) \in Seq(Nat)
  BY FrameOfIs
<1>2. \A k \in 1..n, w \in Seq(Nat) : w \o FrameOf(messages, k) \in Seq(Nat)
  BY <1>1, Joined
<1>3. F \in [1..n -> [Seq(Nat) -> Seq(Nat)]]
  BY <1>2
<1>4. \A k \in 1..n, w \in Seq(Nat) : F[k][w] = w \o FrameOf(messages, k)
  OBVIOUS
<1> HIDE DEF F
<1>5. PICK g \in [0..n -> Seq(Nat)] : g[0] = <<>> /\ \A k \in 1..n : g[k] = F[k][g[k - 1]]
  <2>1. <<>> \in Seq(Nat)
    OBVIOUS
  <2>2. \E g \in [0..n -> Seq(Nat)] : Recurs(g, n, <<>>, F)
    BY <1>3, <2>1, Recursion, Zenon
  <2> QED BY <2>2 DEF Recurs
<1>6. \A k \in 0..n : g[k] = IF k = 0 THEN <<>> ELSE g[k - 1] \o FrameOf(messages, k)
  <2> TAKE k \in 0..n
  <2>1. CASE k = 0
    BY <1>5, <2>1
  <2>2. CASE k # 0
    <3>1. k \in 1..n /\ k - 1 \in 0..n
      BY <2>2
    <3>2. g[k - 1] \in Seq(Nat)
      BY <3>1
    <3>3. g[k] = F[k][g[k - 1]]
      BY <1>5, <3>1
    <3> QED BY <1>4, <2>2, <3>1, <3>2, <3>3
  <2> QED BY <2>1, <2>2
<1>7. Def(g)
  <2>1. g = [k \in 0..n |-> g[k]]
    OBVIOUS
  <2> QED BY <2>1, <1>6
<1>8. Len(messages) = n
  BY MessageIs
<1>9. Frames(messages) = CHOOSE h : Def(h)
  BY <1>8 DEF Frames, FrameOf
<1>10. Def(Frames(messages))
  <2> HIDE DEF Def
  <2> QED BY <1>7, <1>9
<1> DEFINE p == Frames(messages)
<1> HIDE DEF p
<1>11. p = [k \in 0..n |-> IF k = 0 THEN <<>> ELSE p[k - 1] \o FrameOf(messages, k)]
  BY <1>10 DEF p
<1>12. /\ DOMAIN p = 0..n
       /\ \A k \in 0..n : p[k] = IF k = 0 THEN <<>> ELSE p[k - 1] \o FrameOf(messages, k)
  BY <1>11
<1>13. p[0] = <<>>
  BY <1>12
<1>14. \A k \in 1..n : p[k] = p[k - 1] \o FrameOf(messages, k)
  <2> TAKE k \in 1..n
  <2>1. k \in 0..n /\ k # 0
    OBVIOUS
  <2> QED BY <1>12, <2>1, Zenon
<1> DEFINE P == {k \in 0..n : p[k] \in Seq(Nat)}
<1>15. 0 \in P
  <2>1. 0 \in 0..n /\ <<>> \in Seq(Nat)
    OBVIOUS
  <2>2. p[0] \in Seq(Nat)
    BY <1>13, <2>1
  <2> QED BY <2>1, <2>2
<1>16. \A k \in 1..n : k - 1 \in P => k \in P
  <2> TAKE k \in 1..n
  <2> HAVE k - 1 \in P
  <2>1. p[k - 1] \in Seq(Nat) /\ k \in 0..n
    OBVIOUS
  <2>2. p[k] \in Seq(Nat)
    BY <1>2, <1>14, <2>1
  <2> QED BY <2>1, <2>2
<1>17. 0..n \subseteq P
  <2> HIDE DEF P
  <2> QED BY <1>15, <1>16, UpTo
<1>18. p \in [0..n -> Seq(Nat)]
  BY <1>11, <1>17
<1> QED BY <1>13, <1>14, <1>18 DEF p

\* The next frame off the rest of what a download has written, if there is one.
NextFrame(s, last) ==
    LET rest == After(s, last.at)
        size == rest[1] * Byte + rest[2]
    IN  IF Len(rest) < 3 THEN last
        ELSE [at |-> last.at + 3 + size + rest[3],
              payload |-> last.payload \o Upto(After(rest, 3), size)]

\* Where a client has come to in its bytes, and the payload it has.
Read == [at : Nat, payload : Seq(Nat)]

\* It ends somewhere and has some payload.
LEMMA NextFrameTyped ==
    ASSUME NEW s \in Seq(Nat), NEW last \in Read PROVE NextFrame(s, last) \in Read
<1> DEFINE rest == After(s, last.at)
           size == rest[1] * Byte + rest[2]
           body == Upto(After(rest, 3), size)
<1>1. last.at \in Nat /\ last.payload \in Seq(Nat)
  BY DEF Read
<1>2. rest \in Seq(Nat)
  BY <1>1, Cuts
<1> HIDE DEF rest
<1>3. CASE Len(rest) < 3
  BY <1>3 DEF NextFrame, rest
<1>4. CASE ~(Len(rest) < 3)
  <2>1. rest[1] \in Nat /\ rest[2] \in Nat /\ rest[3] \in Nat
    BY <1>2, <1>4
  <2>2. size \in Nat
    BY <2>1, TwoDigits
  <2> HIDE DEF size
  <2>3. After(rest, 3) \in Seq(Nat)
    BY <1>2, Cuts, 3 \in Nat
  <2>4. body \in Seq(Nat)
    BY <2>2, <2>3, Cuts
  <2> HIDE DEF body
  <2>5. last.payload \o body \in Seq(Nat)
    BY <1>1, <2>4, Joined
  <2>6. last.at + 3 + size + rest[3] \in Nat
    BY <1>1, <2>1, <2>2
  <2>7. NextFrame(s, last) = [at |-> last.at + 3 + size + rest[3],
      payload |-> last.payload \o body]
    BY <1>4 DEF NextFrame, rest, size, body
  <2> QED BY <2>5, <2>6, <2>7 DEF Read
<1> QED BY <1>3, <1>4

\* The frames the client of a download takes off.
LEMMA TakenIs ==
    ASSUME NEW s \in Seq(Nat)
    PROVE  /\ Taken(s) \in [0..NumFirstPaddings -> Read]
           /\ Taken(s)[0] = [at |-> 0, payload |-> <<>>]
           /\ \A k \in 1..NumFirstPaddings : Taken(s)[k] = NextFrame(s, Taken(s)[k - 1])
<1> DEFINE n == NumFirstPaddings
           none == [at |-> 0, payload |-> <<>>]
           F == [k \in 1..n |-> [last \in Read |-> NextFrame(s, last)]]
           Def(g) == g = [k \in 0..n |-> IF k = 0 THEN none ELSE NextFrame(s, g[k - 1])]
<1>1. n \in Nat
  BY PaddingAssumption
<1>2. none \in Read
  BY DEF Read
<1>3. \A last \in Read : NextFrame(s, last) \in Read
  BY NextFrameTyped
<1>4. F \in [1..n -> [Read -> Read]]
  BY <1>3
<1>5. \A k \in 1..n, last \in Read : F[k][last] = NextFrame(s, last)
  OBVIOUS
<1>6. Taken(s) = CHOOSE h : Def(h)
  BY DEF Taken, NextFrame
<1> HIDE DEF F, n, none
<1>7. PICK g \in [0..n -> Read] : g[0] = none /\ \A k \in 1..n : g[k] = F[k][g[k - 1]]
  <2>1. \E g \in [0..n -> Read] : Recurs(g, n, none, F)
    BY <1>1, <1>2, <1>4, Recursion, Zenon
  <2> QED BY <2>1 DEF Recurs
<1>8. \A k \in 0..n : g[k] = IF k = 0 THEN none ELSE NextFrame(s, g[k - 1])
  <2> TAKE k \in 0..n
  <2>1. CASE k = 0
    BY <1>7, <2>1
  <2>2. CASE k # 0
    <3>1. k \in 1..n /\ k - 1 \in 0..n
      BY <1>1, <2>2
    <3>2. g[k - 1] \in Read
      BY <3>1
    <3>3. g[k] = F[k][g[k - 1]]
      BY <1>7, <3>1
    <3> QED BY <1>5, <2>2, <3>1, <3>2, <3>3
  <2> QED BY <2>1, <2>2
<1>9. Def(g)
  <2>1. g = [k \in 0..n |-> g[k]]
    OBVIOUS
  <2> QED BY <2>1, <1>8
<1>10. Def(Taken(s))
  <2> HIDE DEF Def
  <2> QED BY <1>6, <1>9
<1> DEFINE p == Taken(s)
<1> HIDE DEF p
<1>11. p = [k \in 0..n |-> IF k = 0 THEN none ELSE NextFrame(s, p[k - 1])]
  BY <1>10 DEF p
<1>12. /\ DOMAIN p = 0..n
       /\ \A k \in 0..n : p[k] = IF k = 0 THEN none ELSE NextFrame(s, p[k - 1])
  BY <1>11
<1>13. p[0] = none
  BY <1>1, <1>12
<1>14. \A k \in 1..n : p[k] = NextFrame(s, p[k - 1])
  BY <1>1, <1>12
<1> DEFINE P == {k \in 0..n : p[k] \in Read}
<1>15. 0 \in P
  BY <1>1, <1>2, <1>13
<1>16. \A k \in 1..n : k - 1 \in P => k \in P
  <2> TAKE k \in 1..n
  <2> HAVE k - 1 \in P
  <2>1. p[k - 1] \in Read /\ k \in 0..n
    BY <1>1
  <2>2. p[k] \in Read
    BY <1>3, <1>14, <2>1
  <2> QED BY <2>1, <2>2
<1>17. 0..n \subseteq P
  <2> HIDE DEF P
  <2> QED BY <1>1, <1>15, <1>16, UpTo
<1>18. p \in [0..n -> Read]
  BY <1>11, <1>17
<1> QED BY <1>13, <1>14, <1>18 DEF p, n, none

-------------------------------------------------------------------------------
\* A part of a stream.
LEMMA PartIs ==
    ASSUME NEW w \in Seq(Nat), NEW a \in Nat, NEW b \in 0..Len(w), a <= b
    PROVE  /\ SubSeq(w, a + 1, b) \in Seq(Nat) /\ Len(SubSeq(w, a + 1, b)) = b - a
           /\ \A i \in 1..(b - a) : SubSeq(w, a + 1, b)[i] = w[a + i]
<1>1. Len(w) \in Nat /\ a + 1 \in Int /\ b \in Int
  OBVIOUS
<1>2. \A i \in (a + 1)..b : w[i] \in Nat
  BY <1>1
<1>3. /\ SubSeq(w, a + 1, b) \in Seq(Nat)
      /\ Len(SubSeq(w, a + 1, b)) = IF a + 1 <= b THEN b - (a + 1) + 1 ELSE 0
      /\ \A i \in 1..(b - (a + 1) + 1) : SubSeq(w, a + 1, b)[i] = w[a + 1 + i - 1]
  BY <1>1, <1>2, SubSeqProperties
<1>4. Len(SubSeq(w, a + 1, b)) = b - a
  BY <1>1, <1>3
<1>5. ASSUME NEW i \in 1..(b - a) PROVE SubSeq(w, a + 1, b)[i] = w[a + i]
  <2>1. i \in 1..(b - (a + 1) + 1) /\ a + 1 + i - 1 = a + i
    BY <1>1
  <2> QED BY <1>3, <2>1
<1> QED BY <1>3, <1>4, <1>5

\* Nothing is left after as many bytes as there are.
LEMMA NothingAfter ==
    ASSUME NEW s \in Seq(Nat), NEW m \in Nat, Len(s) <= m PROVE After(s, m) = <<>>
<1>1. Len(s) \in Nat
  OBVIOUS
<1>2. Len(After(s, m)) = 0 /\ After(s, m) \in Seq(Nat)
  BY <1>1, Cuts
<1> QED BY <1>2

\* What is left of a part of a stream.
LEMMA PartAfter ==
    ASSUME NEW w \in Seq(Nat), NEW a \in Nat, NEW b \in 0..Len(w), NEW m \in Nat, a + m <= b
    PROVE  After(SubSeq(w, a + 1, b), m) = SubSeq(w, a + m + 1, b)
<1> DEFINE s == SubSeq(w, a + 1, b)  t == SubSeq(w, a + m + 1, b)  u == After(s, m)
<1>1. a <= b /\ a + m \in Nat /\ b \in Nat
  OBVIOUS
<1>2. s \in Seq(Nat) /\ Len(s) = b - a /\ \A i \in 1..(b - a) : s[i] = w[a + i]
  BY <1>1, PartIs
<1>3. /\ t \in Seq(Nat) /\ Len(t) = b - (a + m)
      /\ \A i \in 1..(b - (a + m)) : t[i] = w[a + m + i]
  BY <1>1, PartIs
<1> HIDE DEF s, t
<1>4. /\ u \in Seq(Nat) /\ Len(u) = (IF m < Len(s) THEN Len(s) - m ELSE 0)
      /\ \A i \in 1..Len(u) : u[i] = s[m + i]
  BY <1>2, Cuts
<1> HIDE DEF u
<1>5. Len(u) = Len(t)
  BY <1>1, <1>2, <1>3, <1>4
<1>6. \A i \in 1..Len(u) : u[i] = t[i]
  <2> TAKE i \in 1..Len(u)
  <2>1. i \in 1..(b - (a + m)) /\ m + i \in 1..(b - a) /\ a + (m + i) = a + m + i
    BY <1>1, <1>3, <1>5
  <2> QED BY <1>2, <1>3, <1>4, <2>1
<1>7. u = t
  BY <1>3, <1>4, <1>5, <1>6, SeqEqual
<1> QED BY <1>7 DEF s, t, u

\* Bytes that are the digits in their order.
LEMMA BytesAre ==
    ASSUME NEW s \in Seq(Nat), NEW q \in Nat, NEW m \in 0..Len(s),
           \A i \in 1..m : s[i] = (q + i) % Byte
    PROVE  Upto(s, m) = Digits(q, m)
<1> DEFINE u == Upto(s, m)  t == Digits(q, m)
<1>1. Len(s) \in Nat /\ m \in Nat
  OBVIOUS
<1>2. /\ u \in Seq(Nat) /\ Len(u) = (IF m < Len(s) THEN m ELSE Len(s))
      /\ \A i \in 1..Len(u) : u[i] = s[i]
  BY <1>1, Cuts
<1>3. t \in Seq(Nat) /\ Len(t) = m /\ \A i \in 1..m : t[i] = (q + i) % Byte
  BY <1>1, DigitsAre
<1> HIDE DEF u, t
<1>4. Len(u) = m
  BY <1>1, <1>2
<1>5. \A i \in 1..Len(u) : u[i] = t[i]
  BY <1>2, <1>3, <1>4
<1>6. u = t
  BY <1>2, <1>3, <1>4, <1>5, SeqEqual
<1> QED BY <1>6 DEF u, t

-------------------------------------------------------------------------------
\* Where the frames of a client begin and what they carry.
Wire(messages, plain) ==
    Frames(messages)[Len(messages)] \o Digits(Payload(messages)[Len(messages)], plain)

\* Where frame k + 1 begins.
Start(messages, k) == Len(Frames(messages)[k])

\* A frame takes its bytes of the wire and of the payload.
LEMMA StartsAre ==
    ASSUME NEW n \in Nat, NEW messages \in [1..n -> Messages]
    PROVE  /\ Start(messages, 0) = 0
           /\ \A k \in 0..n : Start(messages, k) \in Nat
           /\ \A k \in 1..n : Start(messages, k) = Start(messages, k - 1)
                                    + (3 + messages[k].size + messages[k].padding)
<1>1. Start(messages, 0) = 0
  BY FramesAre DEF Start
<1>2. ASSUME NEW k \in 0..n PROVE Start(messages, k) \in Nat
  <2>1. Frames(messages)[k] \in Seq(Nat)
    BY FramesAre
  <2> QED BY <2>1 DEF Start
<1>3. ASSUME NEW k \in 1..n
      PROVE  Start(messages, k) = Start(messages,
          k - 1) + (3 + messages[k].size + messages[k].padding)
  <2>1. k - 1 \in 0..n
    OBVIOUS
  <2>2. Frames(messages)[k - 1] \in Seq(Nat) /\ FrameOf(messages, k) \in Seq(Nat)
    BY <2>1, FramesAre, FrameOfIs
  <2>3. Frames(messages)[k] = Frames(messages)[k - 1] \o FrameOf(messages, k)
    BY FramesAre
  <2>4. Len(Frames(messages)[k - 1] \o FrameOf(messages, k))
            = Len(Frames(messages)[k - 1]) + Len(FrameOf(messages, k))
    BY <2>2, Joined
  <2>5. Len(FrameOf(messages, k)) = 3 + messages[k].size + messages[k].padding
    BY FrameOfIs
  <2> QED BY <2>3, <2>4, <2>5 DEF Start
<1> QED BY <1>1, <1>2, <1>3

\* The first frames are a prefix of all of them, and so with their payload.
LEMMA FirstFrames ==
    ASSUME NEW n \in Nat, NEW messages \in [1..n -> Messages], NEW k \in 0..n
    PROVE  /\ Start(messages, k) <= Start(messages, n)
           /\ Payload(messages)[k] <= Payload(messages)[n]
           /\ \A i \in 1..Start(messages, k) : Frames(messages)[n][i] = Frames(messages)[k][i]
<1> DEFINE Holds(m) ==
              /\ Start(messages, k) <= Start(messages, m)
              /\ Payload(messages)[k] <= Payload(messages)[m]
              /\ \A i \in 1..Start(messages, k) : Frames(messages)[m][i] = Frames(messages)[k][i]
           P == {m \in 0..n : k <= m => Holds(m)}
<1>1. /\ \A m \in 0..n : Start(messages, m) \in Nat /\ Payload(messages)[m] \in Nat
      /\ \A m \in 0..n : Frames(messages)[m] \in Seq(Nat)
  BY StartsAre, PayloadIs, FramesAre
<1>2. Holds(k)
  BY <1>1
<1>3. 0 \in P
  <2>1. k <= 0 => k = 0
    OBVIOUS
  <2>2. k <= 0 => Holds(0)
    BY <1>2, <2>1
  <2>3. 0 \in 0..n
    OBVIOUS
  <2> HIDE DEF Holds
  <2> QED BY <2>2, <2>3
<1>4. ASSUME NEW m \in 1..n, m - 1 \in P PROVE m \in P
  <2>1. m \in 0..n /\ m - 1 \in 0..n
    OBVIOUS
  <2>2. CASE m <= k
    <3>1. k <= m => m = k
      BY <2>2
    <3>2. k <= m => Holds(m)
      BY <1>2, <3>1
    <3> HIDE DEF Holds
    <3> QED BY <2>1, <3>2
  <2>3. CASE ~(m <= k)
    <3>1. k <= m - 1
      BY <2>3
    <3>2. Holds(m - 1)
      <4> HIDE DEF Holds
      <4> QED BY <1>4, <3>1
    <3>3. messages[m].size \in Nat /\ messages[m].padding \in Nat
      BY MessageIs
    <3>4. Start(messages, m) = Start(messages,
        m - 1) + (3 + messages[m].size + messages[m].padding)
      BY StartsAre
    <3>5. Payload(messages)[m] = Payload(messages)[m - 1] + messages[m].size
      BY PayloadIs
    <3>6. /\ Start(messages, m - 1) \in Nat /\ Start(messages, k) \in Nat
          /\ Payload(messages)[m - 1] \in Nat /\ Payload(messages)[k] \in Nat
      BY <1>1, <2>1
    <3>7. Start(messages, k) <= Start(messages, m) /\ Payload(messages)[k] <= Payload(messages)[m]
      <4>1. /\ Start(messages, k) <= Start(messages, m - 1)
            /\ Payload(messages)[k] <= Payload(messages)[m - 1]
        BY <3>2
      <4> HIDE DEF Holds, P
      <4> QED BY <3>3, <3>4, <3>5, <3>6, <4>1, SMTT(30)
    <3>8. Frames(messages)[m] = Frames(messages)[m - 1] \o FrameOf(messages, m)
      BY FramesAre
    <3>9. Frames(messages)[m - 1] \in Seq(Nat) /\ FrameOf(messages, m) \in Seq(Nat)
      BY <1>1, <2>1, FrameOfIs
    <3>10. \A i \in 1..Start(messages, m - 1) :
              (Frames(messages)[m - 1] \o FrameOf(messages, m))[i] = Frames(messages)[m - 1][i]
      BY <3>9, Joined DEF Start
    <3>11. ASSUME NEW i \in 1..Start(messages, k)
           PROVE  Frames(messages)[m][i] = Frames(messages)[k][i]
      <4>1. i \in 1..Start(messages, m - 1)
        BY <3>2, <3>6
      <4>2. Frames(messages)[m][i] = Frames(messages)[m - 1][i]
        BY <3>8, <3>10, <4>1
      <4>3. Frames(messages)[m - 1][i] = Frames(messages)[k][i]
        BY <3>2
      <4> QED BY <4>2, <4>3
    <3>12. Holds(m)
      BY <3>7, <3>11
    <3> HIDE DEF Holds
    <3> QED BY <2>1, <3>12
  <2> QED BY <2>2, <2>3
<1>5. 0..n \subseteq P
  <2> HIDE DEF P
  <2> QED BY <1>3, <1>4, UpTo
<1>6. n \in 0..n /\ k <= n
  OBVIOUS
<1>7. Holds(n)
  <2> HIDE DEF Holds
  <2> QED BY <1>5, <1>6
<1> QED BY <1>7

\* The wire of a client, byte by byte.
LEMMA WireIs ==
    ASSUME NEW n \in Nat, NEW messages \in [1..n -> Messages], NEW plain \in Nat
    PROVE  LET w == Wire(messages, plain)
           IN  /\ w \in Seq(Nat) /\ Len(w) = Start(messages, n) + plain
               /\ \A k \in 1..n :
                     LET a == Start(messages, k - 1)
                     IN  /\ w[a + 1] * Byte + w[a + 2] = messages[k].size
                         /\ w[a + 3] = messages[k].padding
                         /\ \A i \in 1..messages[k].size :
                               w[a + 3 + i] = (Payload(messages)[k - 1] + i) % Byte
               /\ \A i \in 1..plain :
                     w[Start(messages, n) + i] = (Payload(messages)[n] + i) % Byte
<1> DEFINE frames == Frames(messages)[n]
           rest == Digits(Payload(messages)[n], plain)
           w == Wire(messages, plain)
<1>1. Len(messages) = n /\ n \in 0..n
  BY MessageIs
<1>2. frames \in Seq(Nat) /\ Len(frames) = Start(messages, n)
  BY <1>1, FramesAre DEF Start
<1>3. Payload(messages)[n] \in Nat
  BY <1>1, PayloadIs
<1>4. /\ rest \in Seq(Nat) /\ Len(rest) = plain
      /\ \A i \in 1..plain : rest[i] = (Payload(messages)[n] + i) % Byte
  BY <1>3, DigitsAre
<1>5. w = frames \o rest
  BY <1>1 DEF Wire
<1> HIDE DEF frames, rest, w
<1>6. /\ w \in Seq(Nat) /\ Len(w) = Len(frames) + Len(rest)
      /\ \A i \in 1..Len(frames) : w[i] = frames[i]
      /\ \A i \in 1..Len(rest) : w[Len(frames) + i] = rest[i]
  <2>1. /\ frames \o rest \in Seq(Nat) /\ Len(frames \o rest) = Len(frames) + Len(rest)
        /\ \A i \in 1..Len(frames) : (frames \o rest)[i] = frames[i]
        /\ \A i \in 1..Len(rest) : (frames \o rest)[Len(frames) + i] = rest[i]
    BY <1>2, <1>4, Joined
  <2> QED BY <1>5, <2>1
<1>7. \A i \in 1..plain : w[Start(messages, n) + i] = (Payload(messages)[n] + i) % Byte
  BY <1>2, <1>4, <1>6
<1>8. ASSUME NEW k \in 1..n
      PROVE  LET a == Start(messages, k - 1)
             IN  /\ w[a + 1] * Byte + w[a + 2] = messages[k].size
                 /\ w[a + 3] = messages[k].padding
                 /\ \A i \in 1..messages[k].size :
                       w[a + 3 + i] = (Payload(messages)[k - 1] + i) % Byte
  <2> DEFINE a == Start(messages, k - 1)
             f == FrameOf(messages, k)
             size == messages[k].size
             padding == messages[k].padding
             q == Payload(messages)[k - 1]
  <2>1. k - 1 \in 0..n /\ k \in 0..n
    OBVIOUS
  <2>2. a \in Nat /\ size \in Nat /\ padding \in Nat /\ q \in Nat
    BY <2>1, StartsAre, MessageIs, PayloadIs
  <2>3. /\ f \in Seq(Nat) /\ Len(f) = 3 + size + padding
        /\ f[1] * Byte + f[2] = size /\ f[3] = padding
        /\ \A i \in 1..size : f[3 + i] = Digits(q, size)[i]
    BY FrameOfIs
  <2>4. \A i \in 1..size : Digits(q, size)[i] = (q + i) % Byte
    BY <2>2, DigitsAre
  <2>5. Start(messages, k) = a + (3 + size + padding)
    BY StartsAre
  <2>6. Start(messages, k) <= Start(messages, n) /\ Start(messages, n) \in Nat
    BY <1>1, <2>1, FirstFrames, StartsAre
  <2>7. \A i \in 1..Start(messages, k) : frames[i] = Frames(messages)[k][i]
    BY <2>1, FirstFrames DEF frames
  <2>8. \A j \in 1..Len(f) : Frames(messages)[k][a + j] = f[j]
    <3>1. Frames(messages)[k] = Frames(messages)[k - 1] \o f
      BY FramesAre
    <3>2. Frames(messages)[k - 1] \in Seq(Nat) /\ Len(Frames(messages)[k - 1]) = a
      BY <2>1, FramesAre DEF Start
    <3>3. \A j \in 1..Len(f) :
             (Frames(messages)[k - 1] \o f)[Len(Frames(messages)[k - 1]) + j] = f[j]
      BY <2>3, <3>2, Joined
    <3> QED BY <3>1, <3>2, <3>3
  <2> HIDE DEF a, f, size, padding, q
  <2>9. ASSUME NEW j \in 1..(3 + size + padding) PROVE w[a + j] = f[j]
    <3>1. a + j \in 1..Start(messages, k) /\ a + j \in 1..Len(frames)
      BY <1>2, <2>2, <2>5, <2>6
    <3>2. j \in 1..Len(f)
      BY <2>3
    <3> QED BY <1>6, <2>7, <2>8, <3>1, <3>2
  <2>10. w[a + 1] = f[1] /\ w[a + 2] = f[2] /\ w[a + 3] = f[3]
    <3>1. 1 \in 1..(3 + size + padding) /\ 2 \in 1..(3 + size + padding)
          /\ 3 \in 1..(3 + size + padding)
      BY <2>2
    <3> QED BY <2>9, <3>1
  <2>11. ASSUME NEW i \in 1..size PROVE w[a + 3 + i] = (q + i) % Byte
    <3>1. 3 + i \in 1..(3 + size + padding) /\ a + (3 + i) = a + 3 + i
      BY <2>2
    <3>2. w[a + (3 + i)] = f[3 + i]
      BY <2>9, <3>1
    <3> QED BY <2>3, <2>4, <3>1, <3>2
  <2>12. w[a + 1] * Byte + w[a + 2] = size /\ w[a + 3] = padding
    BY <2>3, <2>10
  <2> QED BY <2>11, <2>12 DEF a, size, padding, q
<1>9. Len(w) = Start(messages, n) + plain
  BY <1>2, <1>4, <1>6
<1> QED BY <1>6, <1>7, <1>8, <1>9 DEF w

-------------------------------------------------------------------------------
\* The reads of frame k, of a wire that is there up to `cut': its payload, if it is
\* there to its end, and what there is of it otherwise.
ReadOf(messages, plain, cut, k, rest, nr, body, padding) ==
    /\ Start(messages, k) <= cut =>
          /\ body = Digits(Payload(messages)[k - 1], messages[k].size)
          /\ After(rest, nr + padding) = SubSeq(Wire(messages, plain), Start(messages, k) + 1,
              cut)
          /\ IF body = <<>> THEN ReadFullErr(rest, nr) = "no"
             ELSE ReadFullErr(After(rest, nr), padding) = "no"
    /\ cut < Start(messages, k) =>
          /\ \E m \in 0..messages[k].size : body = Digits(Payload(messages)[k - 1], m)
          /\ After(rest, nr + padding) = <<>>

\* The reads of RemovePadding are that.
LEMMA FrameRead ==
    ASSUME NEW n \in Nat, NEW messages \in [1..n -> Messages], NEW plain \in Nat,
           NEW k \in 1..n, NEW cut \in Nat,
           cut <= Len(Wire(messages, plain)), Start(messages, k - 1) < cut,
           ~(messages[k].size = 0 /\ messages[k].padding > 0),
           NEW s, s = SubSeq(Wire(messages, plain), Start(messages, k - 1) + 1, cut),
           NEW header \in [1..3 -> 0..(Byte - 1)],
           \A i \in 1..3 : i <= Len(s) => header[i] = s[i],
           NEW nr, nr = header[1] * Byte + header[2],
           NEW rest, rest = After(s, 3),
           NEW body, body = Upto(rest, nr),
           NEW padding, padding = IF body = <<>> THEN 0 ELSE header[3]
    PROVE  ReadOf(messages, plain, cut, k, rest, nr, body, padding)
<1> DEFINE w == Wire(messages, plain)
           a == Start(messages, k - 1)
           b == Start(messages, k)
           q == Payload(messages)[k - 1]
           size == messages[k].size
           pad == messages[k].padding
<1>1. k - 1 \in 0..n /\ k \in 0..n
  OBVIOUS
<1>2. a \in Nat /\ b \in Nat /\ size \in Nat /\ pad \in Nat /\ q \in Nat
  <2>1. a \in Nat /\ b \in Nat
    <3>1. \A j \in 0..n : Start(messages, j) \in Nat
      BY StartsAre, Zenon
    <3> QED BY <1>1, <3>1, Zenon
  <2>2. size \in Nat /\ pad \in Nat
    BY MessageIs
  <2>3. q \in Nat
    <3>1. Payload(messages) \in [0..n -> Nat]
      BY PayloadIs, Zenon
    <3> QED BY <1>1, <3>1
  <2> QED BY <2>1, <2>2, <2>3
<1>3. b = a + (3 + size + pad)
  BY StartsAre, ZenonT(60)
<1>4. /\ w \in Seq(Nat)
      /\ w[a + 1] * Byte + w[a + 2] = size /\ w[a + 3] = pad
      /\ \A i \in 1..size : w[a + 3 + i] = (q + i) % Byte
  BY WireIs, ZenonT(60)
<1>5. cut <= Len(w) /\ a < cut /\ ~(size = 0 /\ pad > 0) /\ s = SubSeq(w, a + 1, cut)
  OBVIOUS
<1> HIDE DEF w, a, b, q, size, pad
<1>6. s \in Seq(Nat) /\ Len(s) = cut - a /\ \A i \in 1..(cut - a) : s[i] = w[a + i]
  <2>1. Len(w) \in Nat /\ cut \in 0..Len(w) /\ a <= cut
    BY <1>2, <1>4, <1>5
  <2>2. /\ SubSeq(w, a + 1, cut) \in Seq(Nat) /\ Len(SubSeq(w, a + 1, cut)) = cut - a
        /\ \A i \in 1..(cut - a) : SubSeq(w, a + 1, cut)[i] = w[a + i]
    BY <1>2, <1>4, <2>1, PartIs
  <2> QED BY <1>5, <2>2
<1>7. \A x, y \in 0..(Byte - 1) : x * Byte + y \in Nat
  <2>1. \A x, y \in Nat : x * Byte + y \in Nat
    BY TwoDigits
  <2>2. 0..(Byte - 1) \subseteq Nat
    BY PaddingAssumption
  <2> QED BY <2>1, <2>2
<1>8. /\ header[1] \in 0..(Byte - 1) /\ header[2] \in 0..(Byte - 1) /\ header[3] \in 0..(Byte - 1)
      /\ nr \in Nat /\ padding \in Nat
  <2>1. header[1] \in 0..(Byte - 1) /\ header[2] \in 0..(Byte - 1) /\ header[3] \in 0..(Byte - 1)
    OBVIOUS
  <2>2. nr \in Nat
    BY <1>7, <2>1
  <2>3. padding \in Nat
    BY <2>1, PaddingAssumption
  <2> QED BY <2>1, <2>2, <2>3
<1>9. rest \in Seq(Nat)
  BY <1>6, Cuts, 3 \in Nat, ZenonT(60)
<1>10. CASE cut - a < 3
  <2>1. Len(s) <= 3
    BY <1>2, <1>6, <1>10, SMTT(30)
  <2>2. rest = <<>>
    BY <1>6, <2>1, NothingAfter, 3 \in Nat
  <2>3. Len(rest) = 0
    BY <2>2
  <2>4. body \in Seq(Nat) /\ Len(body) = 0
    BY <1>8, <1>9, <2>3, Cuts
  <2>5. body = <<>>
    BY <2>4
  <2>6. After(rest, nr + padding) = <<>>
    <3>1. nr + padding \in Nat /\ Len(rest) <= nr + padding
      BY <1>8, <2>3
    <3> QED BY <1>9, <3>1, NothingAfter
  <2>7. cut < b
    BY <1>2, <1>3, <1>10
  <2>8. Digits(q, 0) = <<>>
    <3>1. Digits(q, 0) \in Seq(Nat) /\ Len(Digits(q, 0)) = 0
      BY <1>2, DigitsAre, 0 \in Nat
    <3> QED BY <3>1
  <2>9. \E m \in 0..size : body = Digits(q, m)
    <3>1. 0 \in 0..size
      BY <1>2
    <3> QED BY <2>5, <2>8, <3>1
  <2>10. ~(b <= cut)
    BY <1>2, <2>7
  <2> QED BY <2>6, <2>9, <2>10 DEF ReadOf, w, a, b, q, size, pad
<1>11. CASE ~(cut - a < 3)
  <2>1. nr = size /\ header[3] = pad
    <3>1. 1 \in 1..(cut - a) /\ 2 \in 1..(cut - a) /\ 3 \in 1..(cut - a)
      BY <1>2, <1>11
    <3>11. 1 <= Len(s) /\ 2 <= Len(s) /\ 3 <= Len(s)
      BY <1>6, <3>1
    <3>12. 1 \in 1..3 /\ 2 \in 1..3 /\ 3 \in 1..3
      OBVIOUS
    <3>2. header[1] = s[1] /\ header[2] = s[2] /\ header[3] = s[3]
      BY <3>11, <3>12
    <3>3. s[1] = w[a + 1] /\ s[2] = w[a + 2] /\ s[3] = w[a + 3]
      BY <1>6, <3>1
    <3> QED BY <1>4, <3>2, <3>3
  <2>2. rest = SubSeq(w, a + 3 + 1, cut)
    <3>1. cut \in 0..Len(w) /\ a + 3 <= cut
      BY <1>2, <1>4, <1>5, <1>11
    <3>2. After(SubSeq(w, a + 1, cut), 3) = SubSeq(w, a + 3 + 1, cut)
      BY <1>2, <1>4, <3>1, PartAfter, 3 \in Nat, ZenonT(60)
    <3> QED BY <1>5, <3>2
  <2>3. /\ rest \in Seq(Nat) /\ Len(rest) = cut - (a + 3)
        /\ \A i \in 1..(cut - (a + 3)) : rest[i] = w[a + 3 + i]
    <3>1. cut \in 0..Len(w) /\ a + 3 <= cut /\ a + 3 \in Nat
      BY <1>2, <1>4, <1>5, <1>11
    <3>2. /\ SubSeq(w, (a + 3) + 1, cut) \in Seq(Nat)
          /\ Len(SubSeq(w, (a + 3) + 1, cut)) = cut - (a + 3)
          /\ \A i \in 1..(cut - (a + 3)) : SubSeq(w, (a + 3) + 1, cut)[i] = w[(a + 3) + i]
      BY <1>4, <3>1, PartIs
    <3> QED BY <2>2, <3>2
  <2>4. CASE b <= cut
    <3>1. size \in 0..Len(rest)
      BY <1>2, <1>3, <2>3, <2>4
    <3>2. \A i \in 1..size : rest[i] = (q + i) % Byte
      <4> TAKE i \in 1..size
      <4>1. i \in 1..(cut - (a + 3))
        BY <1>2, <1>3, <2>4
      <4> QED BY <1>4, <2>3, <4>1
    <3>3. body = Digits(q, size)
      <4>1. Upto(rest, size) = Digits(q, size)
        BY <1>2, <2>3, <3>1, <3>2, BytesAre, ZenonT(60)
      <4> QED BY <2>1, <4>1
    <3>4. Len(body) = size
      BY <1>2, <3>3, DigitsAre
    <3>5. padding = pad
      <4>1. CASE size = 0
        <5>1. body = <<>>
          BY <1>2, <3>3, <3>4, <4>1, DigitsAre
        <5>2. pad = 0
          BY <1>2, <1>5, <4>1
        <5> QED BY <5>1, <5>2
      <4>2. CASE size # 0
        <5>1. body # <<>>
          BY <3>4, <4>2
        <5> QED BY <2>1, <5>1
      <4> QED BY <4>1, <4>2
    <3>6. After(rest, nr + padding) = SubSeq(w, b + 1, cut)
      <4>1. /\ a + 3 \in Nat /\ cut \in 0..Len(w) /\ nr + padding \in Nat
            /\ a + 3 + (nr + padding) <= cut /\ a + 3 + (nr + padding) = b
        <5>1. nr + padding = size + pad /\ nr + padding \in Nat
          BY <1>2, <2>1, <3>5, SMTT(30)
        <5>2. a + 3 + (size + pad) = b
          BY <1>2, <1>3
        <5>3. cut \in 0..Len(w)
          BY <1>4, <1>5
        <5>4. a + 3 + (nr + padding) = b /\ a + 3 \in Nat
          <6>1. a + 3 + (nr + padding) = b
            BY <5>1, <5>2, Zenon
          <6> QED BY <1>2, <6>1
        <5>5. a + 3 + (nr + padding) <= cut
          BY <2>4, <5>4
        <5> QED BY <5>1, <5>3, <5>4, <5>5
      <4>2. After(SubSeq(w, (a + 3) + 1, cut), nr + padding)
                = SubSeq(w, (a + 3) + (nr + padding) + 1, cut)
        BY <1>4, <4>1, PartAfter, ZenonT(60)
      <4> QED BY <2>2, <4>1, <4>2
    <3>7. ReadFullErr(rest, nr) = "no"
      BY <1>2, <2>1, <3>1, <2>3 DEF ReadFullErr
    <3>8. ReadFullErr(After(rest, nr), padding) = "no"
      <4>1. Len(After(rest, nr)) = (IF nr < Len(rest) THEN Len(rest) - nr ELSE 0)
        BY <1>8, <2>3, Cuts, ZenonT(60)
      <4>2. Len(After(rest, nr)) >= padding
        <5>1. Len(rest) >= size + pad
          BY <1>2, <1>3, <2>3, <2>4, SMTT(30)
        <5>2. Len(rest) \in Nat
          BY <2>3
        <5>3. (IF size < Len(rest) THEN Len(rest) - size ELSE 0) >= pad
          BY <1>2, <5>1, <5>2
        <5> QED BY <2>1, <3>5, <4>1, <5>3
      <4> QED BY <4>2 DEF ReadFullErr
    <3>9. ~(cut < b)
      BY <1>2, <2>4
    <3> QED BY <3>3, <3>6, <3>7, <3>8, <3>9 DEF ReadOf, w, a, b, q, size, pad
  <2>5. CASE ~(b <= cut)
    <3> DEFINE m == IF size < Len(rest) THEN size ELSE Len(rest)
    <3>1. m \in 0..Len(rest) /\ m \in 0..size /\ m \in Nat
      BY <1>2, <2>3, SMTT(30)
    <3>2. \A i \in 1..m : rest[i] = (q + i) % Byte
      <4> TAKE i \in 1..m
      <4>1. i \in 1..size /\ i \in 1..(cut - (a + 3))
        BY <1>2, <2>3, SMTT(30)
      <4> QED BY <1>4, <2>3, <4>1
    <3>3. body = Upto(rest, m)
      BY <1>2, <2>1, <2>3 DEF Upto
    <3> HIDE DEF m
    <3>4. body = Digits(q, m)
      BY <1>2, <2>3, <3>1, <3>2, <3>3, BytesAre
    <3>5. Len(body) = m
      BY <1>2, <3>1, <3>4, DigitsAre
    <3>6. Len(rest) <= nr + padding /\ nr + padding \in Nat
      <4>1. CASE body = <<>>
        <5>1. m = 0
          BY <3>5, <4>1
        <5>2. size = 0 => pad = 0
          BY <1>2, <1>5
        <5>3. size # 0
          BY <1>2, <1>3, <1>11, <2>5, <5>2
        <5>4. Len(rest) = 0
          BY <1>2, <2>3, <5>1, <5>3 DEF m
        <5> QED BY <1>8, <5>4
      <4>2. CASE body # <<>>
        <5>1. padding = pad
          BY <2>1, <4>2
        <5>2. cut < b /\ Len(rest) = cut - (a + 3)
          BY <1>2, <2>3, <2>5
        <5>3. Len(rest) <= size + pad /\ size + pad \in Nat
          BY <1>2, <1>3, <5>2
        <5> QED BY <2>1, <5>1, <5>3, Zenon
      <4> QED BY <4>1, <4>2
    <3>7. After(rest, nr + padding) = <<>>
      BY <2>3, <3>6, NothingAfter
    <3>8. cut < b
      BY <1>2, <2>5
    <3> QED BY <2>5, <3>1, <3>4, <3>7, <3>8 DEF ReadOf, w, a, b, q, size, pad
  <2> QED BY <2>4, <2>5
<1> QED BY <1>10, <1>11

-------------------------------------------------------------------------------
\* The stream of a client: n messages, `plain' bytes after them, `cut' bytes of it there.
Stream(n, messages, plain, cut) ==
    /\ plain > 0 => n = NumFirstPaddings
    /\ cut <= Len(Wire(messages, plain))
    /\ sent = Digits(0, Payload(messages)[n] + plain)
    /\ whole = (cut = Len(Wire(messages, plain)))
    /\ hollow = \E i \in 1..n : messages[i].size = 0 /\ messages[i].padding > 0

\* The proxy stands at the end of a frame, or p bytes after the last one, and has
\* written the payload up to there.
Copied(n, messages, plain, cut) ==
    /\ numPadding <= n
    /\ \E p \in 0..plain :
          /\ p > 0 => numPadding = n
          /\ Start(messages, numPadding) + p <= cut
          /\ src = SubSeq(Wire(messages, plain), Start(messages, numPadding) + p + 1, cut)
          /\ dst = Digits(0, Payload(messages)[numPadding] + p)

\* The stream broke off inside a frame.
BrokeOff == src = <<>> /\ ~whole /\ \E p \in 0..Len(sent) : dst = Digits(0, p)

\* How far an upload has come, unless a write has failed or its padding misled it.
UploadExact(n, messages, plain, cut) ==
    ended # "unwritten" /\ ~hollow =>
        /\ counted = Len(dst)
        /\ ended = "eof" => src = <<>>
        /\ Copied(n, messages, plain, cut) \/ BrokeOff

\* There is a client that sends what the proxy reads, and the proxy has come so far.
Uploaded ==
    \E n \in 0..NumFirstPaddings : \E messages \in [1..n -> Messages] : \E plain, cut \in Nat :
        Stream(n, messages, plain, cut) /\ UploadExact(n, messages, plain, cut)

\* How far a download has come, and that its client has every frame whole.
Downloaded ==
    /\ Len(sent) \in Nat /\ sent = Digits(0, Len(sent)) /\ ~hollow
    /\ ended # "unwritten" =>
          /\ counted \in 0..Len(sent) /\ src = Digits(counted, Len(sent) - counted)
          /\ ended = "eof" => src = <<>>
          /\ dst \in Seq(Nat)
          /\ \A k \in 1..numPadding :
                Taken(dst)[k - 1].at + 3 <= Taken(dst)[k].at /\ Taken(dst)[k].at <= Len(dst)
          /\ Framing => Taken(dst)[numPadding].at = Len(dst)
          /\ Taken(dst)[numPadding].payload \o After(dst, Taken(dst)[numPadding].at)
                = Digits(0, counted)

\* The inductive invariant.
PaddingInv ==
    /\ numPadding \in 0..NumFirstPaddings
    /\ upload \in BOOLEAN
    /\ IF upload THEN Uploaded ELSE Downloaded

-------------------------------------------------------------------------------
\* At most the whole payload is written, and all of it at the end of a whole stream.
LEMMA CopiedIs ==
    ASSUME NEW n \in 0..NumFirstPaddings, NEW messages \in [1..n -> Messages],
           NEW plain \in Nat, NEW cut \in Nat, numPadding \in 0..NumFirstPaddings,
           Stream(n, messages, plain, cut), Copied(n, messages, plain, cut)
    PROVE  /\ \E p \in 0..Len(sent) : dst = Digits(0, p)
           /\ whole /\ src = <<>> => dst = sent
<1> DEFINE w == Wire(messages, plain)
           a == Start(messages, numPadding)
           all == Start(messages, n)
           q == Payload(messages)[numPadding]
           framed == Payload(messages)[n]
<1>1. PICK p \in 0..plain :
          /\ p > 0 => numPadding = n
          /\ a + p <= cut
          /\ src = SubSeq(w, a + p + 1, cut)
          /\ dst = Digits(0, q + p)
  BY DEF Copied
<1>2. numPadding <= n
  BY DEF Copied
<1>3. n \in Nat /\ numPadding \in 0..n /\ n \in 0..n
  BY <1>2, PaddingAssumption
<1>4. a \in Nat /\ all \in Nat /\ a <= all
  BY <1>3, StartsAre, FirstFrames
<1>5. q \in Nat /\ framed \in Nat /\ q <= framed
  <2>1. q \in Nat /\ framed \in Nat
    BY <1>3, PayloadIs
  <2>2. q <= framed
    BY <1>3, FirstFrames
  <2> QED BY <2>1, <2>2
<1>6. w \in Seq(Nat) /\ Len(w) = all + plain
  BY <1>3, WireIs
<1>7. numPadding < n => a < all
  <2> SUFFICES ASSUME numPadding < n PROVE a < all
    OBVIOUS
  <2>1. numPadding + 1 \in 1..n /\ numPadding + 1 \in 0..n /\ (numPadding + 1) - 1 = numPadding
    BY <1>3
  <2>2. Start(messages, numPadding + 1)
            = a + (3 + messages[numPadding + 1].size + messages[numPadding + 1].padding)
    BY <1>3, <2>1, StartsAre
  <2>3. messages[numPadding + 1].size \in Nat /\ messages[numPadding + 1].padding \in Nat
    BY <1>3, <2>1, MessageIs
  <2>4. Start(messages, numPadding + 1) <= all
    BY <1>3, <2>1, FirstFrames
  <2> HIDE DEF a, all
  <2> QED BY <1>4, <2>2, <2>3, <2>4, SMTT(30)
<1>8. cut <= Len(w) /\ sent = Digits(0, framed + plain) /\ whole = (cut = Len(w))
  BY DEF Stream
<1> HIDE DEF w, a, all, q, framed
<1>9. Len(sent) = framed + plain
  BY <1>5, <1>8, DigitsAre, 0 \in Nat
<1>10. q + p \in 0..Len(sent)
  BY <1>1, <1>5, <1>9
<1>11. ASSUME whole, src = <<>> PROVE dst = sent
  <2>1. a + p \in Nat /\ cut \in 0..Len(w)
    BY <1>4, <1>6, <1>8
  <2>2. Len(SubSeq(w, (a + p) + 1, cut)) = cut - (a + p)
    BY <1>1, <1>6, <2>1, PartIs
  <2>3. Len(src) = 0
    BY <1>11
  <2>4. cut = a + p
    BY <1>1, <1>4, <2>2, <2>3
  <2>5. a + p = all + plain
    BY <1>6, <1>8, <1>11, <2>4
  <2>6. numPadding = n
    BY <1>1, <1>3, <1>4, <1>7, <2>5
  <2>7. a = all /\ q = framed
    BY <2>6 DEF a, all, q, framed
  <2>8. p = plain
    BY <1>4, <2>5, <2>7
  <2> QED BY <1>1, <1>8, <2>7, <2>8
<1> QED BY <1>1, <1>10, <1>11

\* What a client uploads: a read of a frame.
LEMMA UploadRemove ==
    ASSUME NEW n \in 0..NumFirstPaddings, NEW messages \in [1..n -> Messages],
           NEW plain \in Nat, NEW cut \in Nat, numPadding \in 0..NumFirstPaddings,
           Stream(n, messages, plain, cut), UploadExact(n, messages, plain, cut),
           ended = "no", RemovePadding
    PROVE  UploadExact(n, messages, plain, cut)'
<1> SUFFICES ASSUME ended' # "unwritten", ~hollow
             PROVE  /\ counted' = Len(dst') /\ (ended' = "eof" => src' = <<>>)
                    /\ Copied(n, messages, plain, cut)' \/ BrokeOff'
  BY DEF UploadExact, RemovePadding
<1> DEFINE w == Wire(messages, plain)
           a == Start(messages, numPadding)
           k == numPadding + 1
           b == Start(messages, k)
           q == Payload(messages)[numPadding]
           size == messages[k].size
<1>1. /\ counted = Len(dst)
      /\ Copied(n, messages, plain, cut) \/ BrokeOff
      /\ numPadding < NumFirstPaddings /\ src # <<>>
      /\ numPadding' = numPadding + 1 /\ UNCHANGED <<sent, whole>>
  BY DEF UploadExact, RemovePadding, Framing
<1>2. Copied(n, messages, plain, cut)
  BY <1>1 DEF BrokeOff
<1>3. n \in Nat /\ numPadding \in 0..n /\ n \in 0..n
  BY <1>2, PaddingAssumption DEF Copied
<1>4. PICK p \in 0..plain :
          /\ p > 0 => numPadding = n
          /\ a + p <= cut
          /\ src = SubSeq(w, a + p + 1, cut)
          /\ dst = Digits(0, q + p)
  BY <1>2 DEF Copied
<1>5. a \in Nat /\ Start(messages, n) \in Nat
  BY <1>3, StartsAre
<1>6. q \in Nat /\ Payload(messages)[n] \in Nat
  BY <1>3, PayloadIs
<1>7. w \in Seq(Nat) /\ Len(w) = Start(messages, n) + plain
  BY <1>3, WireIs
<1>8. /\ plain > 0 => n = NumFirstPaddings
      /\ cut <= Len(w) /\ sent = Digits(0, Payload(messages)[n] + plain) /\ whole = (cut = Len(w))
      /\ \A i \in 1..n : ~(messages[i].size = 0 /\ messages[i].padding > 0)
  BY DEF Stream
<1>9. a + p < cut
  <2>1. a + p \in Nat /\ cut \in 0..Len(w)
    <3> HIDE DEF w, a
    <3> QED BY <1>5, <1>7, <1>8
  <2>2. /\ SubSeq(w, (a + p) + 1, cut) \in Seq(Nat)
        /\ Len(SubSeq(w, (a + p) + 1, cut)) = cut - (a + p)
    <3> HIDE DEF w, a
    <3> QED BY <1>4, <1>7, <2>1, PartIs
  <2>3. Len(src) # 0
    BY <1>1, <1>4, <2>2
  <2> HIDE DEF w, a
  <2> QED BY <1>4, <2>1, <2>2, <2>3
<1>10. numPadding < n
  <2>1. CASE numPadding = n
    <3>1. plain = 0 /\ p = 0
      BY <1>1, <1>8, <2>1, PaddingAssumption
    <3>2. a = Start(messages, n)
      BY <2>1
    <3> HIDE DEF a, w
    <3>3. cut <= a
      BY <1>5, <1>7, <1>8, <3>1, <3>2
    <3> QED BY <1>5, <1>9, <3>1, <3>3
  <2> QED BY <1>3, <2>1
<1>11. p = 0
  BY <1>4, <1>10
<1>12. k \in 1..n /\ k \in 0..n /\ k - 1 = numPadding
  BY <1>3, <1>10
<1>13. /\ b \in Nat /\ size \in Nat
       /\ Payload(messages)[k] = q + size /\ Payload(messages)[k] \in Nat
  BY <1>3, <1>12, StartsAre, MessageIs, PayloadIs
<1>14. q + size <= Payload(messages)[n]
  BY <1>3, <1>12, <1>13, FirstFrames
<1>15. PICK header \in [1..3 -> 0..(Byte - 1)] :
          /\ \A i \in 1..3 : i <= Len(src) => header[i] = src[i]
          /\ LET nr == header[1] * Byte + header[2]
                 rest == After(src, 3)
                 body == Upto(rest, nr)
                 padding == IF body = <<>> THEN 0 ELSE header[3]
                 er == IF body = <<>> THEN ReadFullErr(rest, nr)
                       ELSE ReadFullErr(After(rest, nr), padding)
             IN  /\ src' = After(rest, nr + padding)
                 /\ Write(body, Len(body), er)
  BY DEF RemovePadding
<1> DEFINE nr == header[1] * Byte + header[2]
           rest == After(src, 3)
           body == Upto(rest, nr)
           padding == IF body = <<>> THEN 0 ELSE header[3]
           er == IF body = <<>> THEN ReadFullErr(rest, nr)
                 ELSE ReadFullErr(After(rest, nr), padding)
<1>16. /\ src' = After(rest, nr + padding)
       /\ dst' = dst \o body /\ counted' = counted + Len(body) /\ ended' = er
  BY <1>15 DEF Write
<1>17. /\ b <= cut =>
             /\ body = Digits(q, size)
             /\ After(rest, nr + padding) = SubSeq(w, b + 1, cut)
             /\ er = "no"
       /\ cut < b =>
             /\ \E m \in 0..size : body = Digits(q, m)
             /\ After(rest, nr + padding) = <<>>
  <2>1. a < cut /\ src = SubSeq(w, a + 1, cut)
    <3> HIDE DEF a, w
    <3> QED BY <1>4, <1>5, <1>9, <1>11
  <2>2. a = Start(messages, k - 1) /\ q = Payload(messages)[k - 1] /\ w = Wire(messages, plain)
    BY <1>12
  <2> HIDE DEF k
  <2>3. Start(messages, k - 1) < cut /\ cut <= Len(Wire(messages, plain))
    BY <1>8, <2>1, <2>2
  <2>4. src = SubSeq(Wire(messages, plain), Start(messages, k - 1) + 1, cut)
    BY <2>1, <2>2
  <2>5. ~(messages[k].size = 0 /\ messages[k].padding > 0)
    BY <1>8, <1>12
  <2>6. \A i \in 1..3 : i <= Len(src) => header[i] = src[i]
    BY <1>15
  <2>7. /\ nr = header[1] * Byte + header[2] /\ rest = After(src, 3) /\ body = Upto(rest, nr)
        /\ padding = IF body = <<>> THEN 0 ELSE header[3]
    OBVIOUS
  <2>8. er = IF body = <<>> THEN ReadFullErr(rest, nr)
             ELSE ReadFullErr(After(rest, nr), padding)
    OBVIOUS
  <2> HIDE DEF nr, rest, body, padding, er, a, q, w
  <2>9. k \in 1..n /\ n \in Nat
    BY <1>3, <1>12
  <2>10. header \in [1..3 -> 0..(Byte - 1)]
    OBVIOUS
  <2>11. ReadOf(messages, plain, cut, k, rest, nr, body, padding)
    BY <2>3, <2>4, <2>5, <2>6, <2>7, <2>9, <2>10, FrameRead, ZenonT(60)
  <2> QED BY <2>2, <2>8, <2>11 DEF ReadOf, q, size, b
<1> DEFINE framed == Payload(messages)[n]  all == Start(messages, n)
<1>18. /\ framed \in Nat /\ all \in Nat /\ Len(w) = all + plain /\ q + size <= framed
       /\ sent = Digits(0, framed + plain) /\ b <= all
  BY <1>3, <1>5, <1>6, <1>7, <1>8, <1>12, <1>14, FirstFrames
<1>19. dst = Digits(0, q) /\ Len(dst) = q
  <2>1. q + p = q
    BY <1>6, <1>11
  <2>2. dst = Digits(0, q)
    BY <1>4, <2>1
  <2> QED BY <1>6, <2>2, DigitsAre, 0 \in Nat
<1>20. ASSUME NEW m \in Nat, body = Digits(q, m)
       PROVE  dst' = Digits(0, q + m) /\ Len(dst') = q + m /\ counted' = Len(dst')
  <2> HIDE DEF w, a, b, q, size, nr, rest, body, padding, er, framed, all, k
  <2>1. q \in Nat /\ q + m \in Nat /\ 0 + q = q
    BY <1>6
  <2>2. Digits(0, q) \o Digits(0 + q, m) = Digits(0, q + m)
    BY <2>1, DigitsJoin, 0 \in Nat
  <2>3. dst' = Digits(0, q + m)
    BY <1>16, <1>19, <1>20, <2>1, <2>2
  <2>4. Len(body) = m
    BY <1>20, <2>1, DigitsAre
  <2>5. Len(dst') = q + m
    BY <2>1, <2>3, DigitsAre, 0 \in Nat
  <2>6. counted' = q + m
    <3>1. counted = Len(dst)
      BY <1>1
    <3>2. counted' = counted + Len(body)
      BY <1>16
    <3>3. Len(dst) = q
      BY <1>19
    <3> QED BY <2>4, <3>1, <3>2, <3>3, Zenon
  <2> QED BY <2>3, <2>5, <2>6
<1> HIDE DEF w, a, q, size, nr, rest, body, padding, er, framed, all
<1>21. CASE b <= cut
  <2>1. body = Digits(q, size) /\ src' = SubSeq(w, b + 1, cut) /\ ended' = "no"
    BY <1>16, <1>17, <1>21
  <2>2. dst' = Digits(0, q + size) /\ counted' = Len(dst')
    BY <1>13, <1>20, <2>1
  <2>3. Copied(n, messages, plain, cut)'
    <3>1. numPadding' = k /\ numPadding' <= n
      BY <1>1, <1>3, <1>10
    <3>2. 0 \in 0..plain /\ ~(0 > 0)
      OBVIOUS
    <3>3. b + 0 = b /\ Payload(messages)[k] + 0 = q + size
      <4> HIDE DEF b
      <4> QED BY <1>13
    <3>4. b + 0 <= cut /\ src' = SubSeq(w, b + 0 + 1, cut) /\ dst' = Digits(0,
        Payload(messages)[k] + 0)
      BY <1>21, <2>1, <2>2, <3>3
    <3> QED BY <3>1, <3>2, <3>4 DEF Copied, w
  <2> QED BY <2>1, <2>2, <2>3
<1>22. CASE cut < b
  <2>1. PICK m \in 0..size : body = Digits(q, m)
    BY <1>17, <1>22
  <2>2. src' = <<>>
    BY <1>16, <1>17, <1>22
  <2>3. m \in Nat
    BY <1>13
  <2>4. dst' = Digits(0, q + m) /\ counted' = Len(dst')
    BY <1>20, <2>1, <2>3
  <2> HIDE DEF b
  <2>5. ~whole
    <3>1. cut < all + plain
      BY <1>13, <1>18, <1>22
    <3>2. cut # Len(w)
      BY <1>18, <3>1
    <3> QED BY <1>8, <3>2
  <2>6. q + m \in 0..Len(sent)
    <3>1. framed + plain \in Nat
      BY <1>18
    <3>2. Len(sent) = framed + plain
      BY <1>18, <3>1, DigitsAre, 0 \in Nat
    <3>3. q + m \in 0..(framed + plain)
      BY <1>6, <1>13, <1>18, <2>3
    <3> QED BY <3>2, <3>3
  <2>7. BrokeOff'
    BY <1>1, <2>2, <2>4, <2>5, <2>6 DEF BrokeOff
  <2> QED BY <2>2, <2>4, <2>7
<1>23. b <= cut \/ cut < b
  <2> HIDE DEF b
  <2> QED BY <1>13
<1> QED BY <1>21, <1>22, <1>23

\* What a client uploads: a read after the frames.
LEMMA UploadPlain ==
    ASSUME NEW n \in 0..NumFirstPaddings, NEW messages \in [1..n -> Messages],
           NEW plain \in Nat, NEW cut \in Nat, numPadding \in 0..NumFirstPaddings,
           Stream(n, messages, plain, cut), UploadExact(n, messages, plain, cut),
           ended = "no", CopyPlain
    PROVE  UploadExact(n, messages, plain, cut)'
<1> SUFFICES ASSUME ended' # "unwritten", ~hollow
             PROVE  /\ counted' = Len(dst') /\ (ended' = "eof" => src' = <<>>)
                    /\ Copied(n, messages, plain, cut)'
  BY DEF UploadExact, CopyPlain
<1> DEFINE w == Wire(messages, plain)
           a == Start(messages, numPadding)
           q == Payload(messages)[numPadding]
<1>1. /\ counted = Len(dst)
      /\ Copied(n, messages, plain, cut) \/ BrokeOff
      /\ ~(numPadding < NumFirstPaddings) /\ src # <<>>
      /\ UNCHANGED <<numPadding, sent, whole>>
  BY DEF UploadExact, CopyPlain, Framing
<1>2. Copied(n, messages, plain, cut)
  BY <1>1 DEF BrokeOff
<1>3. n \in Nat /\ numPadding = n /\ numPadding \in 0..n
  BY <1>1, <1>2, PaddingAssumption DEF Copied
<1>4. PICK p \in 0..plain :
          /\ p > 0 => numPadding = n
          /\ a + p <= cut
          /\ src = SubSeq(w, a + p + 1, cut)
          /\ dst = Digits(0, q + p)
  BY <1>2 DEF Copied
<1>5. a \in Nat /\ q \in Nat
  BY <1>3, StartsAre, PayloadIs, ZenonT(60)
<1>6. /\ w \in Seq(Nat) /\ Len(w) = a + plain
      /\ \A i \in 1..plain : w[a + i] = (q + i) % Byte
  BY <1>3, WireIs
<1>7. cut <= Len(w)
  BY DEF Stream
<1>8. PICK nr \in 1..Len(src) :
         src' = After(src, nr) /\ Write(Upto(src, nr), nr, "no")
  BY DEF CopyPlain
<1>9. dst' = dst \o Upto(src, nr) /\ counted' = counted + nr /\ ended' = "no"
  BY <1>8 DEF Write
<1> HIDE DEF w, a, q
<1>10. a + p \in Nat /\ cut \in 0..Len(w) /\ a + p <= cut
  BY <1>4, <1>5, <1>6, <1>7
<1>11. /\ src \in Seq(Nat) /\ Len(src) = cut - (a + p)
       /\ \A i \in 1..(cut - (a + p)) : src[i] = w[a + p + i]
  <2>1. /\ SubSeq(w, (a + p) + 1, cut) \in Seq(Nat)
        /\ Len(SubSeq(w, (a + p) + 1, cut)) = cut - (a + p)
        /\ \A i \in 1..(cut - (a + p)) : SubSeq(w, (a + p) + 1, cut)[i] = w[(a + p) + i]
    BY <1>6, <1>10, PartIs
  <2> QED BY <1>4, <2>1
<1>12. nr \in Nat /\ nr \in 0..Len(src) /\ nr <= cut - (a + p)
  BY <1>8, <1>10, <1>11
<1>13. q + p \in Nat /\ p + nr \in 0..plain
  BY <1>5, <1>6, <1>10, <1>12
<1>14. Upto(src, nr) = Digits(q + p, nr)
  <2>1. ASSUME NEW i \in 1..nr PROVE src[i] = (q + p + i) % Byte
    <3>1. /\ i \in 1..(cut - (a + p)) /\ p + i \in 1..plain
          /\ a + p + i = a + (p + i) /\ q + p + i = q + (p + i)
      BY <1>5, <1>10, <1>12, <1>13
    <3> QED BY <1>6, <1>11, <3>1
  <2> QED BY <1>11, <1>12, <1>13, <2>1, BytesAre
<1>15. dst' = Digits(0, q + (p + nr))
  <2>1. Digits(0, q + p) \o Digits(0 + (q + p), nr) = Digits(0, (q + p) + nr)
    BY <1>12, <1>13, DigitsJoin, 0 \in Nat
  <2>2. 0 + (q + p) = q + p /\ (q + p) + nr = q + (p + nr)
    BY <1>5, <1>12, <1>13
  <2> QED BY <1>4, <1>9, <1>14, <2>1, <2>2
<1>16. counted' = Len(dst')
  <2>1. Len(dst) = q + p /\ q + (p + nr) \in Nat
    BY <1>4, <1>5, <1>13, DigitsAre, 0 \in Nat
  <2>2. Len(dst') = q + (p + nr)
    BY <1>15, <2>1, DigitsAre, 0 \in Nat
  <2>3. counted = q + p /\ counted' = counted + nr
    BY <1>1, <1>9, <2>1
  <2>4. (q + p) + nr = q + (p + nr)
    BY <1>5, <1>12
  <2> QED BY <2>2, <2>3, <2>4, Zenon
<1>17. src' = SubSeq(w, a + (p + nr) + 1, cut)
  <2>1. (a + p) + nr <= cut
    BY <1>5, <1>10, <1>12
  <2>2. After(SubSeq(w, (a + p) + 1, cut), nr) = SubSeq(w, (a + p) + nr + 1, cut)
    BY <1>6, <1>10, <1>12, <2>1, PartAfter
  <2>3. (a + p) + nr + 1 = a + (p + nr) + 1
    BY <1>5, <1>12
  <2> QED BY <1>4, <1>8, <2>2, <2>3
<1>18. Copied(n, messages, plain, cut)'
  <2>1. a + (p + nr) <= cut
    BY <1>5, <1>10, <1>12
  <2>2. numPadding' = numPadding /\ numPadding <= n
    BY <1>1, <1>3
  <2> QED BY <1>3, <1>13, <1>15, <1>17, <2>1, <2>2 DEF Copied, w, a, q
<1> QED BY <1>9, <1>16, <1>18

-------------------------------------------------------------------------------
\* Before anything is read.
LEMMA UploadBegins == ASSUME PaddingInit, upload PROVE Uploaded
<1>1. /\ FromClient
      /\ dst = <<>> /\ numPadding = 0 /\ counted = 0 /\ ended = "no"
  BY DEF PaddingInit
<1>2. PICK n \in 0..NumFirstPaddings :
      \E messages \in [1..n -> Messages],
          plain \in 0..(IF n = NumFirstPaddings THEN MaxPlain ELSE 0) :
        LET framed == Payload(messages)[n]
            wire == Frames(messages)[n] \o Digits(framed, plain)
        IN  /\ sent = Digits(0, framed + plain)
            /\ \E cut \in 0..Len(wire) : src = SubSeq(wire, 1, cut) /\ whole = (cut = Len(wire))
            /\ hollow = \E i \in 1..n : messages[i].size = 0 /\ messages[i].padding > 0
  BY <1>1 DEF FromClient
<1>3. PICK messages \in [1..n -> Messages],
    plain \in 0..(IF n = NumFirstPaddings THEN MaxPlain ELSE 0) :
        LET framed == Payload(messages)[n]
            wire == Frames(messages)[n] \o Digits(framed, plain)
        IN  /\ sent = Digits(0, framed + plain)
            /\ \E cut \in 0..Len(wire) : src = SubSeq(wire, 1, cut) /\ whole = (cut = Len(wire))
            /\ hollow = \E i \in 1..n : messages[i].size = 0 /\ messages[i].padding > 0
  BY <1>2
<1>4. n \in Nat /\ plain \in Nat /\ (plain > 0 => n = NumFirstPaddings)
  BY PaddingAssumption
<1>5. Len(messages) = n
  BY <1>4, MessageIs
<1> DEFINE w == Wire(messages, plain)
<1>6. w = Frames(messages)[n] \o Digits(Payload(messages)[n], plain)
  BY <1>5 DEF Wire
<1>7. w \in Seq(Nat)
  BY <1>4, WireIs
<1>8. PICK cut \in 0..Len(w) : src = SubSeq(w, 1, cut) /\ whole = (cut = Len(w))
  BY <1>3, <1>6
<1>9. cut \in Nat /\ cut <= Len(w)
  BY <1>7
<1>10. Stream(n, messages, plain, cut)
  BY <1>3, <1>4, <1>8, <1>9 DEF Stream
<1>11. Start(messages, 0) = 0 /\ Payload(messages)[0] = 0
  BY <1>4, StartsAre, PayloadIs
<1>12. Copied(n, messages, plain, cut)
  <2>1. 0 \in 0..plain /\ ~(0 > 0) /\ 0 <= n /\ 0 + 0 <= cut /\ 0 + 0 + 1 = 1 /\ 0 + 0 = 0
    BY <1>4, <1>9
  <2>2. Digits(0, 0) = <<>>
    <3>1. Digits(0, 0) \in Seq(Nat) /\ Len(Digits(0, 0)) = 0
      BY DigitsAre, 0 \in Nat
    <3> QED BY <3>1
  <2> QED BY <1>1, <1>8, <1>11, <2>1, <2>2 DEF Copied
<1>13. UploadExact(n, messages, plain, cut)
  <2>1. Len(<<>>) = 0
    OBVIOUS
  <2> QED BY <1>1, <1>12, <2>1 DEF UploadExact
<1> QED BY <1>4, <1>9, <1>10, <1>13 DEF Uploaded

-------------------------------------------------------------------------------
\* More bytes at the end change nothing before it.
LEMMA AfterJoin ==
    ASSUME NEW s \in Seq(Nat), NEW t \in Seq(Nat), NEW m \in 0..Len(s)
    PROVE  After(s \o t, m) = After(s, m) \o t
<1> DEFINE st == s \o t  x == After(st, m)  r == After(s, m)  y == r \o t
<1>1. Len(s) \in Nat /\ Len(t) \in Nat /\ m \in Nat
  OBVIOUS
<1>2. /\ st \in Seq(Nat) /\ Len(st) = Len(s) + Len(t)
      /\ \A i \in 1..Len(s) : st[i] = s[i]
      /\ \A i \in 1..Len(t) : st[Len(s) + i] = t[i]
  BY Joined
<1> HIDE DEF st
<1>3. /\ x \in Seq(Nat) /\ Len(x) = (IF m < Len(st) THEN Len(st) - m ELSE 0)
      /\ \A i \in 1..Len(x) : x[i] = st[m + i]
  BY <1>1, <1>2, Cuts
<1>4. /\ r \in Seq(Nat) /\ Len(r) = (IF m < Len(s) THEN Len(s) - m ELSE 0)
      /\ \A i \in 1..Len(r) : r[i] = s[m + i]
  BY <1>1, Cuts
<1> HIDE DEF x, r
<1>5. /\ y \in Seq(Nat) /\ Len(y) = Len(r) + Len(t)
      /\ \A i \in 1..Len(r) : y[i] = r[i]
      /\ \A i \in 1..Len(t) : y[Len(r) + i] = t[i]
  BY <1>4, Joined
<1> HIDE DEF y
<1>6. Len(r) = Len(s) - m
  BY <1>1, <1>4
<1>7. Len(x) = Len(y)
  BY <1>1, <1>2, <1>3, <1>5, <1>6
<1>8. ASSUME NEW i \in 1..Len(x) PROVE x[i] = y[i]
  <2>1. i \in Nat /\ i <= Len(r) + Len(t)
    BY <1>1, <1>3, <1>5, <1>7, SMTT(30)
  <2>2. CASE i <= Len(r)
    <3>1. i \in 1..Len(r) /\ m + i \in 1..Len(s)
      BY <1>1, <1>6, <2>2
    <3> QED BY <1>2, <1>3, <1>4, <1>5, <3>1
  <2>3. CASE ~(i <= Len(r))
    <3> DEFINE j == i - Len(r)
    <3>1. j \in 1..Len(t) /\ Len(r) + j = i /\ Len(s) + j = m + i
      BY <1>1, <1>6, <2>1, <2>3
    <3> HIDE DEF j
    <3>2. y[i] = t[j]
      BY <1>5, <3>1
    <3>3. x[i] = st[m + i] /\ st[m + i] = t[j]
      BY <1>2, <1>3, <3>1
    <3> QED BY <3>2, <3>3
  <2> QED BY <2>2, <2>3
<1>9. x = y
  BY <1>3, <1>5, <1>7, <1>8, SeqEqual
<1> QED BY <1>9 DEF x, y, r, st

\* The same of what comes first.
LEMMA UptoJoin ==
    ASSUME NEW s \in Seq(Nat), NEW t \in Seq(Nat), NEW m \in 0..Len(s)
    PROVE  Upto(s \o t, m) = Upto(s, m)
<1> DEFINE st == s \o t  x == Upto(st, m)  y == Upto(s, m)
<1>1. Len(s) \in Nat /\ Len(t) \in Nat /\ m \in Nat
  OBVIOUS
<1>2. /\ st \in Seq(Nat) /\ Len(st) = Len(s) + Len(t)
      /\ \A i \in 1..Len(s) : st[i] = s[i]
  BY Joined
<1> HIDE DEF st
<1>3. /\ x \in Seq(Nat) /\ Len(x) = (IF m < Len(st) THEN m ELSE Len(st))
      /\ \A i \in 1..Len(x) : x[i] = st[i]
  BY <1>1, <1>2, Cuts
<1>4. /\ y \in Seq(Nat) /\ Len(y) = (IF m < Len(s) THEN m ELSE Len(s))
      /\ \A i \in 1..Len(y) : y[i] = s[i]
  BY <1>1, Cuts
<1> HIDE DEF x, y
<1>5. Len(x) = m /\ Len(y) = m
  BY <1>1, <1>2, <1>3, <1>4
<1>6. ASSUME NEW i \in 1..Len(x) PROVE x[i] = y[i]
  <2>1. i \in 1..Len(s) /\ i \in 1..Len(y)
    BY <1>1, <1>5
  <2> QED BY <1>2, <1>3, <1>4, <2>1
<1>7. x = y
  BY <1>3, <1>4, <1>5, <1>6, SeqEqual
<1> QED BY <1>7 DEF x, y, st

\* A frame that is whole stays what it is.
LEMMA NextFrameStays ==
    ASSUME NEW s \in Seq(Nat), NEW t \in Seq(Nat), NEW last \in Read,
           last.at + 3 <= NextFrame(s, last).at, NextFrame(s, last).at <= Len(s)
    PROVE  NextFrame(s \o t, last) = NextFrame(s, last)
<1> DEFINE rest == After(s, last.at)
           size == rest[1] * Byte + rest[2]
           more == After(s \o t, last.at)
<1>1. last.at \in Nat /\ Len(s) \in Nat
  BY DEF Read
<1>2. NextFrame(s, last) \in Read
  BY NextFrameTyped
<1>3. NextFrame(s, last).at \in Nat
  BY <1>2 DEF Read
<1>4. last.at \in 0..Len(s)
  BY <1>1, <1>3
<1>5. more = rest \o t
  BY <1>4, AfterJoin
<1>6. rest \in Seq(Nat) /\ Len(rest) = Len(s) - last.at
  BY <1>1, <1>4, Cuts
<1>7. ~(Len(rest) < 3)
  <2>1. Len(rest) < 3 => NextFrame(s, last) = last
    BY DEF NextFrame
  <2>2. NextFrame(s, last) # last
    BY <1>1, <1>3
  <2> QED BY <2>1, <2>2
<1>8. NextFrame(s, last) = [at |-> last.at + 3 + size + rest[3],
                            payload |-> last.payload \o Upto(After(rest, 3), size)]
  BY <1>7 DEF NextFrame
<1> HIDE DEF rest, more
<1>9. rest[1] \in Nat /\ rest[2] \in Nat /\ rest[3] \in Nat /\ 3 \in 0..Len(rest)
  BY <1>6, <1>7, SMTT(30)
<1>10. size \in Nat
  BY <1>9, TwoDigits
<1>11. /\ rest \o t \in Seq(Nat) /\ Len(rest \o t) = Len(rest) + Len(t)
       /\ \A i \in 1..Len(rest) : (rest \o t)[i] = rest[i]
  BY <1>6, Joined
<1>12. more[1] = rest[1] /\ more[2] = rest[2] /\ more[3] = rest[3] /\ ~(Len(more) < 3)
  <2>1. 1 \in 1..Len(rest) /\ 2 \in 1..Len(rest) /\ 3 \in 1..Len(rest) /\ Len(t) \in Nat
    BY <1>6, <1>7
  <2>2. ~(Len(rest) + Len(t) < 3)
    BY <1>6, <1>7, <2>1
  <2> QED BY <1>5, <1>11, <2>1, <2>2
<1>13. After(more, 3) = After(rest, 3) \o t
  BY <1>5, <1>6, <1>9, AfterJoin
<1>14. After(rest, 3) \in Seq(Nat) /\ Len(After(rest, 3)) = Len(rest) - 3
  <2>1. /\ After(rest, 3) \in Seq(Nat)
        /\ Len(After(rest, 3)) = (IF 3 < Len(rest) THEN Len(rest) - 3 ELSE 0)
    BY <1>6, Cuts, 3 \in Nat
  <2>2. Len(rest) \in Nat
    BY <1>6
  <2> QED BY <1>7, <2>1, <2>2
<1>15. size \in 0..Len(After(rest, 3))
  <2>1. last.at + 3 + size + rest[3] <= Len(s)
    BY <1>8
  <2> HIDE DEF size
  <2>2. Len(rest) \in Nat /\ last.at + Len(rest) = Len(s)
    BY <1>1, <1>4, <1>6
  <2>3. 3 + size + rest[3] <= Len(rest)
    <3>1. \A a, b, c, d \in Nat : a + 3 + b + c <= a + d => 3 + b + c <= d
      OBVIOUS
    <3>2. last.at + 3 + size + rest[3] <= last.at + Len(rest)
      BY <2>1, <2>2, Zenon
    <3> QED BY <1>1, <1>9, <1>10, <2>2, <3>1, <3>2
  <2>4. size <= Len(rest) - 3
    BY <1>9, <1>10, <2>2, <2>3
  <2> QED BY <1>10, <1>14, <2>2, <2>4
<1>16. Upto(After(more, 3), size) = Upto(After(rest, 3), size)
  <2> HIDE DEF size
  <2> QED BY <1>13, <1>14, <1>15, UptoJoin
<1>17. NextFrame(s \o t, last) = [at |-> last.at + 3 + (more[1] * Byte + more[2]) + more[3],
              payload |-> last.payload \o Upto(After(more, 3), more[1] * Byte + more[2])]
  BY <1>12 DEF NextFrame, more
<1>18. more[1] * Byte + more[2] = size
  BY <1>12
<1> QED BY <1>8, <1>12, <1>16, <1>17, <1>18

\* A client reads the frames it has whole the same, whatever comes after them.
LEMMA TakenStays ==
    ASSUME NEW s \in Seq(Nat), NEW t \in Seq(Nat), NEW m \in 0..NumFirstPaddings,
           \A k \in 1..m : Taken(s)[k - 1].at + 3 <= Taken(s)[k].at /\ Taken(s)[k].at <= Len(s)
    PROVE  \A k \in 0..m : Taken(s \o t)[k] = Taken(s)[k]
<1> DEFINE P == {k \in 0..m : Taken(s \o t)[k] = Taken(s)[k]}
<1>1. s \o t \in Seq(Nat) /\ m \in Nat /\ NumFirstPaddings \in Nat
  BY Joined, PaddingAssumption
<1>2. 0 \in P
  <2>1. Taken(s)[0] = [at |-> 0, payload |-> <<>>]
    BY TakenIs
  <2>2. Taken(s \o t)[0] = [at |-> 0, payload |-> <<>>]
    BY <1>1, TakenIs
  <2>3. 0 \in 0..m
    BY <1>1
  <2> QED BY <2>1, <2>2, <2>3
<1>3. ASSUME NEW k \in 1..m, k - 1 \in P PROVE k \in P
  <2>1. k \in 1..NumFirstPaddings /\ k - 1 \in 0..NumFirstPaddings /\ k \in 0..m
    BY <1>1
  <2>2. Taken(s)[k - 1] \in Read /\ Taken(s)[k] = NextFrame(s, Taken(s)[k - 1])
    BY <2>1, TakenIs
  <2>3. Taken(s \o t)[k] = NextFrame(s \o t, Taken(s \o t)[k - 1])
    BY <1>1, <2>1, TakenIs
  <2>4. Taken(s \o t)[k - 1] = Taken(s)[k - 1]
    BY <1>3
  <2>5. NextFrame(s \o t, Taken(s)[k - 1]) = NextFrame(s, Taken(s)[k - 1])
    BY <2>2, NextFrameStays
  <2>6. Taken(s \o t)[k] = Taken(s)[k]
    BY <2>2, <2>3, <2>4, <2>5
  <2> QED BY <2>1, <2>6
<1>4. 0..m \subseteq P
  <2> HIDE DEF P
  <2> QED BY <1>1, <1>2, <1>3, UpTo
<1> QED BY <1>4

\* A frame at the end is the next one taken off.
LEMMA FrameTaken ==
    ASSUME NEW s \in Seq(Nat), NEW payload \in Seq(Nat), NEW padding \in Nat,
           NEW last \in Read, last.at = Len(s)
    PROVE  NextFrame(s \o Frame(payload, padding), last)
               = [at |-> Len(s) + (3 + Len(payload) + padding),
                   payload |-> last.payload \o payload]
<1> DEFINE f == Frame(payload, padding)  body == After(f, 3)  size == f[1] * Byte + f[2]
<1>1. Len(payload) \in Nat /\ Len(s) \in Nat /\ Len(s) \in 0..Len(s)
  OBVIOUS
<1>2. /\ f \in Seq(Nat) /\ Len(f) = 3 + Len(payload) + padding
      /\ size = Len(payload) /\ f[3] = padding
      /\ \A i \in 1..Len(payload) : f[3 + i] = payload[i]
  BY FrameIs
<1> HIDE DEF f
<1>3. After(s \o f, last.at) = f
  <2>1. After(s \o f, Len(s)) = After(s, Len(s)) \o f
    BY <1>1, <1>2, AfterJoin
  <2>2. After(s, Len(s)) = <<>>
    BY <1>1, NothingAfter
  <2>3. <<>> \o f = f
    BY <1>2, ConcatEmptySeq
  <2> QED BY <2>1, <2>2, <2>3
<1>4. ~(Len(f) < 3)
  BY <1>1, <1>2
<1>5. /\ body \in Seq(Nat) /\ Len(body) = Len(payload) + padding
      /\ \A i \in 1..Len(body) : body[i] = f[3 + i]
  <2>1. /\ body \in Seq(Nat) /\ Len(body) = (IF 3 < Len(f) THEN Len(f) - 3 ELSE 0)
        /\ \A i \in 1..Len(body) : body[i] = f[3 + i]
    BY <1>2, Cuts, 3 \in Nat, ZenonT(60)
  <2> QED BY <1>1, <1>2, <2>1, SMTT(30)
<1> HIDE DEF body
<1>6. Upto(body, Len(payload)) = payload
  <2> DEFINE u == Upto(body, Len(payload))
  <2>1. /\ u \in Seq(Nat)
        /\ Len(u) = (IF Len(payload) < Len(body) THEN Len(payload) ELSE Len(body))
        /\ \A i \in 1..Len(u) : u[i] = body[i]
    BY <1>1, <1>5, Cuts
  <2> HIDE DEF u
  <2>2. Len(u) = Len(payload)
    BY <1>1, <1>5, <2>1
  <2>3. ASSUME NEW i \in 1..Len(u) PROVE u[i] = payload[i]
    <3>1. i \in 1..Len(body) /\ i \in 1..Len(payload)
      BY <1>1, <1>5, <2>2
    <3> QED BY <1>2, <1>5, <2>1, <3>1
  <2>4. u = payload
    BY <2>1, <2>2, <2>3, SeqEqual
  <2> QED BY <2>4 DEF u
<1>7. NextFrame(s \o f, last) = [at |-> last.at + 3 + size + f[3],
                                 payload |-> last.payload \o Upto(body, size)]
  BY <1>3, <1>4 DEF NextFrame, body
<1> HIDE DEF size
<1>8. last.at + 3 + size + f[3] = Len(s) + (3 + Len(payload) + padding)
  BY <1>1, <1>2
<1> QED BY <1>2, <1>6, <1>7, <1>8 DEF f

\* Where there is no more than a header's beginning, nothing is taken off.
LEMMA NothingTaken ==
    ASSUME NEW s \in Seq(Nat), NEW m \in 0..NumFirstPaddings, Taken(s)[m].at = Len(s)
    PROVE  Taken(s)[NumFirstPaddings] = Taken(s)[m]
<1> DEFINE P == {k \in 0..NumFirstPaddings : m <= k => Taken(s)[k] = Taken(s)[m]}
<1>1. m \in Nat /\ NumFirstPaddings \in Nat /\ Len(s) \in Nat
  BY PaddingAssumption
<1>2. 0 \in P
  <2>1. m <= 0 => m = 0
    BY <1>1
  <2> QED BY <1>1, <2>1
<1>3. ASSUME NEW k \in 1..NumFirstPaddings, k - 1 \in P PROVE k \in P
  <2>1. k \in 0..NumFirstPaddings
    OBVIOUS
  <2>2. CASE k <= m
    <3>1. m <= k => k = m
      BY <1>1, <2>2
    <3> QED BY <2>1, <3>1
  <2>3. CASE ~(k <= m)
    <3>1. m <= k - 1
      BY <1>1, <2>3
    <3>2. Taken(s)[k - 1] = Taken(s)[m]
      BY <1>3, <3>1
    <3>3. Taken(s)[k] = NextFrame(s, Taken(s)[k - 1])
      BY TakenIs
    <3>4. After(s, Len(s)) = <<>> /\ Len(<<>>) < 3
      BY <1>1, NothingAfter
    <3>5. NextFrame(s, Taken(s)[m]) = Taken(s)[m]
      BY <3>4 DEF NextFrame
    <3> QED BY <2>1, <3>2, <3>3, <3>5
  <2> QED BY <2>2, <2>3
<1>4. 0..NumFirstPaddings \subseteq P
  <2> HIDE DEF P
  <2> QED BY <1>1, <1>2, <1>3, UpTo
<1>5. NumFirstPaddings \in 0..NumFirstPaddings /\ m <= NumFirstPaddings
  BY <1>1
<1> QED BY <1>4, <1>5

-------------------------------------------------------------------------------
\* What the client of a download has, in frames and after them.
Unbroken(s, m) ==
    \A k \in 1..m : Taken(s)[k - 1].at + 3 <= Taken(s)[k].at /\ Taken(s)[k].at <= Len(s)

\* The frames end where the bytes do, or before.
LEMMA EndsWithin ==
    ASSUME NEW s \in Seq(Nat), NEW m \in 0..NumFirstPaddings, Unbroken(s, m)
    PROVE  Taken(s)[m] \in Read /\ Taken(s)[m].at \in 0..Len(s)
<1>1. m \in Nat /\ NumFirstPaddings \in Nat /\ Len(s) \in Nat
  BY PaddingAssumption
<1>2. Taken(s)[m] \in Read
  BY TakenIs
<1>3. Taken(s)[m].at \in Nat
  BY <1>2 DEF Read
<1>4. CASE m = 0
  <2>1. Taken(s)[0].at = 0
    BY TakenIs
  <2> QED BY <1>1, <1>2, <1>4, <2>1
<1>5. CASE m # 0
  <2>1. m \in 1..m
    BY <1>1, <1>5
  <2>2. Taken(s)[m].at <= Len(s)
    BY <2>1 DEF Unbroken
  <2> QED BY <1>1, <1>2, <1>3, <2>2
<1> QED BY <1>4, <1>5

\* The bytes that were read come next, and are counted.
LEMMA DownloadRead ==
    ASSUME Len(sent) \in Nat, counted \in 0..Len(sent),
           src = Digits(counted, Len(sent) - counted), NEW nr \in 1..Len(src)
    PROVE  /\ counted \in Nat /\ nr \in Nat /\ counted + nr \in 0..Len(sent)
           /\ Upto(src, nr) = Digits(counted, nr)
           /\ After(src, nr) = Digits(counted + nr, Len(sent) - (counted + nr))
           /\ Digits(counted, nr) \in Seq(Nat) /\ Len(Digits(counted, nr)) = nr
           /\ Digits(0, counted) \o Digits(counted, nr) = Digits(0, counted + nr)
<1> DEFINE n == Len(sent) - counted
<1>1. counted \in Nat /\ n \in Nat
  OBVIOUS
<1>2. Len(src) = n
  BY <1>1, DigitsAre
<1>3. nr \in 0..n /\ nr \in Nat /\ counted + nr \in 0..Len(sent)
      /\ n - nr = Len(sent) - (counted + nr)
  BY <1>1, <1>2
<1>4. src = Digits(counted, n)
  OBVIOUS
<1> HIDE DEF n
<1>5. Upto(src, nr) = Digits(counted, nr) /\ After(src, nr) = Digits(counted + nr, n - nr)
  BY <1>1, <1>3, <1>4, DigitsCut
<1>6. Digits(counted, nr) \in Seq(Nat) /\ Len(Digits(counted, nr)) = nr
  BY <1>1, <1>3, DigitsAre
<1>7. Digits(0, counted) \o Digits(counted, nr) = Digits(0, counted + nr)
  <2>1. Digits(0, counted) \o Digits(0 + counted, nr) = Digits(0, counted + nr)
    BY <1>1, <1>3, DigitsJoin, 0 \in Nat
  <2>2. 0 + counted = counted
    BY <1>1
  <2> QED BY <2>1, <2>2
<1> QED BY <1>1, <1>3, <1>5, <1>6, <1>7

\* What a client downloads: a frame.
LEMMA DownloadAdd ==
    ASSUME numPadding \in 0..NumFirstPaddings, Downloaded, ended = "no", AddPadding
    PROVE  Downloaded'
<1>1. /\ Len(sent) \in Nat /\ sent = Digits(0, Len(sent)) /\ ~hollow
      /\ counted \in 0..Len(sent) /\ src = Digits(counted, Len(sent) - counted)
      /\ dst \in Seq(Nat)
      /\ Unbroken(dst, numPadding)
      /\ Framing => Taken(dst)[numPadding].at = Len(dst)
      /\ Taken(dst)[numPadding].payload \o After(dst, Taken(dst)[numPadding].at)
            = Digits(0, counted)
  BY DEF Downloaded, Unbroken
<1>2. Framing /\ numPadding' = numPadding + 1 /\ sent' = sent /\ hollow' = hollow
  BY DEF AddPadding
<1>3. PICK padding \in PaddingSizes, nr \in 1..Len(src) :
          src' = After(src, nr) /\ Write(Frame(Upto(src, nr), padding), nr, "no")
  BY DEF AddPadding
<1> SUFFICES ASSUME ended' # "unwritten"
             PROVE  /\ counted' \in 0..Len(sent)
                    /\ src' = Digits(counted', Len(sent) - counted')
                    /\ ended' # "eof"
                    /\ dst' \in Seq(Nat)
                    /\ Unbroken(dst', numPadding')
                    /\ Taken(dst')[numPadding'].at = Len(dst')
                    /\ Taken(dst')[numPadding'].payload
                          \o After(dst', Taken(dst')[numPadding'].at) = Digits(0, counted')
  BY <1>1, <1>2 DEF Downloaded, Unbroken
<1> DEFINE body == Digits(counted, nr)
           f == Frame(body, padding)
           m == numPadding
           last == Taken(dst)[m]
<1>4. /\ counted \in Nat /\ nr \in Nat /\ counted + nr \in 0..Len(sent)
      /\ Upto(src, nr) = body /\ After(src, nr) = Digits(counted + nr, Len(sent) - (counted + nr))
      /\ body \in Seq(Nat) /\ Len(body) = nr
      /\ Digits(0, counted) \o body = Digits(0, counted + nr)
  BY <1>1, DownloadRead
<1>5. dst' = dst \o f /\ counted' = counted + nr /\ ended' = "no"
  BY <1>3, <1>4 DEF Write
<1>6. src' = Digits(counted', Len(sent) - counted')
  BY <1>3, <1>4, <1>5
<1>7. padding \in Nat
  BY PaddingAssumption
<1> HIDE DEF body
<1>8. f \in Seq(Nat) /\ Len(f) = 3 + nr + padding
  <2>1. Frame(body, padding) \in Seq(Nat) /\ Len(Frame(body, padding)) = 3 + Len(body) + padding
    BY <1>4, <1>7, FrameIs
  <2> QED BY <1>4, <2>1
<1>9. /\ m \in 0..NumFirstPaddings /\ m + 1 \in 1..NumFirstPaddings /\ (m + 1) - 1 = m
      /\ m \in Nat /\ NumFirstPaddings \in Nat
  BY <1>2, PaddingAssumption DEF Framing
<1>10. last \in Read /\ last.at = Len(dst) /\ last.payload \in Seq(Nat)
  <2>1. last \in Read
    BY <1>1, <1>9, TakenIs
  <2> QED BY <1>1, <1>2, <2>1 DEF Read
<1> HIDE DEF f, last
<1>11. dst' \in Seq(Nat) /\ Len(dst') = Len(dst) + (3 + nr + padding) /\ Len(dst) \in Nat
  <2>1. dst \o f \in Seq(Nat) /\ Len(dst \o f) = Len(dst) + Len(f)
    BY <1>1, <1>8, Joined
  <2> QED BY <1>1, <1>5, <1>8, <2>1
<1>12. \A k \in 0..m : Taken(dst')[k] = Taken(dst)[k]
  <2>1. \A k \in 0..m : Taken(dst \o f)[k] = Taken(dst)[k]
    BY <1>1, <1>8, <1>9, TakenStays DEF Unbroken
  <2> QED BY <1>5, <2>1
<1>13. Taken(dst')[m] = last
  BY <1>9, <1>12 DEF last
<1>14. Taken(dst')[m + 1] = [at |-> Len(dst'), payload |-> last.payload \o body]
  <2>1. Taken(dst')[m + 1] = NextFrame(dst', last)
    BY <1>9, <1>11, <1>13, TakenIs
  <2>2. NextFrame(dst \o Frame(body, padding), last)
            = [at |-> Len(dst) + (3 + Len(body) + padding), payload |-> last.payload \o body]
    BY <1>1, <1>4, <1>7, <1>10, FrameTaken, ZenonT(60)
  <2> QED BY <1>4, <1>5, <1>11, <2>1, <2>2 DEF f
<1>15. Unbroken(dst', m + 1)
  <2> SUFFICES ASSUME NEW k \in 1..(m + 1)
               PROVE  /\ Taken(dst')[k - 1].at + 3 <= Taken(dst')[k].at
                      /\ Taken(dst')[k].at <= Len(dst')
    BY DEF Unbroken
  <2>1. CASE k = m + 1
    <3>1. Taken(dst')[k].at = Len(dst') /\ Taken(dst')[k - 1].at = Len(dst)
      BY <1>9, <1>10, <1>13, <1>14, <2>1
    <3> QED BY <1>4, <1>7, <1>11, <3>1
  <2>2. CASE k # m + 1
    <3>1. k \in 1..m /\ k \in 0..m /\ k - 1 \in 0..m
      BY <1>9, <2>2
    <3>2. Taken(dst)[k - 1].at + 3 <= Taken(dst)[k].at /\ Taken(dst)[k].at <= Len(dst)
      BY <1>1, <3>1 DEF Unbroken
    <3>3. Taken(dst')[k - 1] = Taken(dst)[k - 1] /\ Taken(dst')[k] = Taken(dst)[k]
      BY <1>12, <3>1
    <3>4. Taken(dst)[k].at \in Nat
      <4>1. k \in 0..NumFirstPaddings
        BY <1>9, <3>1
      <4>2. Taken(dst)[k] \in Read
        BY <1>1, <4>1, TakenIs
      <4> QED BY <4>2 DEF Read
    <3>5. Taken(dst)[k].at <= Len(dst')
      <4>1. Len(dst) \in Nat /\ Len(dst') \in Nat /\ Len(dst) <= Len(dst')
        BY <1>4, <1>7, <1>11
      <4> QED BY <3>2, <3>4, <4>1
    <3> QED BY <3>2, <3>3, <3>5
  <2> QED BY <2>1, <2>2
<1>16. last.payload = Digits(0, counted)
  <2>1. After(dst, Len(dst)) = <<>>
    BY <1>1, <1>11, NothingAfter
  <2>2. last.payload \o <<>> = last.payload
    BY <1>10, ConcatEmptySeq
  <2>3. last.payload \o After(dst, last.at) = Digits(0, counted)
    BY <1>1 DEF last
  <2> QED BY <1>10, <2>1, <2>2, <2>3
<1>17. Taken(dst')[m + 1].payload \o After(dst', Taken(dst')[m + 1].at) = Digits(0, counted')
  <2>1. Taken(dst')[m + 1].payload = Digits(0, counted') /\ Taken(dst')[m + 1].at = Len(dst')
    BY <1>4, <1>5, <1>14, <1>16
  <2>2. After(dst', Len(dst')) = <<>>
    <3>1. Len(dst') \in Nat /\ Len(dst') <= Len(dst')
      BY <1>11
    <3> QED BY <1>11, <3>1, NothingAfter
  <2>3. Digits(0, counted') \in Seq(Nat)
    BY <1>4, <1>5, DigitsAre, 0 \in Nat, counted + nr \in Nat
  <2>4. Digits(0, counted') \o <<>> = Digits(0, counted')
    BY <2>3, ConcatEmptySeq
  <2> QED BY <2>1, <2>2, <2>4
<1>18. numPadding' = m + 1
  BY <1>2
<1>19. counted' \in 0..Len(sent) /\ ended' # "eof"
  BY <1>4, <1>5
<1>20. Taken(dst')[m + 1].at = Len(dst')
  BY <1>14
<1> HIDE DEF m
<1> QED BY <1>6, <1>11, <1>15, <1>17, <1>18, <1>19, <1>20

\* What a client downloads: bytes after the frames.
LEMMA DownloadPlain ==
    ASSUME numPadding \in 0..NumFirstPaddings, Downloaded, ended = "no", CopyPlain
    PROVE  Downloaded'
<1>1. /\ Len(sent) \in Nat /\ sent = Digits(0, Len(sent)) /\ ~hollow
      /\ counted \in 0..Len(sent) /\ src = Digits(counted, Len(sent) - counted)
      /\ dst \in Seq(Nat)
      /\ Unbroken(dst, numPadding)
      /\ Taken(dst)[numPadding].payload \o After(dst, Taken(dst)[numPadding].at)
            = Digits(0, counted)
  BY DEF Downloaded, Unbroken
<1>2. ~Framing /\ numPadding' = numPadding /\ sent' = sent /\ hollow' = hollow
  BY DEF CopyPlain
<1>3. PICK nr \in 1..Len(src) : src' = After(src, nr) /\ Write(Upto(src, nr), nr, "no")
  BY DEF CopyPlain
<1> SUFFICES ASSUME ended' # "unwritten"
             PROVE  /\ counted' \in 0..Len(sent)
                    /\ src' = Digits(counted', Len(sent) - counted')
                    /\ ended' # "eof"
                    /\ dst' \in Seq(Nat)
                    /\ Unbroken(dst', numPadding)
                    /\ Taken(dst')[numPadding].payload
                          \o After(dst', Taken(dst')[numPadding].at) = Digits(0, counted')
  BY <1>1, <1>2 DEF Downloaded, Unbroken, Framing
<1> DEFINE body == Digits(counted, nr)
           m == numPadding
           last == Taken(dst)[m]
<1>4. /\ counted \in Nat /\ nr \in Nat /\ counted + nr \in 0..Len(sent)
      /\ Upto(src, nr) = body /\ After(src, nr) = Digits(counted + nr, Len(sent) - (counted + nr))
      /\ body \in Seq(Nat) /\ Len(body) = nr
      /\ Digits(0, counted) \o body = Digits(0, counted + nr)
  BY <1>1, DownloadRead
<1>5. dst' = dst \o body /\ counted' = counted + nr /\ ended' = "no"
  BY <1>3, <1>4 DEF Write
<1>6. src' = Digits(counted', Len(sent) - counted')
  BY <1>3, <1>4, <1>5
<1>7. last \in Read /\ last.at \in 0..Len(dst) /\ last.payload \in Seq(Nat)
  <2>1. last \in Read /\ last.at \in 0..Len(dst)
    BY <1>1, EndsWithin
  <2> QED BY <2>1 DEF Read
<1>8. m \in Nat /\ m \in 0..m
  BY PaddingAssumption
<1> HIDE DEF body
<1>9. dst' \in Seq(Nat) /\ Len(dst') = Len(dst) + nr /\ Len(dst) \in Nat
  <2>1. dst \o body \in Seq(Nat) /\ Len(dst \o body) = Len(dst) + Len(body)
    BY <1>1, <1>4, Joined
  <2> QED BY <1>1, <1>4, <1>5, <2>1
<1>10. \A k \in 0..m : Taken(dst')[k] = Taken(dst)[k]
  <2>1. \A k \in 0..m : Taken(dst \o body)[k] = Taken(dst)[k]
    BY <1>1, <1>4, TakenStays DEF Unbroken
  <2> QED BY <1>5, <2>1
<1>11. Unbroken(dst', m)
  <2> SUFFICES ASSUME NEW k \in 1..m
               PROVE  /\ Taken(dst')[k - 1].at + 3 <= Taken(dst')[k].at
                      /\ Taken(dst')[k].at <= Len(dst')
    BY DEF Unbroken
  <2>1. k \in 0..m /\ k - 1 \in 0..m /\ k \in 0..NumFirstPaddings
    BY <1>8, PaddingAssumption
  <2>2. Taken(dst)[k - 1].at + 3 <= Taken(dst)[k].at /\ Taken(dst)[k].at <= Len(dst)
    BY <1>1 DEF Unbroken
  <2>3. Taken(dst')[k - 1] = Taken(dst)[k - 1] /\ Taken(dst')[k] = Taken(dst)[k]
    BY <1>10, <2>1
  <2>4. Taken(dst)[k].at \in Nat
    <3>1. Taken(dst)[k] \in Read
      BY <1>1, <2>1, TakenIs
    <3> QED BY <3>1 DEF Read
  <2>5. Taken(dst)[k].at <= Len(dst')
    <3>1. Len(dst) \in Nat /\ Len(dst') \in Nat /\ Len(dst) <= Len(dst')
      BY <1>4, <1>9
    <3> QED BY <2>2, <2>4, <3>1
  <2> QED BY <2>2, <2>3, <2>5
<1>12. Taken(dst')[m] = last
  BY <1>8, <1>10
<1> HIDE DEF last
<1>13. last.payload \o After(dst', last.at) = Digits(0, counted')
  <2>1. After(dst \o body, last.at) = After(dst, last.at) \o body
    BY <1>1, <1>4, <1>7, AfterJoin
  <2>2. After(dst, last.at) \in Seq(Nat)
    BY <1>1, <1>7, <1>9, Cuts, last.at \in Nat
  <2>3. last.payload \o (After(dst, last.at) \o body) = (last.payload \o After(dst,
      last.at)) \o body
    <3>1. last.payload \in Seq(Nat) /\ body \in Seq(Nat)
      BY <1>4, <1>7
    <3>2. \A x, y, z \in Seq(Nat) : (x \o y) \o z = x \o (y \o z)
      BY ConcatAssociative, SMTT(30)
    <3> QED BY <2>2, <3>1, <3>2, Zenon
  <2>4. last.payload \o After(dst, last.at) = Digits(0, counted)
    BY <1>1 DEF last
  <2> QED BY <1>4, <1>5, <2>1, <2>3, <2>4
<1> QED BY <1>4, <1>5, <1>6, <1>9, <1>11, <1>12, <1>13

\* Nothing has been sent to the client of a download, and the target's bytes wait.
LEMMA DownloadBegins == ASSUME PaddingInit, ~upload PROVE Downloaded
<1>1. FromTarget /\ dst = <<>> /\ numPadding = 0 /\ counted = 0 /\ ended = "no"
  BY DEF PaddingInit
<1>2. PICK n \in 0..MaxPlain : sent = Digits(0, n) /\ src = sent /\ hollow = FALSE
  BY <1>1 DEF FromTarget
<1>3. n \in Nat /\ n - 0 = n /\ 0 \in 0..n
  BY PaddingAssumption
<1>4. Len(sent) = n
  BY <1>2, <1>3, DigitsAre, 0 \in Nat
<1>5. dst \in Seq(Nat) /\ Len(dst) = 0
  BY <1>1
<1>6. Taken(dst)[0] = [at |-> 0, payload |-> <<>>]
  BY <1>5, TakenIs
<1>7. After(dst, 0) = <<>>
  <2>1. Len(dst) <= 0
    BY <1>5
  <2>2. 0 \in Nat
    OBVIOUS
  <2> QED BY <1>5, <2>1, <2>2, NothingAfter
<1>8. Digits(0, 0) = <<>>
  <2>1. Digits(0, 0) \in Seq(Nat) /\ Len(Digits(0, 0)) = 0
    BY DigitsAre, 0 \in Nat
  <2> QED BY <2>1
<1>9. <<>> \o <<>> = <<>>
  OBVIOUS
<1>10. \A k \in 1..0 : FALSE
  OBVIOUS
<1>11. counted \in 0..Len(sent) /\ src = Digits(counted, Len(sent) - counted)
  BY <1>1, <1>2, <1>3, <1>4
<1>12. sent = Digits(0, Len(sent)) /\ Len(sent) \in Nat
  BY <1>2, <1>3, <1>4
<1>13. Taken(dst)[numPadding].at = Len(dst)
  BY <1>1, <1>5, <1>6
<1>14. Taken(dst)[numPadding].payload \o After(dst, Taken(dst)[numPadding].at) = Digits(0,
    counted)
  <2>1. Taken(dst)[numPadding] = [at |-> 0, payload |-> <<>>]
    BY <1>1, <1>6, Zenon
  <2>2. Taken(dst)[numPadding].at = 0 /\ Taken(dst)[numPadding].payload = <<>>
    BY <2>1
  <2>3. Taken(dst)[numPadding].payload \o After(dst, Taken(dst)[numPadding].at) = <<>> \o <<>>
    BY <1>7, <2>2, Zenon
  <2>4. Digits(0, counted) = <<>>
    BY <1>1, <1>8, Zenon
  <2> QED BY <1>9, <2>3, <2>4, Zenon
<1> QED BY <1>1, <1>2, <1>5, <1>10, <1>11, <1>12, <1>13, <1>14 DEF Downloaded

\* What comes first of the payload.
LEMMA DigitsPrefix ==
    ASSUME NEW n \in Nat, NEW p \in 0..n
    PROVE  IsPrefix(Digits(0, p), Digits(0, n)) /\ Len(Digits(0, p)) = p
<1>1. p \in Nat /\ p - 0 = p /\ 0 + 0 = 0 /\ 0 + 1 = 1 /\ 0 <= p /\ p \in 0..p
  OBVIOUS
<1>2. Len(Digits(0, p)) = p /\ Len(Digits(0, n)) = n
  BY <1>1, DigitsAre, 0 \in Nat
<1>3. SubSeq(Digits(0, p), 0 + 1, p) = Digits(0 + 0, p - 0)
  BY <1>1, DigitsPart, 0 \in Nat
<1>4. SubSeq(Digits(0, n), 0 + 1, p) = Digits(0 + 0, p - 0)
  BY <1>1, DigitsPart, 0 \in Nat
<1>5. SubSeq(Digits(0, p), 1, p) = SubSeq(Digits(0, n), 1, p)
  BY <1>1, <1>3, <1>4
<1> QED BY <1>2, <1>5 DEF IsPrefix

-------------------------------------------------------------------------------
\* A stream is as its sender says until it is read.
LEMMA PaddingBegins == PaddingInit => PaddingInv
<1> SUFFICES ASSUME PaddingInit PROVE PaddingInv
  OBVIOUS
<1>1. numPadding \in 0..NumFirstPaddings /\ upload \in BOOLEAN
  BY PaddingAssumption DEF PaddingInit
<1> QED BY <1>1, UploadBegins, DownloadBegins DEF PaddingInv

\* An iteration that reads the client.
LEMMA UploadStep == ASSUME PaddingInv, upload, FlushingIoCopy PROVE Uploaded'
<1>1. PICK n \in 0..NumFirstPaddings : \E messages \in [1..n -> Messages] : \E plain,
    cut \in Nat :
          Stream(n, messages, plain, cut) /\ UploadExact(n, messages, plain, cut)
  BY DEF PaddingInv, Uploaded
<1>2. PICK messages \in [1..n -> Messages], plain \in Nat, cut \in Nat :
          Stream(n, messages, plain, cut) /\ UploadExact(n, messages, plain, cut)
  BY <1>1
<1>3. Stream(n, messages, plain, cut)'
  BY <1>2 DEF FlushingIoCopy, AddPadding, RemovePadding, CopyPlain, ReadsEnd, Stream
<1>4. numPadding \in 0..NumFirstPaddings
  BY DEF PaddingInv
<1>5. UploadExact(n, messages, plain, cut)'
  <2>1. CASE RemovePadding
    BY <1>2, <1>4, <2>1, UploadRemove DEF FlushingIoCopy
  <2>2. CASE CopyPlain
    BY <1>2, <1>4, <2>2, UploadPlain DEF FlushingIoCopy
  <2>3. CASE ReadsEnd
    BY <1>2, <2>3 DEF FlushingIoCopy, ReadsEnd, UploadExact, Copied, BrokeOff
  <2>4. ~AddPadding
    BY DEF AddPadding
  <2> QED BY <2>1, <2>2, <2>3, <2>4 DEF FlushingIoCopy
<1> QED BY <1>3, <1>5 DEF Uploaded

\* An iteration that reads the target.
LEMMA DownloadStep == ASSUME PaddingInv, ~upload, FlushingIoCopy PROVE Downloaded'
<1>1. numPadding \in 0..NumFirstPaddings /\ Downloaded /\ ended = "no"
  BY DEF PaddingInv, FlushingIoCopy
<1>2. CASE AddPadding
  BY <1>1, <1>2, DownloadAdd
<1>3. CASE CopyPlain
  BY <1>1, <1>3, DownloadPlain
<1>4. CASE ReadsEnd
  BY <1>1, <1>4 DEF ReadsEnd, Downloaded, Framing
<1>5. ~RemovePadding
  BY DEF RemovePadding
<1> QED BY <1>2, <1>3, <1>4, <1>5 DEF FlushingIoCopy

\* Every step keeps the inductive invariant.
LEMMA PaddingStep == PaddingInv /\ [FlushingIoCopy]_paddingVars => PaddingInv'
<1> SUFFICES ASSUME PaddingInv, [FlushingIoCopy]_paddingVars PROVE PaddingInv'
  OBVIOUS
<1>1. CASE UNCHANGED paddingVars
  <2>1. /\ upload' = upload /\ numPadding' = numPadding /\ src' = src /\ dst' = dst
        /\ sent' = sent /\ counted' = counted /\ whole' = whole /\ hollow' = hollow
        /\ ended' = ended
    BY <1>1 DEF paddingVars
  <2>2. numPadding' \in 0..NumFirstPaddings /\ upload' \in BOOLEAN
    BY <2>1 DEF PaddingInv
  <2>3. upload => Uploaded'
    <3> SUFFICES ASSUME upload PROVE Uploaded'
      OBVIOUS
    <3>1. PICK n \in 0..NumFirstPaddings :
              \E messages \in [1..n -> Messages] : \E plain, cut \in Nat :
                Stream(n, messages, plain, cut) /\ UploadExact(n, messages, plain, cut)
      BY DEF PaddingInv, Uploaded
    <3>2. PICK messages \in [1..n -> Messages], plain \in Nat, cut \in Nat :
              Stream(n, messages, plain, cut) /\ UploadExact(n, messages, plain, cut)
      BY <3>1
    <3>3. Stream(n, messages, plain, cut)'
      BY <2>1, <3>2 DEF Stream
    <3>4. UploadExact(n, messages, plain, cut)'
      BY <2>1, <3>2 DEF UploadExact, Copied, BrokeOff
    <3> QED BY <3>3, <3>4 DEF Uploaded
  <2>4. ~upload => Downloaded'
    <3> SUFFICES ASSUME ~upload PROVE Downloaded'
      OBVIOUS
    <3>1. Downloaded
      BY DEF PaddingInv
    <3> QED BY <2>1, <3>1 DEF Downloaded, Framing
  <2> QED BY <2>1, <2>2, <2>3, <2>4 DEF PaddingInv
<1>2. CASE FlushingIoCopy
  <2>1. upload' = upload /\ numPadding' \in 0..NumFirstPaddings
    BY <1>2, PaddingAssumption DEF PaddingInv, FlushingIoCopy, AddPadding, RemovePadding,
       CopyPlain, ReadsEnd, Framing
  <2>2. upload \in BOOLEAN
    BY DEF PaddingInv
  <2>3. upload => Uploaded'
    BY <1>2, UploadStep
  <2>4. ~upload => Downloaded'
    BY <1>2, DownloadStep
  <2> QED BY <2>1, <2>2, <2>3, <2>4 DEF PaddingInv
<1> QED BY <1>1, <1>2

\* And it says that the payload arrives.
LEMMA PaddingExact == PaddingInv => PaddingTransparent
<1> SUFFICES ASSUME PaddingInv, ended # "unwritten", ~hollow
             PROVE  LET got == IF upload THEN dst ELSE Unframed(dst)
                    IN  /\ IsPrefix(got, sent) /\ counted = Len(got)
                        /\ ended = "eof" /\ whole => got = sent
  BY DEF PaddingTransparent
<1>1. numPadding \in 0..NumFirstPaddings
  BY DEF PaddingInv
<1>2. CASE upload
  <2>1. PICK n \in 0..NumFirstPaddings :
          \E messages \in [1..n -> Messages] : \E plain, cut \in Nat :
            Stream(n, messages, plain, cut) /\ UploadExact(n, messages, plain, cut)
    BY <1>2 DEF PaddingInv, Uploaded
  <2>2. PICK messages \in [1..n -> Messages], plain \in Nat, cut \in Nat :
            Stream(n, messages, plain, cut) /\ UploadExact(n, messages, plain, cut)
    BY <2>1
  <2>3. /\ counted = Len(dst) /\ (ended = "eof" => src = <<>>)
        /\ Copied(n, messages, plain, cut) \/ BrokeOff
    BY <2>2 DEF UploadExact
  <2>4. n \in Nat /\ n \in 0..n
    BY PaddingAssumption
  <2>5. Payload(messages)[n] + plain \in Nat
    <3>1. Payload(messages)[n] \in Nat
      BY <2>4, PayloadIs
    <3> QED BY <3>1
  <2>6. sent = Digits(0, Payload(messages)[n] + plain)
    BY <2>2 DEF Stream
  <2>7. Len(sent) = Payload(messages)[n] + plain
    BY <2>5, <2>6, DigitsAre, 0 \in Nat
  <2>8. /\ \E p \in 0..Len(sent) : dst = Digits(0, p)
        /\ whole /\ src = <<>> => dst = sent
    <3>1. CASE Copied(n, messages, plain, cut)
      BY <1>1, <2>2, <3>1, CopiedIs
    <3>2. CASE BrokeOff
      BY <3>2 DEF BrokeOff
    <3> QED BY <2>3, <3>1, <3>2
  <2>9. IsPrefix(dst, sent)
    BY <2>5, <2>6, <2>7, <2>8, DigitsPrefix
  <2> QED BY <1>2, <2>3, <2>8, <2>9
<1>3. CASE ~upload
  <2>1. /\ Len(sent) \in Nat /\ sent = Digits(0, Len(sent))
        /\ counted \in 0..Len(sent) /\ src = Digits(counted, Len(sent) - counted)
        /\ (ended = "eof" => src = <<>>)
        /\ dst \in Seq(Nat)
        /\ Framing => Taken(dst)[numPadding].at = Len(dst)
        /\ Taken(dst)[numPadding].payload \o After(dst, Taken(dst)[numPadding].at)
              = Digits(0, counted)
    BY <1>3 DEF PaddingInv, Downloaded
  <2>2. Taken(dst)[NumFirstPaddings] = Taken(dst)[numPadding]
    <3>1. CASE Framing
      BY <1>1, <2>1, <3>1, NothingTaken
    <3>2. CASE ~Framing
      <4>1. numPadding = NumFirstPaddings
        BY <1>1, <3>2, PaddingAssumption DEF Framing
      <4> QED BY <4>1
    <3> QED BY <3>1, <3>2
  <2>3. Unframed(dst) = Digits(0, counted)
    BY <2>1, <2>2 DEF Unframed
  <2>4. IsPrefix(Digits(0, counted), sent) /\ Len(Digits(0, counted)) = counted
    BY <2>1, DigitsPrefix
  <2>5. ASSUME ended = "eof" PROVE Digits(0, counted) = sent
    <3>1. Len(src) = 0
      BY <2>1, <2>5
    <3>2. counted \in Nat /\ Len(sent) - counted \in Nat
      BY <2>1
    <3>3. Len(src) = Len(sent) - counted
      BY <2>1, <3>2, DigitsAre
    <3>4. counted = Len(sent)
      BY <2>1, <3>1, <3>2, <3>3, SMTT(30)
    <3> QED BY <2>1, <3>4
  <2> QED BY <1>3, <2>3, <2>4, <2>5
<1> QED BY <1>2, <1>3

\* Every state of a stream is in the inductive invariant: a client that frames its
\* payload, or the digits of a target, and how far flushingIoCopy has come with them.
THEOREM PaddingInvariance == PaddingSpec => []PaddingInv
BY PaddingBegins, PaddingStep, PTL DEF PaddingSpec

\* flushingIoCopy: whatever the sizes of the frames and of their padding, however many
\* messages are framed, however the bytes fall into reads and wherever the stream
\* breaks off, the other side gets a prefix of the payload, all of it at the end of a
\* whole stream, and what is metered is exactly what it gets; but for a write that
\* fails and a frame with padding and no payload.
THEOREM PaddingIsTransparent == PaddingSpec => []PaddingTransparent
BY PaddingInvariance, PaddingExact, PTL
-------------------------------------------------------------------------------
\* What can be read are bytes, framed or not.
LEMMA BytesAtFirst == PaddingInit => src \in Seq(Nat)
<1> SUFFICES ASSUME PaddingInit PROVE src \in Seq(Nat)
  OBVIOUS
<1>1. CASE upload
  <2>1. PICK n \in 0..NumFirstPaddings : \E messages \in [1..n -> Messages] :
            \E plain \in 0..(IF n = NumFirstPaddings THEN MaxPlain ELSE 0) :
              LET wire == Frames(messages)[n] \o Digits(Payload(messages)[n], plain)
              IN  \E cut \in 0..Len(wire) : src = SubSeq(wire, 1, cut)
    BY <1>1 DEF PaddingInit, FromClient
  <2>2. PICK messages \in [1..n -> Messages],
             plain \in 0..(IF n = NumFirstPaddings THEN MaxPlain ELSE 0) :
          LET wire == Frames(messages)[n] \o Digits(Payload(messages)[n], plain)
          IN  \E cut \in 0..Len(wire) : src = SubSeq(wire, 1, cut)
    BY <2>1
  <2>3. n \in Nat /\ plain \in Nat
    BY PaddingAssumption
  <2> DEFINE w == Wire(messages, plain)
  <2>4. w = Frames(messages)[n] \o Digits(Payload(messages)[n], plain)
    <3>1. Len(messages) = n
      BY <2>3, MessageIs
    <3> QED BY <3>1 DEF Wire
  <2>5. w \in Seq(Nat)
    BY <2>3, WireIs
  <2>6. PICK cut \in 0..Len(w) : src = SubSeq(w, 1, cut)
    BY <2>2, <2>4
  <2> HIDE DEF w
  <2>7. cut \in Nat /\ (IF cut < Len(w) THEN cut ELSE Len(w)) = cut
    BY <2>5
  <2>8. src = Upto(w, cut)
    BY <2>6, <2>7 DEF Upto
  <2> QED BY <2>5, <2>7, <2>8, Cuts
<1>2. CASE ~upload
  <2>1. PICK n \in 0..MaxPlain : src = Digits(0, n)
    BY <1>2 DEF PaddingInit, FromTarget
  <2> QED BY <2>1, DigitsAre, PaddingAssumption
<1> QED BY <1>1, <1>2

\* What an iteration takes off is at the front, and there is something.
LEMMA TakesSome ==
    ASSUME src \in Seq(Nat), FlushingIoCopy
    PROVE  src' \in Seq(Nat) /\ (ended' # "no" \/ Len(src') < Len(src))
<1>1. Len(src) \in Nat /\ (src # <<>> => Len(src) > 0)
  OBVIOUS
<1>2. ASSUME NEW nr \in 1..Len(src), src' = After(src, nr)
      PROVE  src' \in Seq(Nat) /\ Len(src') < Len(src)
  <2>1. nr \in Nat /\ nr <= Len(src) /\ nr > 0
    BY <1>1
  <2>2. src' \in Seq(Nat) /\ Len(src') = IF nr < Len(src) THEN Len(src) - nr ELSE 0
    BY <1>2, <2>1, Cuts
  <2> QED BY <1>1, <2>1, <2>2
<1>3. CASE AddPadding \/ CopyPlain
  BY <1>2, <1>3 DEF AddPadding, CopyPlain
<1>4. CASE RemovePadding
  <2> DEFINE rest == After(src, 3)
  <2>1. PICK header \in [1..3 -> 0..(Byte - 1)] :
          LET nr == header[1] * Byte + header[2]
              body == Upto(rest, nr)
              padding == IF body = <<>> THEN 0 ELSE header[3]
          IN  src' = After(rest, nr + padding)
    BY <1>4 DEF RemovePadding
  <2> DEFINE nr == header[1] * Byte + header[2]
             padding == IF Upto(rest, nr) = <<>> THEN 0 ELSE header[3]
  <2>2. header[1] \in Nat /\ header[2] \in Nat /\ header[3] \in Nat
    BY PaddingAssumption
  <2>3. nr \in Nat
    BY <2>2, TwoDigits
  <2>4. src' = After(rest, nr + padding)
    BY <2>1
  <2> HIDE DEF nr
  <2>5. nr + padding \in Nat
    BY <2>2, <2>3
  <2>6. rest \in Seq(Nat) /\ Len(rest) = IF 3 < Len(src) THEN Len(src) - 3 ELSE 0
    BY Cuts, 3 \in Nat
  <2> HIDE DEF rest, padding
  <2>7. /\ src' \in Seq(Nat)
        /\ Len(src') = IF nr + padding < Len(rest) THEN Len(rest) - (nr + padding) ELSE 0
    BY <2>4, <2>5, <2>6, Cuts
  <2>8. Len(rest) < Len(src) /\ Len(rest) \in Nat
    <3>1. Len(src) > 0
      BY <1>1, <1>4 DEF RemovePadding
    <3> QED BY <1>1, <2>6, <3>1
  <2>9. Len(src') <= Len(rest)
    BY <2>5, <2>7, <2>8
  <2> QED BY <1>1, <2>7, <2>8, <2>9
<1>5. CASE ReadsEnd
  BY <1>5 DEF ReadsEnd
<1> QED BY <1>3, <1>4, <1>5 DEF FlushingIoCopy

\* flushingIoCopy does not spin.
GoesOn == [][ended' # "no" \/ Len(src') < Len(src)]_paddingVars

\* Every iteration of flushingIoCopy takes at least a byte of the stream or is the
\* last, a header of no payload, one that breaks off and a failed write included: a
\* stream of n bytes is copied in n + 1 iterations at the most.
THEOREM PaddingGoesOn == PaddingSpec => GoesOn
<1>1. src \in Seq(Nat) /\ [FlushingIoCopy]_paddingVars => (src \in Seq(Nat))'
  BY TakesSome DEF paddingVars
<1>2. src \in Seq(Nat) /\ [FlushingIoCopy]_paddingVars
         => [ended' # "no" \/ Len(src') < Len(src)]_paddingVars
  BY TakesSome
<1> QED BY <1>1, <1>2, BytesAtFirst, PTL DEF PaddingSpec, GoesOn
===============================================================================
