-------------------------------- MODULE Metering --------------------------------
(***************************************************************************)
(* How the forward proxy meters one direction of a tunnel.  flushingIoCopy *)
(* adds to the total of streamStats; the ticker of reportActiveTunnel and  *)
(* the close event of ServeHTTP each take what is new since the last       *)
(* report with deltaSinceLast, which is two loads and a compare-and-swap   *)
(* on two atomics, and put it in an event.  The two directions share       *)
(* nothing.                                                                *)
(***************************************************************************)
EXTENDS Integers

CONSTANTS
    Chunks,     \* sizes flushingIoCopy adds at once
    MaxTotal    \* bound: bytes of a tunnel

ASSUME ChunksAssumption == Chunks \subseteq Nat \ {0}
ASSUME MaxTotalAssumption == MaxTotal \in Nat

VARIABLES
    total,      \* upload, or download
    reported,   \* reportedUpload, or reportedDownload
    copying,    \* the streams of the tunnel have not both ended
    at,         \* per reporter: where it is
    current,    \* per reporter: its local variables of deltaSinceLast
    previous,
    held,       \* per reporter: the delta it has taken and not emitted
    emitted     \* bytes in the events of the tunnel

vars == <<total, reported, copying, at, current, previous, held, emitted>>

Reporters == {"ticker", "handler"}

\* A reporter waits, is in one of the steps of deltaSinceLast, is about to
\* emit, or has ended.
Steps == {"wait", "total", "reported", "swap", "emit", "end"}

Nothing == [r \in Reporters |-> 0]

Init ==
    /\ total = 0
    /\ reported = 0
    /\ copying = TRUE
    /\ at = [r \in Reporters |-> "wait"]
    /\ current = Nothing
    /\ previous = Nothing
    /\ held = Nothing
    /\ emitted = 0

-------------------------------------------------------------------------------
\* AddUpload or AddDownload of a stream, after a write.
Copy ==
    /\ copying
    /\ \E n \in Chunks :
          /\ total + n <= MaxTotal
          /\ total' = total + n
    /\ UNCHANGED <<reported, copying, at, current, previous, held, emitted>>

\* dualStream has heard from both streams: neither adds any more.
EndStreams ==
    /\ copying
    /\ copying' = FALSE
    /\ UNCHANGED <<total, reported, at, current, previous, held, emitted>>

Go(r, step) == at' = [at EXCEPT ![r] = step]

\* The ticker fires; the handler reports when dualStream has returned.
Begin(r) ==
    /\ at[r] = "wait"
    /\ r = "handler" => ~copying
    /\ Go(r, "total")
    /\ UNCHANGED <<total, reported, copying, current, previous, held, emitted>>

LoadTotal(r) ==
    /\ at[r] = "total"
    /\ current' = [current EXCEPT ![r] = total]
    /\ Go(r, "reported")
    /\ UNCHANGED <<total, reported, copying, previous, held, emitted>>

\* Fault: a total that is not new is swapped in all the same.
LoadReportedUnchecked(r) ==
    /\ at[r] = "reported"
    /\ previous' = [previous EXCEPT ![r] = reported]
    /\ Go(r, "swap")
    /\ UNCHANGED <<total, reported, copying, current, held, emitted>>

LoadReported(r) ==
    /\ at[r] = "reported"
    /\ previous' = [previous EXCEPT ![r] = reported]
    /\ Go(r, IF current[r] <= reported THEN "emit" ELSE "swap")
    /\ UNCHANGED <<total, reported, copying, current, held, emitted>>

\* Fault: a plain store instead of the compare-and-swap.
Store(r) ==
    /\ at[r] = "swap"
    /\ reported' = current[r]
    /\ held' = [held EXCEPT ![r] = current[r] - previous[r]]
    /\ Go(r, "emit")
    /\ UNCHANGED <<total, copying, current, previous, emitted>>

\* Fault: a swap that fails is taken for nothing new.
SwapOnce(r) ==
    /\ at[r] = "swap"
    /\ Go(r, "emit")
    /\ IF reported = previous[r]
         THEN /\ reported' = current[r]
              /\ held' = [held EXCEPT ![r] = current[r] - previous[r]]
         ELSE UNCHANGED <<reported, held>>
    /\ UNCHANGED <<total, copying, current, previous, emitted>>

\* CompareAndSwap: the delta is taken, or the loop starts again.
Swap(r) ==
    /\ at[r] = "swap"
    /\ IF reported = previous[r]
         THEN /\ reported' = current[r]
              /\ held' = [held EXCEPT ![r] = current[r] - previous[r]]
              /\ Go(r, "emit")
         ELSE /\ Go(r, "total")
              /\ UNCHANGED <<reported, held>>
    /\ UNCHANGED <<total, copying, current, previous, emitted>>

\* Fault: the ticker keeps what it has taken when the tunnel is cut.
EmitOrCut(r) ==
    /\ at[r] = "emit"
    /\ \/ /\ emitted' = emitted + held[r]
          /\ Go(r, IF r = "handler" THEN "end" ELSE "wait")
       \/ /\ r = "ticker"
          /\ Go(r, "end")
          /\ UNCHANGED emitted
    /\ held' = [held EXCEPT ![r] = 0]
    /\ UNCHANGED <<total, reported, copying, current, previous>>

\* The event is written.  The ticker then authorizes the tunnel again and goes
\* on, or is refused and ends; the handler is done.
Emit(r) ==
    /\ at[r] = "emit"
    /\ emitted' = emitted + held[r]
    /\ held' = [held EXCEPT ![r] = 0]
    /\ \/ r = "ticker" /\ Go(r, "wait")
       \/ Go(r, "end")
    /\ UNCHANGED <<total, reported, copying, current, previous>>

\* doneReporting is closed once the close event is written.
StopTicker ==
    /\ at["ticker"] = "wait"
    /\ at["handler"] = "end"
    /\ Go("ticker", "end")
    /\ UNCHANGED <<total, reported, copying, current, previous, held, emitted>>

Delta(r) == LoadTotal(r) \/ LoadReported(r) \/ Swap(r)

Next ==
    \/ Copy
    \/ EndStreams
    \/ \E r \in Reporters : Begin(r) \/ Delta(r) \/ Emit(r)
    \/ StopTicker

Spec == Init /\ [][Next]_vars

\* Both goroutines are scheduled; the streams need never end.
Fairness == \A r \in Reporters : WF_vars(Begin(r)) /\ WF_vars(Delta(r)) /\ WF_vars(Emit(r))

FairSpec == Spec /\ Fairness

-------------------------------------------------------------------------------
\* Counters are natural numbers, in memory and in every event.
TypeOK ==
    /\ total \in Nat
    /\ reported \in Nat
    /\ copying \in BOOLEAN
    /\ at \in [Reporters -> Steps]
    /\ current \in [Reporters -> Nat]
    /\ previous \in [Reporters -> Nat]
    /\ held \in [Reporters -> Nat]
    /\ emitted \in Nat

\* deltaSinceLast: whatever the ticker and the close event do at the same time,
\* no byte is in two events, and none is in an event before it was copied.
EachByteOnce ==
    /\ emitted + held["ticker"] + held["handler"] = reported
    /\ reported <= total

\* reportActiveTunnel and the deferred close event: when the close event is
\* written and the ticker is not in the middle of a report, every byte of the
\* tunnel is in an event.
ClosedIsComplete ==
    at["handler"] = "end" /\ at["ticker"] \in {"wait", "end"} => emitted = total

\* deltaSinceLast ends although its compare-and-swap may fail: once the streams
\* have ended every byte gets into an event.
EventuallyEmitted == ~copying ~> emitted = total

-------------------------------------------------------------------------------
(***************************************************************************)
(* The inductive invariant.                                                *)
(***************************************************************************)

\* A swap only ever raises reported, from a value it had to one total had.
DeltaSound ==
    \A r \in Reporters :
        /\ current[r] <= total
        /\ previous[r] <= reported
        /\ at[r] = "swap" => previous[r] < current[r]
        /\ at[r] # "emit" => held[r] = 0

\* Past its loads the handler works with the final total, and past its swap
\* nothing is left to report.
HandlerSawAll ==
    /\ at["handler"] # "wait" => ~copying
    /\ at["handler"] \in {"reported", "swap", "emit", "end"} => current["handler"] = total
    /\ at["handler"] \in {"emit", "end"} => reported = total

IInv == TypeOK /\ EachByteOnce /\ DeltaSound /\ HandlerSawAll
===============================================================================
