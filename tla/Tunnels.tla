-------------------------------- MODULE Tunnels --------------------------------
(***************************************************************************)
(* The tunnels of a user in the forward proxy, one of them metered.        *)
(* ServeHTTP gets the limiter of the user before it relays anything;       *)
(* flushingIoCopy then waits for tokens, writes, and adds what it has      *)
(* written to the counter the two reporters of the tunnel read.            *)
(***************************************************************************)
EXTENDS Metering, RateLimiter

CONSTANT Metered    \* the tunnel whose bytes are followed

ASSUME MeteredAssumption == Metered \in Tunnels
ASSUME SameSizes == Sizes = Chunks

tunnelsVars == <<vars, rateVars>>

TunnelsInit == Init /\ RateInit

-------------------------------------------------------------------------------
\* A write of the metered tunnel, and its bytes in the counter.
WrittenAndCounted ==
    /\ Written(Metered)
    /\ Copy /\ total' = total + tunnel[Metered].size

\* The streams of the metered tunnel end, and with them its part here.
FinishMetered == Finish(Metered) /\ EndStreams

\* The steps of the metered tunnel that count nothing.  It is opened once, and
\* bound: the bytes it relays are.
MeteredStep ==
    /\ copying
    /\ \/ GetUserRateLimiter(Metered) \/ Wait(Metered)
       \/ WaitN(Metered) /\ total + tunnel'[Metered].size <= MaxTotal
    /\ UNCHANGED vars

OtherTunnel(t) ==
    /\ GetUserRateLimiter(t) \/ WaitN(t) \/ Wait(t) \/ Written(t) \/ Finish(t)
    /\ UNCHANGED vars

\* reportActiveTunnel is started when the tunnel is.
MeterBegin(r) ==
    /\ Begin(r) /\ (~copying \/ tunnel[Metered].at \in Open)
    /\ UNCHANGED rateVars

MeterReport(r) == (Delta(r) \/ Emit(r)) /\ UNCHANGED rateVars

MeterStop == StopTicker /\ UNCHANGED rateVars

TunnelsNext ==
    \/ WrittenAndCounted \/ FinishMetered \/ MeteredStep
    \/ \E t \in Tunnels \ {Metered} : OtherTunnel(t)
    \/ \E r \in Reporters : MeterBegin(r) \/ MeterReport(r)
    \/ MeterStop

TunnelsSpec == TunnelsInit /\ [][TunnelsNext]_tunnelsVars

\* The reporters are scheduled; tokens need never come, nor bytes, nor the end.
TunnelsFairness ==
    \A r \in Reporters : WF_vars(MeterBegin(r)) /\ WF_vars(MeterReport(r))

FairTunnelsSpec == TunnelsSpec /\ TunnelsFairness
===============================================================================
