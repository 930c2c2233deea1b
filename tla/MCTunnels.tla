------------------------------- MODULE MCTunnels -------------------------------
(***************************************************************************)
(* The tunnels of a user for TLC.                                          *)
(*                                                                         *)
(* Limiter and counters: the metered tunnel and one more after the other   *)
(* of the same user, with a rate, another rate or no limit.  Frames: one   *)
(* direction of a tunnel, with two framed messages.  Padding has no        *)
(* variable in common with Tunnels, no step of one reads the other, and no *)
(* property is about both, so `half' lets one rest while the other runs.   *)
(***************************************************************************)
EXTENDS Tunnels, Padding

CONSTANT t1

VARIABLE half

\* A download of nothing.
PaddingRests == ~upload /\ src = <<>>

MCInit ==
    /\ TunnelsInit /\ PaddingInit
    /\ half \in {"tunnels", "frames"}
    /\ half = "tunnels" => PaddingRests

MCNext ==
    /\ \/ half = "tunnels" /\ TunnelsNext /\ UNCHANGED paddingVars
       \/ half = "frames" /\ FlushingIoCopy /\ UNCHANGED tunnelsVars
    /\ UNCHANGED half

MCSpec == MCInit /\ [][MCNext]_<<tunnelsVars, paddingVars, half>> /\ TunnelsFairness
===============================================================================
