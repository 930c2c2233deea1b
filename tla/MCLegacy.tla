------------------------------- MODULE MCLegacy -------------------------------
(***************************************************************************)
(* The counters of the legacy engine and the limiter for TLC.              *)
(*                                                                         *)
(* LegacyProxy and LimiterMaps have no variable in common, no step of one  *)
(* reads the other, and no property is about both.  So the states of each  *)
(* are all there when the other rests: `half' says which of the two runs,  *)
(* and the product of their states need not be built.                      *)
(*                                                                         *)
(* Counters: two users, one request at a time, copies that end with a byte *)
(* of upload.  Limiter: two callers, in either engine, with the devices    *)
(* that make them meet in different maps.                                  *)
(***************************************************************************)
EXTENDS LegacyProxy, LimiterMaps, TLC

CONSTANTS u1, u2, request, c1, c2, i1, i2

VARIABLE half

MCIdOf == [u \in Uuids |-> IF u = u1 THEN 7 ELSE 8]

MCChunks == {[up |-> 1, down |-> 0]}

\* A load: the devices of c1 and c2, the speed limits, the device limits of u1
\* and u2.
Load(engine, d1, d2, speeds, l1, l2, updates) ==
    [engine |-> engine, device |-> (c1 :> d1 @@ c2 :> d2), speeds |-> speeds,
     limit |-> (u1 :> l1 @@ u2 :> l2), updates |-> updates]

\* One device twice, two devices of a user, two users behind one address; in the
\* legacy engine users change while one device is there twice.
MCLoads ==
    {Load("caddy", <<u1, i1>>, <<u1, i1>>, {0}, 1, 0, TRUE),
     Load("caddy", <<u1, i1>>, <<u1, i2>>, {0}, 1, 0, TRUE),
     Load("legacy", <<u1, i1>>, <<u1, i2>>, {0}, 1, 0, FALSE),
     Load("legacy", <<u1, i1>>, <<u2, i1>>, {0}, 0, 1, FALSE),
     Load("legacy", <<u1, i1>>, <<u1, i1>>, {0, 1}, 0, 0, TRUE)}

LimiterRests == load = CHOOSE l \in Loads : TRUE
LegacyRests == users = Uuids

MCInit ==
    /\ LegacyInit /\ LimiterInit
    /\ \/ half = "counters" /\ LimiterRests /\ speed = [u \in Users |-> 0]
       \/ half = "limiter" /\ LegacyRests

MCNext ==
    /\ \/ half = "counters" /\ LegacyNext /\ UNCHANGED limiterVars
       \/ half = "limiter" /\ LimiterNext /\ UNCHANGED vars
    /\ UNCHANGED half

MCSpec == MCInit /\ [][MCNext]_<<vars, limiterVars, half>>
===============================================================================
