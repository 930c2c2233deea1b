------------------------------- MODULE MCTraffic -------------------------------
(***************************************************************************)
(* Small instances of Traffic for TLC: two users, and events that carry    *)
(* bytes in both directions, or in none.                                   *)
(***************************************************************************)
EXTENDS Traffic

CONSTANTS u1, u2, stderr

MCIdOf == [u \in Uuids |-> IF u = u1 THEN 7 ELSE 8]

\* an upload and a download; and a close event that brings nothing
MCChunks == {[up |-> 1, down |-> 1]}
MCChunksOrNone == MCChunks \cup {Zero}
===============================================================================
