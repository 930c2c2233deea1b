------------------------------ MODULE ByteCounts ------------------------------
(***************************************************************************)
(* The byte pairs of internal/caddyproc: the up and down fields of a       *)
(* trafficCounter, and the upload and download fields of an event or of a  *)
(* panel.UserTraffic.  An int64 that counts bytes is a natural number; its *)
(* overflow (2^63 bytes of one user between two reports) is out of reach.  *)
(***************************************************************************)
EXTENDS Integers

Dirs == {"up", "down"}

Bytes == [Dirs -> Nat]

Zero == [d \in Dirs |-> 0]

\* trafficCounter.add
Plus(a, b) == [d \in Dirs |-> a[d] + b[d]]

\* Fault: the operands of the subtraction are swapped.
MinusSwapped(a, b) == [d \in Dirs |-> IF b[d] = 0 THEN a[d] ELSE b[d] - a[d]]

\* trafficCounter.confirm: subtractReported on each field, never below zero
Minus(a, b) == [d \in Dirs |-> IF a[d] <= b[d] THEN 0 ELSE a[d] - b[d]]

\* trafficCounter.hasPending
HasPending(a) == \E d \in Dirs : a[d] > 0

\* trafficCounter.snapshotIfAbove: the test on the sum of both directions
Above(a, threshold) == a["up"] + a["down"] > threshold
===============================================================================
