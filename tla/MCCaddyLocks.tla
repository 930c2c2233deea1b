----------------------------- MODULE MCCaddyLocks -----------------------------
(***************************************************************************)
(* Instances of CaddyLocks for TLC: both tasks, one consumer that carries  *)
(* events, one handler, at most one tunnel online.                         *)
(***************************************************************************)
EXTENDS CaddyLocks

CONSTANTS stderr, h1
===============================================================================
