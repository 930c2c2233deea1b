----------------------------- MODULE CaddyProcess -----------------------------
(***************************************************************************)
(* The Caddy process of one node: Start, waitReady, Close and stopLocked   *)
(* of caddyproc.Server, the goroutine that waits for the process, the      *)
(* authorisation server that Caddy calls, and runNode, which starts a new  *)
(* server after a failure and after a reload.                              *)
(*                                                                         *)
(* runNode is one goroutine, and Start and Close hold the server's lock    *)
(* from end to end: `node' says how far it is.  Caddy, the goroutine that  *)
(* waits for it and the end of v2naive itself interleave with it.  A Caddy *)
(* that an earlier v2naive left behind answers on the same ports.          *)
(***************************************************************************)
EXTENDS Naturals

CONSTANT MaxProbes      \* bound: rounds of waitReady before its ten seconds are over

ASSUME MaxProbesAssumption == MaxProbes \in Nat

VARIABLES
    node,       \* where runNode is
    auth,       \* authLn and authServer: the authorisation server listens
    proc,       \* the process of s.cmd
    killed,     \* Kill was called on it
    done,       \* the result of cmd.Wait is in the channel
    probes,     \* rounds of waitReady so far
    old         \* a Caddy of an earlier v2naive is alive

vars == <<node, auth, proc, killed, done, probes, old>>

\* down: no server, or a pause before the next one.  spawn ... check, probe: in
\* Start.  stop, await, kill: in stopLocked.  up: Start has returned nil.
Nodes == {"down", "spawn", "check", "probe", "up", "stop", "await", "kill"}

Alive == {"booting", "serving"}

Init ==
    /\ node = "down" /\ auth = FALSE
    /\ proc = "none" /\ killed = FALSE /\ done = FALSE
    /\ probes = 0 /\ old \in BOOLEAN

-------------------------------------------------------------------------------
(***************************************************************************)
(* Start.  One that fails before the authorisation server listens changes  *)
(* nothing; runNode tries again.                                           *)
(***************************************************************************)

StartAuthServer ==
    /\ node = "down"
    /\ node' = "spawn" /\ auth' = TRUE
    /\ UNCHANGED <<proc, killed, done, probes, old>>

\* cmd.Start, and the goroutines that read the output and wait.
Spawn ==
    /\ node = "spawn"
    /\ node' = "check" /\ proc' = "booting" /\ probes' = 0
    /\ UNCHANGED <<auth, killed, done, old>>

\* A pipe or the process cannot be had.
SpawnFails ==
    /\ node = "spawn"
    /\ node' = "down" /\ auth' = FALSE
    /\ UNCHANGED <<proc, killed, done, probes, old>>

\* Fault: the result of cmd.Wait is taken out of the channel for good.
LeftTaken == FALSE

\* waitReady looks whether the process has ended.  The result goes back, in a
\* channel of its own, for stopLocked to find.
LeftForStop == TRUE

SeesExit ==
    /\ node = "check" /\ probes < MaxProbes
    /\ done
    /\ done' = LeftForStop
    /\ node' = "stop"
    /\ UNCHANGED <<auth, proc, killed, probes, old>>

SeesNoExit ==
    /\ node = "check" /\ probes < MaxProbes
    /\ ~done
    /\ node' = "probe"
    /\ UNCHANGED <<auth, proc, killed, done, probes, old>>

\* The admin endpoint answers: whichever Caddy holds the port.
Ready ==
    /\ node = "probe"
    /\ proc = "serving" \/ old
    /\ node' = "up"
    /\ UNCHANGED <<auth, proc, killed, done, probes, old>>

\* It does not, or not within 500 ms.
NotReady ==
    /\ node = "probe"
    /\ node' = "check" /\ probes' = probes + 1
    /\ UNCHANGED <<auth, proc, killed, done, old>>

\* Ten seconds are over.
GiveUp ==
    /\ node = "check" /\ probes = MaxProbes
    /\ node' = "stop"
    /\ UNCHANGED <<auth, proc, killed, done, probes, old>>

-------------------------------------------------------------------------------
(***************************************************************************)
(* stopLocked, after a failed waitReady and from Close.                    *)
(***************************************************************************)

\* A reload, or the end of v2naive: runNode closes the controller.
Close ==
    /\ node = "up"
    /\ node' = "stop"
    /\ UNCHANGED <<auth, proc, killed, done, probes, old>>

\* Fault: the authorisation server goes before the process does.
AuthFirst == FALSE

\* The authorisation server listens until the process is gone.
AuthKept == auth

\* SIGTERM, which Caddy answers when it likes or not at all.
Terminate ==
    /\ node = "stop"
    /\ node' = "await" /\ auth' = AuthKept
    /\ UNCHANGED <<proc, killed, done, probes, old>>

\* Five seconds are over.
Kill ==
    /\ node = "await"
    /\ node' = "kill" /\ killed' = (proc \in Alive)
    /\ UNCHANGED <<auth, proc, done, probes, old>>

\* Fault: a killed process is not waited for.
GoneOrKilled == done \/ node = "kill"

\* The channel has the result of cmd.Wait.
Gone == done

Stopped ==
    /\ node \in {"await", "kill"}
    /\ Gone
    /\ node' = "down" /\ auth' = FALSE /\ done' = FALSE /\ killed' = FALSE
    /\ UNCHANGED <<proc, probes, old>>

-------------------------------------------------------------------------------
(***************************************************************************)
(* The processes.                                                          *)
(***************************************************************************)

\* Caddy has its ports.  Whether it can share them with another Caddy is its own
\* matter: it may start beside an old one, or exit.
Binds ==
    /\ proc = "booting"
    /\ proc' = "serving"
    /\ UNCHANGED <<node, auth, killed, done, probes, old>>

\* It ends: a port or a line of the Caddyfile, a crash, a signal.
Exits ==
    /\ proc \in Alive
    /\ proc' = "exited"
    /\ UNCHANGED <<node, auth, killed, done, probes, old>>

\* cmd.Wait returns and its result is sent, into a channel with room for it.
Wait ==
    /\ proc = "exited"
    /\ proc' = "none" /\ done' = TRUE
    /\ UNCHANGED <<node, auth, killed, probes, old>>

\* v2naive ends: main returns without waiting for runNode, or is killed.  Caddy
\* goes with it if the service manager sees to that, or stays.  v2naive starts
\* again.
MainExits ==
    /\ node' = "down" /\ auth' = FALSE /\ proc' = "none"
    /\ killed' = FALSE /\ done' = FALSE /\ probes' = 0
    /\ old' \in {FALSE, old \/ proc \in Alive}

OldExits ==
    /\ old
    /\ old' = FALSE
    /\ UNCHANGED <<node, auth, proc, killed, done, probes>>

-------------------------------------------------------------------------------
Start == StartAuthServer \/ Spawn \/ SpawnFails

WaitReady == SeesExit \/ SeesNoExit \/ Ready \/ NotReady \/ GiveUp

Stop == Terminate \/ Kill \/ Stopped

Next ==
    \/ Start \/ WaitReady \/ Close \/ Stop
    \/ Binds \/ Exits \/ Wait
    \/ MainExits \/ OldExits

Spec == Init /\ [][Next]_vars

\* runNode runs, and its timers fire; a killed process ends, and an ended one is
\* reaped.  Nothing makes Caddy bind its ports, answer, or heed SIGTERM.
Fairness ==
    /\ WF_vars(Spawn \/ SpawnFails) /\ WF_vars(WaitReady) /\ WF_vars(Stop)
    /\ WF_vars(killed /\ Exits) /\ WF_vars(Wait)

FairSpec == Spec /\ Fairness

-------------------------------------------------------------------------------
\* The variables have the shape of what they stand for; the channel has room for
\* one result, and it is that of a process that is gone.
TypeOK ==
    /\ node \in Nodes
    /\ proc \in Alive \cup {"none", "exited"}
    /\ auth \in BOOLEAN /\ killed \in BOOLEAN /\ done \in BOOLEAN /\ old \in BOOLEAN
    /\ probes \in 0..MaxProbes
    /\ done => proc = "none"

\* Start and stopLocked: as long as the node's own Caddy can ask whether a device
\* may connect there is a server to ask, through every failure of Start and for
\* the whole of Close.
AuthOutlivesCaddy == proc \in Alive => auth

\* Start's error paths and Close: when runNode goes on to its next server the one
\* before has left neither a process, dead or alive, nor a listener behind.
NothingLeftBehind == node = "down" => proc = "none" /\ ~auth /\ ~done

\* waitReady, which may have taken the result of cmd.Wait, and stopLocked, which
\* waits for it: whatever Caddy does, a Start and a Close come to an end.
StartAndCloseEnd == node \notin {"down", "up"} ~> node \in {"down", "up"}
===============================================================================
