-------------------------------- MODULE NodeLife --------------------------------
(***************************************************************************)
(* A node from runNode to Caddy: Controller.Start asks for the certificate *)
(* and then starts the server, the renewal task runs while the server is   *)
(* up, a reload closes both and starts over.  Caddy reads the certificate  *)
(* and the key when it boots, without the lock of those who write them.    *)
(***************************************************************************)
EXTENDS CaddyProcess, CertFiles, Sequences

VARIABLE loaded     \* what Caddy has read: the certificate, then the key

nodeVars == <<vars, certVars, loaded>>

NodeInit == Init /\ CertInit /\ loaded = <<>>

-------------------------------------------------------------------------------
\* Controller.Start: RequestCert ...
RequestCert ==
    /\ node = "down" /\ BeginStart
    /\ UNCHANGED <<vars, loaded>>

\* ... and, when it returns nil, the server.
StartServer ==
    /\ work["start"].at = "ready"
    /\ StartAuthServer
    /\ work' = [work EXCEPT !["start"] = Rest]
    /\ UNCHANGED <<files, info, task, reload, spoiled, loaded>>

\* Start has returned nil: the tasks begin.
StartTasks == Ready /\ StartTask /\ UNCHANGED loaded

\* The node monitor has read a new configuration.
AskReload ==
    /\ node = "up"
    /\ reload' = TRUE
    /\ UNCHANGED <<files, info, work, task, spoiled, vars, loaded>>

\* runNode takes the signal and closes the controller.
Reload ==
    /\ reload /\ reload' = FALSE
    /\ Close /\ CloseTask
    /\ UNCHANGED loaded

\* Caddy loads the certificate and then the key.
Reads ==
    /\ proc \in Alive
    /\ \/ loaded = <<>> /\ loaded' = <<certFile>>
       \/ Len(loaded) = 1 /\ loaded' = Append(loaded, keyFile)
    /\ UNCHANGED <<vars, certVars>>

CaddyExits == Exits /\ loaded' = <<>> /\ UNCHANGED certVars

ProcessExits == MainExits /\ LoseWork /\ loaded' = <<>>

\* The steps that the certificate has no part in.
ServerStep ==
    /\ \/ Spawn \/ SpawnFails
       \/ SeesExit \/ SeesNoExit \/ NotReady \/ GiveUp
       \/ Stop \/ Binds \/ Wait \/ OldExits
    /\ UNCHANGED <<certVars, loaded>>

NodeNext ==
    \/ RequestCert \/ StartServer \/ StartTasks \/ AskReload \/ Reload
    \/ Reads \/ CaddyExits \/ ProcessExits
    \/ ServerStep
    \/ CertStep /\ UNCHANGED <<vars, loaded>>

NodeSpec == NodeInit /\ [][NodeNext]_nodeVars

FairNodeSpec == NodeSpec /\ Fairness

-------------------------------------------------------------------------------
\* A pair Caddy serves.
Serves(n) == loaded = <<n, n>>

\* RenewCert, triggerReload and runNode: whoever renews the certificate, at
\* whatever moment of a Start, a serving Caddy has the pair that is on disk or a
\* reload is on its way.
RenewedIsServed ==
    \A n \in Pairs :
        /\ node \in {"check", "probe", "up"} /\ Serves(n) /\ n # certFile
        => reload \/ spoiled \/ \E a \in Agents : work[a].at \in Writing \cup {"tell"}
===============================================================================
