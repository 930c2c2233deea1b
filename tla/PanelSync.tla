------------------------------- MODULE PanelSync -------------------------------
(***************************************************************************)
(* How a node follows the panel: runNode, which builds a client and a      *)
(* controller and replaces both on a reload, Controller.Start with its     *)
(* cached fallback, the nodeInfoMonitor polls, the ETags and the body hash *)
(* the client keeps, and the panel-cache.json file.                        *)
(*                                                                         *)
(* A node configuration and a user list are version numbers of the panel;  *)
(* None is a version nobody has.  There is one current controller, and     *)
(* possibly one closed controller whose last poll is still running: the    *)
(* two share the cache file and the reload channel.  The alive list is     *)
(* left to Devices, and a poll is the only task with a state of its own.   *)
(***************************************************************************)
EXTENDS Naturals

CONSTANTS
    BadConfigs,   \* versions of the configuration that Normalize refuses
    MaxConfig,    \* bound: versions of the configuration
    MaxUsers,     \* bound: versions of the user list
    MaxCrashes,   \* bound: restarts of the process
    MaxAsks,      \* bound: reloads asked for without a new configuration
    LatePolls     \* bound: whether a poll goes on after its controller is closed

ASSUME BoundAssumption ==
    /\ MaxConfig \in Nat \ {0} /\ MaxUsers \in Nat \ {0}
    /\ MaxCrashes \in Nat /\ MaxAsks \in Nat /\ LatePolls \in BOOLEAN
ASSUME ConfigAssumption == BadConfigs \subseteq 2..MaxConfig

VARIABLES
    panel,      \* the versions the panel serves: [config, users]
    ctl,        \* the current ("cur") and the last closed ("old") controller
    served,     \* version of the user list the runtime serves, None if it is down
    reload,     \* reloadCh holds a signal
    cache,      \* panel-cache.json
    tmp,        \* panel-cache.json.tmp
    writer,     \* per controller: the temporary file it is writing
    crashes,    \* restarts so far
    asks,       \* reloads asked for without a new configuration so far
    discarded,  \* history: the client of the current controller holds the ETag
                \* or hash of an answer the controller has thrown away
    overlapped, \* history: two controllers have written the file at once
    disturbed   \* history: the last save failed, or was one of a closed controller

fileVars == <<cache, tmp, writer, overlapped, disturbed>>
vars == <<panel, ctl, served, reload, crashes, asks, discarded, fileVars>>

None == 0
Configs == 1..MaxConfig
Lists == 1..MaxUsers
Controllers == {"cur", "old"}
Other(c) == IF c = "cur" THEN "old" ELSE "cur"

\* A file is missing, truncated, overwritten by two writers, or a snapshot.
File(kind, info, users) == [kind |-> kind, info |-> info, users |-> users]
Missing == File("missing", None, None)
Empty == File("empty", None, None)
Torn == File("torn", None, None)

NoWriter == [step |-> "closed", inode |-> "none"]

\* Where a controller is: in Start, in a poll, or idle, which is running for the
\* current one and over for the closed one.
Starting == {"config0", "users0", "alive0", "save0", "fallback", "start"}
Polling == {"config", "users", "alive", "update", "save", "saveReload"}
Calling == {"config0", "users0", "alive0", "config", "users", "alive"}
Saving == {"save0", "save", "saveReload"}

\* A controller with a new client: no ETag, no hash, nothing fetched.
Fresh == [at |-> "config0", nodeSeen |-> None, usersSeen |-> None,
          info |-> None, users |-> None, got |-> None]

Over == [Fresh EXCEPT !.at = "idle"]

Running == ctl["cur"].at \notin Starting

Init ==
    /\ panel = [config |-> 1, users |-> 1]
    /\ ctl = [c \in Controllers |-> IF c = "cur" THEN Fresh ELSE Over]
    /\ served = None
    /\ reload = FALSE
    /\ cache = Missing
    /\ tmp = Missing
    /\ writer = [c \in Controllers |-> NoWriter]
    /\ crashes = 0
    /\ asks = 0
    /\ discarded = FALSE
    /\ overlapped = FALSE
    /\ disturbed = FALSE

-------------------------------------------------------------------------------
(***************************************************************************)
(* The panel: an administrator changes the configuration or the users.     *)
(***************************************************************************)
PanelChange ==
    /\ \/ panel.config < MaxConfig /\ panel' = [panel EXCEPT !.config = @ + 1]
       \/ panel.users < MaxUsers /\ panel' = [panel EXCEPT !.users = @ + 1]
    /\ UNCHANGED <<ctl, served, reload, crashes, asks, discarded, fileVars>>

-------------------------------------------------------------------------------
(***************************************************************************)
(* The calls of a poll and of startupPanelSnapshot.  The snapshot Start     *)
(* collects is held in the fields it ends up in.                           *)
(***************************************************************************)
At(c, where) == ctl[c].at = where

\* A closed controller is forgotten when its poll is over.
Move(c, controller) ==
    ctl' = [ctl EXCEPT ![c] = IF c = "old" /\ controller.at = "idle" THEN Over ELSE controller]

Go(c, where) == Move(c, [ctl[c] EXCEPT !.at = where])

\* Where a call that fails leads: to the cache in Start, to the next poll else.
GivesUp(c) == IF ctl[c].at \in Starting THEN "fallback" ELSE "idle"

\* GetNodeInfo: the hash and the ETag are stored before the body is decoded.
ConfigAnswer(c) ==
    /\ ctl[c].at \in {"config0", "config"}
    /\ LET v == panel.config
           seen == [ctl[c] EXCEPT !.nodeSeen = v]
           new == v # ctl[c].nodeSeen
           next == CASE ~new                         -> IF At(c, "config0") THEN "fallback" ELSE "users"
                     [] new /\ v \in BadConfigs      -> GivesUp(c)
                     [] new /\ v \notin BadConfigs   -> IF At(c, "config0") THEN "users0" ELSE "saveReload"
       IN  Move(c, [seen EXCEPT !.at = next,
                                !.info = IF next = "users0" THEN v ELSE @,
                                !.got = IF next = "saveReload" THEN v ELSE None])
    /\ UNCHANGED <<panel, served, reload, crashes, asks, discarded, fileVars>>

\* GetUserList: None is a 304, which Start does not accept.
UsersAnswer(c) ==
    /\ ctl[c].at \in {"users0", "users"}
    /\ LET v == panel.users
           seen == [ctl[c] EXCEPT !.usersSeen = v]
           new == v # ctl[c].usersSeen
       IN  Move(c, CASE At(c, "users")           -> [seen EXCEPT !.at = "alive",
                                                                 !.got = IF new THEN v ELSE None]
                     [] At(c, "users0") /\ new   -> [seen EXCEPT !.at = "alive0", !.users = v]
                     [] At(c, "users0") /\ ~new  -> [seen EXCEPT !.at = "fallback"])
    /\ UNCHANGED <<panel, served, reload, crashes, asks, discarded, fileVars>>

\* GetUserAlive: every error but a deadline is an empty list.
AliveAnswer(c) ==
    /\ ctl[c].at \in {"alive0", "alive"}
    /\ Go(c, CASE At(c, "alive0")                        -> "save0"
               [] At(c, "alive") /\ ctl[c].got # None    -> "update"
               [] At(c, "alive") /\ ctl[c].got = None    -> "save")
    /\ UNCHANGED <<panel, served, reload, crashes, asks, discarded, fileVars>>

\* Fault: the ETag of a user list is stored although it could not be decoded.
CallFailsSeen(c) ==
    /\ ctl[c].at \in Calling
    /\ Move(c, [ctl[c] EXCEPT !.at = GivesUp(c), !.got = None,
                              !.usersSeen = IF At(c, "users") THEN panel.users ELSE @])
    /\ discarded' = (discarded \/ (c = "cur" /\ At(c, "alive") /\ ctl[c].got # None))
    /\ UNCHANGED <<panel, served, reload, crashes, asks, fileVars>>

\* A call fails.  When the user list was new and the alive list fails, the poll
\* returns without the list, whose ETag is already stored.
CallFails(c) ==
    /\ ctl[c].at \in Calling
    /\ Move(c, [ctl[c] EXCEPT !.at = GivesUp(c), !.got = None])
    /\ discarded' = (discarded \/ (c = "cur" /\ At(c, "alive") /\ ctl[c].got # None))
    /\ UNCHANGED <<panel, served, reload, crashes, asks, fileVars>>

\* Fault: the runtime of a closed controller is the one that serves.
UpdateServing(c) ==
    /\ At(c, "update")
    /\ Move(c, [ctl[c] EXCEPT !.at = "save", !.users = ctl[c].got, !.got = None])
    /\ served' = ctl[c].got
    /\ UNCHANGED <<panel, reload, crashes, asks, discarded, fileVars>>

\* Fault: a poll that brings a new list does not save it.
UpdateUnsaved(c) ==
    /\ At(c, "update")
    /\ Move(c, [ctl[c] EXCEPT !.at = "idle", !.users = ctl[c].got, !.got = None])
    /\ served' = IF c = "cur" THEN ctl[c].got ELSE served
    /\ UNCHANGED <<panel, reload, crashes, asks, discarded, fileVars>>

\* UpdateUsers of the runtime and of the controller; the runtime of a closed
\* controller is closed.
Update(c) ==
    /\ At(c, "update")
    /\ Move(c, [ctl[c] EXCEPT !.at = "save", !.users = ctl[c].got, !.got = None])
    /\ served' = IF c = "cur" THEN ctl[c].got ELSE served
    /\ UNCHANGED <<panel, reload, crashes, asks, discarded, fileVars>>

-------------------------------------------------------------------------------
(***************************************************************************)
(* savePanelSnapshot.  WriteFile truncates the temporary file and writes   *)
(* it, Rename puts it in place.  Two writers may have opened one file, and *)
(* a writer keeps writing the file it has opened whatever its name is now. *)
(***************************************************************************)
ToSave(c) ==
    File("snapshot", IF At(c, "saveReload") THEN ctl[c].got ELSE ctl[c].info, ctl[c].users)

\* Fault: a new configuration is saved and no reload is asked for.
SavedNoReload(c) ==
    /\ Go(c, IF At(c, "save0") THEN "start" ELSE "idle")
    /\ UNCHANGED reload

\* What follows a save, whether it succeeded or not.
Saved(c) ==
    /\ Move(c, [ctl[c] EXCEPT !.at = IF At(c, "save0") THEN "start" ELSE "idle", !.got = None])
    /\ reload' = (reload \/ At(c, "saveReload"))

SaveOpen(c) ==
    /\ ctl[c].at \in Saving
    /\ writer[c] = NoWriter
    /\ tmp' = Empty
    /\ writer' = [writer EXCEPT ![c] = [step |-> "opened", inode |-> "tmp"]]
    /\ overlapped' = (overlapped \/ writer[Other(c)] # NoWriter)
    /\ UNCHANGED <<panel, ctl, served, reload, crashes, asks, discarded, cache, disturbed>>

\* Over an empty file the bytes are the snapshot, over another they may mix.
SaveWrite(c) ==
    LET written(file) == IF file = Empty THEN {ToSave(c)} ELSE {ToSave(c), Torn}
    IN  /\ writer[c].step = "opened"
        /\ writer' = [writer EXCEPT ![c].step = "written"]
        /\ IF writer[c].inode = "tmp" THEN tmp' \in written(tmp) ELSE UNCHANGED tmp
        /\ IF writer[c].inode = "cache" THEN cache' \in written(cache) ELSE UNCHANGED cache
        /\ UNCHANGED <<panel, ctl, served, reload, crashes, asks, discarded, overlapped, disturbed>>

\* Fault: the file is put in place before it is written.
SaveRenameEarly(c) ==
    /\ writer[c].step \in {"opened", "written"}
    /\ tmp # Missing
    /\ cache' = tmp
    /\ tmp' = Missing
    /\ writer' = [writer EXCEPT ![c] = NoWriter]
    /\ disturbed' = (c = "old")
    /\ Saved(c)
    /\ UNCHANGED <<panel, served, crashes, asks, discarded, overlapped>>

SaveRename(c) ==
    LET renamed == [tmp |-> "cache", cache |-> "gone", gone |-> "gone", none |-> "none"]
    IN  /\ writer[c].step = "written"
        /\ tmp # Missing
        /\ cache' = tmp
        /\ tmp' = Missing
        /\ writer' = [d \in Controllers |->
                         IF d = c THEN NoWriter
                         ELSE [writer[d] EXCEPT !.inode = renamed[@]]]
        /\ disturbed' = (c = "old")
        /\ Saved(c)
        /\ UNCHANGED <<panel, served, crashes, asks, discarded, overlapped>>

\* An error of the file system, or a temporary file the other writer has taken.
SaveFails(c) ==
    /\ ctl[c].at \in Saving
    /\ writer' = [writer EXCEPT ![c] = NoWriter]
    /\ disturbed' = TRUE
    /\ Saved(c)
    /\ UNCHANGED <<panel, served, crashes, asks, discarded, cache, tmp, overlapped>>

-------------------------------------------------------------------------------
(***************************************************************************)
(* runNode.                                                                *)
(***************************************************************************)

\* Start fails: ten seconds later there is a new client and a new controller.
Retry ==
    /\ Move("cur", Fresh)
    /\ discarded' = FALSE

\* The panel answers 401 or 403: Start does not fall back on the cache.
Refused ==
    /\ ctl["cur"].at \in {"config0", "users0"}
    /\ Retry
    /\ UNCHANGED <<panel, served, reload, crashes, asks, fileVars>>

\* startupPanelSnapshot falls back on the cache, with a client that has already
\* seen what the panel did answer; without a readable cache Start fails.
Fallback ==
    /\ At("cur", "fallback")
    /\ \/ /\ cache.kind = "snapshot"
          /\ Move("cur", [ctl["cur"] EXCEPT !.at = "start", !.info = cache.info, !.users = cache.users])
          /\ discarded' = \/ ctl["cur"].nodeSeen \notin {None, cache.info} \cup BadConfigs
                          \/ ctl["cur"].usersSeen \notin {None, cache.users}
          /\ disturbed' = FALSE
       \/ /\ cache.kind # "snapshot"
          /\ Retry
          /\ UNCHANGED disturbed
    /\ UNCHANGED <<panel, served, reload, crashes, asks, cache, tmp, writer, overlapped>>

\* The runtime is created and started with the users, and the tasks start.
StartServer ==
    /\ At("cur", "start")
    /\ Go("cur", "idle")
    /\ served' = ctl["cur"].users
    /\ UNCHANGED <<panel, reload, crashes, asks, discarded, fileVars>>

\* No certificate, no port, no Caddy: Start fails.
StartFails ==
    /\ At("cur", "start")
    /\ Retry
    /\ UNCHANGED <<panel, served, reload, crashes, asks, fileVars>>

Poll ==
    /\ At("cur", "idle")
    /\ Go("cur", "config")
    /\ UNCHANGED <<panel, served, reload, crashes, asks, discarded, fileVars>>

\* A task of a controller runs out of time, or the certificate is renewed.
AskReload ==
    /\ Running \/ ctl["old"].at \in Polling
    /\ reload' = TRUE
    /\ asks < MaxAsks
    /\ asks' = asks + 1
    /\ UNCHANGED <<panel, ctl, served, crashes, discarded, fileVars>>

\* Controller.Close waits for no task: a poll goes on, and a task whose timer
\* has fired may begin one although its Stop is closed.  One such poll at most.
Reload ==
    /\ Running
    /\ reload
    /\ reload' = FALSE
    /\ served' = None
    /\ discarded' = FALSE
    /\ \/ /\ LatePolls
          /\ At("old", "idle")
          /\ \/ ctl' = [cur |-> Fresh, old |-> ctl["cur"]]
             \/ At("cur", "idle") /\ ctl' = [cur |-> Fresh, old |-> [ctl["cur"] EXCEPT !.at = "config"]]
          /\ writer' = [cur |-> NoWriter, old |-> writer["cur"]]
       \/ /\ At("cur", "idle")
          /\ Move("cur", Fresh)
          /\ UNCHANGED writer
    /\ UNCHANGED <<panel, crashes, asks, cache, tmp, overlapped, disturbed>>

\* The process is killed; the files stay.
Crash ==
    /\ crashes < MaxCrashes
    /\ crashes' = crashes + 1
    /\ ctl' = [cur |-> Fresh, old |-> Over]
    /\ served' = None
    /\ reload' = FALSE
    /\ discarded' = FALSE
    /\ writer' = [c \in Controllers |-> NoWriter]
    /\ UNCHANGED <<panel, asks, cache, tmp, overlapped, disturbed>>

-------------------------------------------------------------------------------
Answer(c) == ConfigAnswer(c) \/ UsersAnswer(c) \/ AliveAnswer(c)

Call(c) == Answer(c) \/ CallFails(c)

Save(c) == SaveOpen(c) \/ SaveWrite(c) \/ SaveRename(c) \/ SaveFails(c)

Node == Refused \/ Fallback \/ StartServer \/ StartFails \/ Poll \/ AskReload \/ Reload

Next ==
    \/ \E c \in Controllers : Call(c) \/ Update(c) \/ Save(c)
    \/ Node
    \/ PanelChange
    \/ Crash

Spec == Init /\ [][Next]_vars

\* The snapshot Start works with is what the panel has answered.
Fetched ==
    ctl["cur"].info = ctl["cur"].nodeSeen /\ ctl["cur"].users = ctl["cur"].usersSeen

\* Goroutines run.  The panel may fail a call again and again, and so may Start,
\* but each call of the current controller is answered in the end, and Start
\* succeeds in the end, with a fetched snapshot too.
Fairness ==
    /\ SF_vars(Reload) /\ WF_vars(Fallback) /\ WF_vars(Poll)
    /\ SF_vars(StartServer) /\ SF_vars(Fetched /\ StartServer)
    /\ \A call \in Calling : SF_vars(At("cur", call) /\ Answer("cur"))
    /\ \A c \in Controllers : WF_vars(Call(c)) /\ WF_vars(Update(c)) /\ WF_vars(Save(c))

FairSpec == Spec /\ Fairness

-------------------------------------------------------------------------------
\* Versions are versions of the panel, the runtime is up exactly while the
\* current controller runs, and only a controller that saves has a file open.
TypeOK ==
    /\ panel \in [config : Configs, users : Lists]
    /\ \A c \in Controllers :
          /\ ctl[c].at \in Starting \cup Polling \cup {"idle"}
          /\ {ctl[c].nodeSeen, ctl[c].info} \subseteq Configs \cup {None}
          /\ {ctl[c].usersSeen, ctl[c].users} \subseteq Lists \cup {None}
          /\ ctl[c].got \in Configs \cup Lists \cup {None}
          /\ writer[c] # NoWriter => ctl[c].at \in Saving
    /\ served \in Lists \cup {None}
    /\ (served # None) = Running
    /\ {cache, tmp} \subseteq {Missing, Empty, Torn}
                              \cup {File("snapshot", i, u) : i \in Configs, u \in Lists}
    /\ crashes \in 0..MaxCrashes
    /\ asks \in 0..MaxAsks

AtRest == At("cur", "idle") /\ ~reload

\* nodeInfoMonitor: between polls the runtime serves the list the controller
\* holds, and the controller is at the list and the configuration whose ETag and
\* hash the client sends, or the next poll would not bring the newer one.
NothingMissedAtRest ==
    AtRest /\ ~discarded =>
        /\ served = ctl["cur"].users
        /\ ctl["cur"].usersSeen \in {None, ctl["cur"].users}
        /\ ctl["cur"].nodeSeen \in {None, ctl["cur"].info} \cup BadConfigs

\* savePanelSnapshot: the file a crash leaves behind is missing or a whole
\* snapshot, unless two controllers wrote it at the same time.
CacheReadable == overlapped \/ cache.kind \in {"missing", "snapshot"}

\* saveCurrentPanelSnapshot: between polls the file is what the node serves, so
\* that a restart without the panel restores it, unless the last save failed or
\* a closed controller has written the file too.
CacheIsServed ==
    AtRest /\ ~overlapped /\ ~disturbed =>
        cache = File("snapshot", ctl["cur"].info, ctl["cur"].users)

\* A node whose panel answers again and again ends up with the panel's users and
\* with its configuration, or with the last one it supports, unless an answer was
\* thrown away, or nothing was ever saved that a first start could fall back on.
EventuallyCurrent ==
    []<>(\/ discarded
         \/ panel.config \in BadConfigs /\ cache = Missing
         \/ /\ served = panel.users
            /\ panel.config \in {ctl["cur"].info} \cup BadConfigs)

\* "hot update of the users" (README.md:15): a node whose panel answers again and
\* again ends up serving the panel's users.
HotUpdate == []<>(served = panel.users)
===============================================================================
