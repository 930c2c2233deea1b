---------------------------- MODULE PanelSyncProofs ----------------------------
(***************************************************************************)
(* How a node follows the panel, for every history of the panel: between   *)
(* polls the node serves what its ETags and hash say it has, and the cache *)
(* file is a whole snapshot, the one that is served.                       *)
(***************************************************************************)
EXTENDS PanelSync, TLAPS

Places == Starting \cup Polling \cup {"idle"}

Controller ==
    [at : Places,
     nodeSeen : Configs \cup {None}, usersSeen : Lists \cup {None},
     info : Configs \cup {None}, users : Lists \cup {None},
     got : Configs \cup Lists \cup {None}]

\* What a controller k has fetched by the time it is where it is.
Holds(c, k) ==
    /\ k.at \in {"alive0", "save0", "start"} \cup Polling \/ (c = "cur" /\ k.at = "idle") =>
          k.info \in Configs /\ k.users \in Lists
    /\ k.at = "users0" => k.info \in Configs
    /\ k.at = "saveReload" => k.got \in Configs
    /\ k.at = "alive" => k.got \in Lists \cup {None}
    /\ k.at = "update" => k.got \in Lists

\* The node: the runtime of a running controller serves the controller's list.
NodeTyped ==
    /\ panel \in [config : Configs, users : Lists]
    /\ ctl \in [Controllers -> Controller]
    /\ \A c \in Controllers : Holds(c, ctl[c])
    /\ ctl["old"].at \notin Starting
    /\ served = IF Running THEN ctl["cur"].users ELSE None
    /\ crashes \in 0..MaxCrashes
    /\ asks \in 0..MaxAsks

Snapshots == {File("snapshot", i, u) : i \in Configs, u \in Lists}
Writers == {NoWriter} \cup [step : {"opened", "written"}, inode : {"tmp", "cache", "gone"}]

FilesTyped ==
    /\ cache \in {Missing, Empty, Torn} \cup Snapshots
    /\ tmp \in {Missing, Empty, Torn} \cup Snapshots
    /\ writer \in [Controllers -> Writers]
    /\ \A c \in Controllers : writer[c] # NoWriter => ctl[c].at \in Saving

\* A writer that has not been overlapped has the temporary file for itself.
Alone(c) ==
    /\ writer[Other(c)] = NoWriter
    /\ writer[c].inode = "tmp"
    /\ tmp = IF writer[c].step = "opened" THEN Empty ELSE ToSave(c)

OneWriter ==
    \/ overlapped
    \/ /\ cache \in {Missing} \cup Snapshots
       /\ \A c \in Controllers : writer[c] # NoWriter => Alone(c)

\* The file holds what the controller k serves, except between the fetch or the
\* update of a list and its save.
OnFile(k) ==
    \/ overlapped \/ disturbed \/ reload
    \/ k.at \in {"config0", "users0", "alive0", "save0", "fallback", "save"}
    \/ cache = File("snapshot", k.info, k.users)

\* The ETag of the client is the one of the list the controller k has, or is
\* about to have.
SeenUsers(k) ==
    /\ k.at \in {"alive0", "save0"} => k.usersSeen = k.users
    /\ k.at \in {"start", "idle", "config", "users", "save", "saveReload"} =>
          discarded \/ k.usersSeen \in {None, k.users}
    /\ k.at \in {"alive", "update"} =>
          \/ discarded
          \/ k.got = None /\ k.usersSeen \in {None, k.users}
          \/ k.usersSeen = k.got

\* The hash of the client is the one of the configuration of the controller k,
\* or a reload is on its way.
SeenConfig(k) ==
    /\ k.at \in {"users0", "alive0", "save0"} => k.nodeSeen = k.info
    /\ k.at \in {"start", "idle", "config", "users", "alive", "update", "save"} =>
          discarded \/ reload \/ k.nodeSeen \in {None, k.info} \cup BadConfigs

Followed(k) == OnFile(k) /\ SeenUsers(k) /\ SeenConfig(k)

SyncInv == NodeTyped /\ FilesTyped /\ OneWriter /\ Followed(ctl["cur"])

-------------------------------------------------------------------------------
(***************************************************************************)
(* Controllers.                                                            *)
(***************************************************************************)

\* An edited controller is a controller.
LEMMA Edited ==
    ASSUME NEW k \in Controller, NEW a \in Places,
           NEW n \in Configs \cup {None}, NEW s \in Lists \cup {None},
           NEW i \in Configs \cup {None}, NEW u \in Lists \cup {None},
           NEW g \in Configs \cup Lists \cup {None}
    PROVE  /\ [k EXCEPT !.nodeSeen = n] \in Controller
           /\ [k EXCEPT !.usersSeen = s] \in Controller
           /\ [k EXCEPT !.at = a] \in Controller
           /\ [k EXCEPT !.at = a, !.got = g] \in Controller
           /\ [k EXCEPT !.at = a, !.users = u] \in Controller
           /\ [k EXCEPT !.at = a, !.users = u, !.got = g] \in Controller
           /\ [k EXCEPT !.at = a, !.info = i, !.users = u] \in Controller
           /\ [k EXCEPT !.at = a, !.info = i, !.got = g] \in Controller
<1>1. [k EXCEPT !.nodeSeen = n] \in Controller
  BY DEF Controller
<1>2. [k EXCEPT !.usersSeen = s] \in Controller
  BY DEF Controller
<1>3. [k EXCEPT !.at = a] \in Controller
  BY DEF Controller
<1>4. [k EXCEPT !.at = a, !.got = g] \in Controller
  BY DEF Controller
<1>5. [k EXCEPT !.at = a, !.users = u] \in Controller
  BY DEF Controller
<1>6. [k EXCEPT !.at = a, !.users = u, !.got = g] \in Controller
  BY DEF Controller
<1>7. [k EXCEPT !.at = a, !.info = i, !.users = u] \in Controller
  BY DEF Controller
<1>8. [k EXCEPT !.at = a, !.info = i, !.got = g] \in Controller
  BY DEF Controller
<1>9. QED
  BY <1>1, <1>2, <1>3, <1>4, <1>5, <1>6, <1>7, <1>8

\* A new controller knows nothing, and a forgotten one holds nothing.
LEMMA FreshFacts ==
    /\ Fresh \in Controller /\ Over \in Controller
    /\ Fresh.at = "config0" /\ Over.at = "idle"
    /\ \A c \in Controllers : Holds(c, Fresh)
    /\ Holds("old", Over)
BY DEF Fresh, Over, Controller, Places, Holds, Starting, Polling

\* Move.
LEMMA Moved ==
    ASSUME ctl \in [Controllers -> Controller], NEW c \in Controllers, NEW r \in Controller,
           Move(c, r)
    PROVE  /\ ctl' \in [Controllers -> Controller]
           /\ ctl'[c] = IF c = "old" /\ r.at = "idle" THEN Over ELSE r
           /\ \A d \in Controllers : d # c => ctl'[d] = ctl[d]
BY FreshFacts DEF Move

\* A step of a controller that has no file open.
LEMMA StepKeeps ==
    ASSUME SyncInv, NEW c \in Controllers, NEW r \in Controller, Move(c, r),
           ctl[c].at \notin Saving, Holds(c, r),
           c = "old" => /\ r.at \notin Starting /\ UNCHANGED <<served, disturbed>>
                        /\ discarded => discarded',
           c = "cur" => /\ served' = IF r.at \in Starting THEN None ELSE r.users
                        /\ Followed(r)',
           UNCHANGED <<panel, reload, crashes, asks, cache, tmp, writer, overlapped>>
    PROVE  SyncInv'
<1> USE DEF SyncInv, Controllers
<1>1. /\ ctl' \in [Controllers -> Controller]
      /\ ctl'[c] = IF c = "old" /\ r.at = "idle" THEN Over ELSE r
      /\ \A d \in Controllers : d # c => ctl'[d] = ctl[d]
  BY Moved DEF NodeTyped
<1>2. NodeTyped'
  <2>1. \A d \in Controllers : Holds(d, ctl'[d])
    BY <1>1, FreshFacts DEF NodeTyped
  <2>2. ctl'["old"].at \notin Starting
    BY <1>1, FreshFacts DEF NodeTyped, Starting
  <2>3. served' = IF Running' THEN ctl'["cur"].users ELSE None
    BY <1>1 DEF NodeTyped, Running
  <2>4. QED
    BY <1>1, <2>1, <2>2, <2>3 DEF NodeTyped, Holds
<1>3. writer[c] = NoWriter
  BY DEF FilesTyped
<1>4. FilesTyped'
  BY <1>1, <1>3 DEF FilesTyped
<1>5. OneWriter'
  BY <1>1, <1>3 DEF OneWriter, Alone, ToSave, At
<1>6. Followed(ctl["cur"])'
  BY <1>1 DEF Followed, OnFile, SeenUsers, SeenConfig
<1>7. QED
  BY <1>2, <1>4, <1>5, <1>6

-------------------------------------------------------------------------------
(***************************************************************************)
(* Polls and startupPanelSnapshot.                                         *)
(***************************************************************************)

\* GetNodeInfo.
LEMMA ConfigKeeps == ASSUME SyncInv, NEW c \in Controllers, ConfigAnswer(c) PROVE SyncInv'
<1> DEFINE v == panel.config
           new == v # ctl[c].nodeSeen
           next == CASE ~new -> IF At(c, "config0") THEN "fallback" ELSE "users"
                     [] new /\ v \in BadConfigs -> GivesUp(c)
                     [] new /\ v \notin BadConfigs ->
                           IF At(c, "config0") THEN "users0" ELSE "saveReload"
           seen == [ctl[c] EXCEPT !.nodeSeen = v]
           i == IF next = "users0" THEN v ELSE seen.info
           g == IF next = "saveReload" THEN v ELSE None
           k == [seen EXCEPT !.at = next, !.info = i, !.got = g]
<1>1. /\ Move(c, k) /\ ctl[c].at \in {"config0", "config"}
      /\ UNCHANGED <<panel, served, reload, crashes, asks, discarded, fileVars>>
  BY DEF ConfigAnswer
<1>2. /\ ctl[c] \in Controller /\ v \in Configs /\ Holds(c, ctl[c])
      /\ ctl[c].at = "config0" => c = "cur"
  BY <1>1 DEF SyncInv, NodeTyped, Controllers, Starting
<1>3. next \in IF ctl[c].at = "config0" THEN {"fallback", "users0"}
                                        ELSE {"users", "idle", "saveReload"}
  BY <1>1 DEF At, GivesUp, Starting
<1>4. /\ next = "users" => v = ctl[c].nodeSeen
      /\ next = "idle" => v \in BadConfigs
  BY <1>1 DEF At, GivesUp, Starting
<1>5. PICK r \in Controller :
         /\ Move(c, r)
         /\ r.nodeSeen \in Configs /\ r.usersSeen = ctl[c].usersSeen /\ r.users = ctl[c].users
         /\ \/ /\ ctl[c].at = "config0" /\ r.at = "fallback"
            \/ /\ ctl[c].at = "config0" /\ r.at = "users0" /\ r.info = r.nodeSeen
            \/ /\ ctl[c].at = "config" /\ r.at = "users" /\ r.info = ctl[c].info
               /\ r.nodeSeen = ctl[c].nodeSeen
            \/ /\ ctl[c].at = "config" /\ r.at = "idle" /\ r.info = ctl[c].info
               /\ r.nodeSeen \in BadConfigs
            \/ /\ ctl[c].at = "config" /\ r.at = "saveReload" /\ r.info = ctl[c].info
               /\ r.got \in Configs
  <2> HIDE DEF next, v
  <2>1. seen \in Controller
    BY <1>2 DEF Controller
  <2>2. next \in Places
    BY <1>3 DEF Places, Starting, Polling
  <2>3. i \in Configs \cup {None} /\ g \in Configs \cup Lists \cup {None}
    BY <1>2, <2>1 DEF Controller
  <2>4. /\ seen.nodeSeen = v /\ seen.info = ctl[c].info /\ seen.users = ctl[c].users
        /\ seen.usersSeen = ctl[c].usersSeen
    BY <1>2 DEF Controller
  <2>5. /\ i = IF next = "users0" THEN v ELSE ctl[c].info
        /\ g = IF next = "saveReload" THEN v ELSE None
    BY <2>4
  <2> HIDE DEF seen, i, g
  <2>6. k \in Controller
    BY <2>1, <2>2, <2>3, Edited, ZenonT(60)
  <2>7. /\ k.at = next /\ k.nodeSeen = v /\ k.usersSeen = ctl[c].usersSeen
        /\ k.users = ctl[c].users /\ k.info = i /\ k.got = g
    BY <2>1, <2>4 DEF Controller
  <2> HIDE DEF k
  <2>8. QED
    BY <1>1, <1>2, <1>3, <1>4, <2>5, <2>6, <2>7
<1> HIDE DEF k, v, new, next, seen, i, g
<1>6. Holds(c, r)
  BY <1>2, <1>5 DEF Holds, Polling
<1>7. c = "cur" => served' = IF r.at \in Starting THEN None ELSE r.users
  BY <1>1, <1>5 DEF SyncInv, NodeTyped, Running, Starting
<1>8. c = "cur" => Followed(r)'
  <2>1. c = "cur" => Followed(ctl[c]) /\ UNCHANGED <<cache, overlapped, disturbed>>
    BY <1>1 DEF SyncInv, fileVars
  <2>2. c = "cur" => OnFile(r)'
    BY <1>1, <1>5, <2>1 DEF Followed, OnFile
  <2>3. c = "cur" => SeenUsers(r)'
    BY <1>1, <1>5, <2>1 DEF Followed, SeenUsers
  <2>4. c = "cur" => SeenConfig(r)'
    BY <1>1, <1>5, <2>1 DEF Followed, SeenConfig
  <2>5. QED
    BY <2>2, <2>3, <2>4 DEF Followed
<1>9. c = "old" => r.at \notin Starting
  BY <1>2, <1>5 DEF Starting
<1>10. ctl[c].at \notin Saving
  BY <1>1 DEF Saving
<1>11. QED
  BY <1>1, <1>5, <1>6, <1>7, <1>8, <1>9, <1>10, StepKeeps DEF fileVars

\* GetUserList.
LEMMA UsersKeeps == ASSUME SyncInv, NEW c \in Controllers, UsersAnswer(c) PROVE SyncInv'
<1> DEFINE v == panel.users
           new == v # ctl[c].usersSeen
           seen == [ctl[c] EXCEPT !.usersSeen = v]
<1>1. /\ ctl[c].at \in {"users0", "users"}
      /\ UNCHANGED <<panel, served, reload, crashes, asks, discarded, fileVars>>
  BY DEF UsersAnswer
<1>2. /\ ctl[c] \in Controller /\ v \in Lists /\ Holds(c, ctl[c]) /\ v # None
      /\ ctl[c].at = "users0" => c = "cur"
  BY <1>1 DEF SyncInv, NodeTyped, Controllers, Starting, Lists, None
<1>3. \E r \in Controller :
         /\ Move(c, r)
         /\ r.nodeSeen = ctl[c].nodeSeen /\ r.info = ctl[c].info /\ r.usersSeen = v
         /\ \/ /\ ctl[c].at = "users" /\ r.at = "alive" /\ r.users = ctl[c].users
               /\ r.got \in {None, v} /\ (r.got = None => v = ctl[c].usersSeen)
            \/ ctl[c].at = "users0" /\ r.at = "alive0" /\ r.users = v
            \/ ctl[c].at = "users0" /\ r.at = "fallback"
  <2>1. seen \in Controller /\ {"alive", "alive0", "fallback"} \subseteq Places
    BY <1>2, Edited DEF Places, Starting, Polling
  <2>2. CASE At(c, "users")
    <3> DEFINE g == IF new THEN v ELSE None
               r == [seen EXCEPT !.at = "alive", !.got = g]
    <3>1. Move(c, r)
      BY <2>2 DEF UsersAnswer, At
    <3>2. g \in Configs \cup Lists \cup {None} /\ g \in {None, v} /\ (g = None => ~new)
      BY <1>2
    <3> HIDE DEF g
    <3>3. r \in Controller
      BY <2>1, <3>2, Edited, ZenonT(60)
    <3>4. /\ r.nodeSeen = ctl[c].nodeSeen /\ r.info = ctl[c].info /\ r.usersSeen = v
          /\ r.at = "alive" /\ r.users = ctl[c].users /\ r.got = g
      BY <1>2 DEF Controller
    <3> HIDE DEF r
    <3>5. QED
      BY <2>2, <3>1, <3>2, <3>3, <3>4 DEF At
  <2>3. CASE At(c, "users0") /\ new
    <3> DEFINE r == [seen EXCEPT !.at = "alive0", !.users = v]
    <3>1. Move(c, r)
      BY <2>3 DEF UsersAnswer, At
    <3>2. r \in Controller
      BY <1>2, <2>1, Edited
    <3>3. /\ r.nodeSeen = ctl[c].nodeSeen /\ r.info = ctl[c].info /\ r.usersSeen = v
          /\ r.at = "alive0" /\ r.users = v
      BY <1>2 DEF Controller
    <3> HIDE DEF r
    <3>4. QED
      BY <2>3, <3>1, <3>2, <3>3 DEF At
  <2>4. CASE At(c, "users0") /\ ~new
    <3> DEFINE r == [seen EXCEPT !.at = "fallback"]
    <3>1. Move(c, r)
      BY <2>4 DEF UsersAnswer, At
    <3>2. r \in Controller
      BY <1>2, <2>1, Edited
    <3>3. /\ r.nodeSeen = ctl[c].nodeSeen /\ r.info = ctl[c].info /\ r.usersSeen = v
          /\ r.at = "fallback"
      BY <1>2 DEF Controller
    <3> HIDE DEF r
    <3>4. QED
      BY <2>4, <3>1, <3>2, <3>3 DEF At
  <2>5. QED
    BY <1>1, <2>2, <2>3, <2>4 DEF At
<1> HIDE DEF v, new, seen
<1>4. PICK r \in Controller :
         /\ Move(c, r)
         /\ r.nodeSeen = ctl[c].nodeSeen /\ r.info = ctl[c].info /\ r.usersSeen = v
         /\ \/ /\ ctl[c].at = "users" /\ r.at = "alive" /\ r.users = ctl[c].users
               /\ r.got \in {None, v} /\ (r.got = None => v = ctl[c].usersSeen)
            \/ ctl[c].at = "users0" /\ r.at = "alive0" /\ r.users = v
            \/ ctl[c].at = "users0" /\ r.at = "fallback"
  BY <1>3
<1>5. Holds(c, r)
  BY <1>2, <1>4 DEF Holds, Polling
<1>6. c = "cur" => served' = IF r.at \in Starting THEN None ELSE r.users
  BY <1>1, <1>4 DEF SyncInv, NodeTyped, Running, Starting
<1>7. c = "cur" => Followed(r)'
  <2>1. c = "cur" => Followed(ctl[c]) /\ UNCHANGED <<cache, overlapped, disturbed>>
    BY <1>1 DEF SyncInv, fileVars
  <2>2. c = "cur" => OnFile(r)'
    BY <1>1, <1>4, <2>1 DEF Followed, OnFile
  <2>3. c = "cur" => SeenUsers(r)'
    BY <1>1, <1>4, <2>1 DEF Followed, SeenUsers
  <2>4. c = "cur" => SeenConfig(r)'
    BY <1>1, <1>4, <2>1 DEF Followed, SeenConfig
  <2>5. QED
    BY <2>2, <2>3, <2>4 DEF Followed
<1>8. c = "old" => r.at \notin Starting
  BY <1>2, <1>4 DEF Starting
<1>9. ctl[c].at \notin Saving
  BY <1>1 DEF Saving
<1>10. QED
  BY <1>1, <1>4, <1>5, <1>6, <1>7, <1>8, <1>9, StepKeeps DEF fileVars

\* GetUserAlive.
LEMMA AliveKeeps == ASSUME SyncInv, NEW c \in Controllers, AliveAnswer(c) PROVE SyncInv'
<1>1. /\ ctl[c].at \in {"alive0", "alive"}
      /\ UNCHANGED <<panel, served, reload, crashes, asks, discarded, fileVars>>
  BY DEF AliveAnswer
<1>2. /\ ctl[c] \in Controller /\ Holds(c, ctl[c])
      /\ ctl[c].at = "alive0" => c = "cur"
  BY <1>1 DEF SyncInv, NodeTyped, Controllers, Starting
<1> DEFINE next == CASE At(c, "alive0")                     -> "save0"
                     [] At(c, "alive") /\ ctl[c].got # None -> "update"
                     [] At(c, "alive") /\ ctl[c].got = None -> "save"
           k == [ctl[c] EXCEPT !.at = next]
<1>3. Move(c, k)
  BY DEF AliveAnswer, Go
<1>4. \/ ctl[c].at = "alive0" /\ next = "save0"
      \/ ctl[c].at = "alive" /\ ctl[c].got # None /\ next = "update"
      \/ ctl[c].at = "alive" /\ ctl[c].got = None /\ next = "save"
  BY <1>1 DEF At
<1> HIDE DEF next
<1>5. k \in Controller
  BY <1>2, <1>4, Edited DEF Places, Starting, Polling
<1>6. /\ k.at = next /\ k.nodeSeen = ctl[c].nodeSeen /\ k.usersSeen = ctl[c].usersSeen
      /\ k.info = ctl[c].info /\ k.users = ctl[c].users /\ k.got = ctl[c].got
  BY <1>2 DEF Controller
<1> HIDE DEF k
<1>7. PICK r \in Controller :
         /\ Move(c, r)
         /\ r.nodeSeen = ctl[c].nodeSeen /\ r.usersSeen = ctl[c].usersSeen
         /\ r.info = ctl[c].info /\ r.users = ctl[c].users /\ r.got = ctl[c].got
         /\ \/ ctl[c].at = "alive0" /\ r.at = "save0"
            \/ ctl[c].at = "alive" /\ ctl[c].got # None /\ r.at = "update"
            \/ ctl[c].at = "alive" /\ ctl[c].got = None /\ r.at = "save"
  BY <1>3, <1>4, <1>5, <1>6
<1>8. Holds(c, r)
  BY <1>2, <1>7 DEF Holds, Polling
<1>9. c = "cur" => served' = IF r.at \in Starting THEN None ELSE r.users
  BY <1>1, <1>7 DEF SyncInv, NodeTyped, Running, Starting
<1>10. c = "cur" => Followed(r)'
  <2>1. c = "cur" => Followed(ctl[c]) /\ UNCHANGED <<cache, overlapped, disturbed>>
    BY <1>1 DEF SyncInv, fileVars
  <2>2. c = "cur" => OnFile(r)'
    BY <1>1, <1>7, <2>1 DEF Followed, OnFile
  <2>3. c = "cur" => SeenUsers(r)'
    BY <1>1, <1>7, <2>1 DEF Followed, SeenUsers
  <2>4. c = "cur" => SeenConfig(r)'
    BY <1>1, <1>7, <2>1 DEF Followed, SeenConfig
  <2>5. QED
    BY <2>2, <2>3, <2>4 DEF Followed
<1>11. c = "old" => r.at \notin Starting
  BY <1>2, <1>7 DEF Starting
<1>12. ctl[c].at \notin Saving
  BY <1>1 DEF Saving
<1>13. QED
  BY <1>1, <1>7, <1>8, <1>9, <1>10, <1>11, <1>12, StepKeeps DEF fileVars

\* A call that fails: a list whose ETag is stored and which is thrown away is
\* remembered as discarded.
LEMMA FailKeeps == ASSUME SyncInv, NEW c \in Controllers, CallFails(c) PROVE SyncInv'
<1>1. /\ ctl[c].at \in Calling
      /\ discarded' = (discarded \/ (c = "cur" /\ ctl[c].at = "alive" /\ ctl[c].got # None))
      /\ UNCHANGED <<panel, served, reload, crashes, asks, fileVars>>
  BY DEF CallFails, At
<1>2. /\ ctl[c] \in Controller /\ Holds(c, ctl[c])
      /\ ctl[c].at \in Starting => c = "cur"
  BY <1>1 DEF SyncInv, NodeTyped, Controllers
<1> DEFINE k == [ctl[c] EXCEPT !.at = GivesUp(c), !.got = None]
<1>3. Move(c, k)
  BY DEF CallFails
<1>4. GivesUp(c) = IF ctl[c].at \in Starting THEN "fallback" ELSE "idle"
  BY DEF GivesUp
<1>5. k \in Controller
  BY <1>2, <1>4, Edited DEF Places, Starting, Polling
<1>6. /\ k.at = GivesUp(c) /\ k.nodeSeen = ctl[c].nodeSeen /\ k.usersSeen = ctl[c].usersSeen
      /\ k.info = ctl[c].info /\ k.users = ctl[c].users
  BY <1>2 DEF Controller
<1> HIDE DEF k
<1>7. PICK r \in Controller :
         /\ Move(c, r)
         /\ r.nodeSeen = ctl[c].nodeSeen /\ r.usersSeen = ctl[c].usersSeen
         /\ r.info = ctl[c].info /\ r.users = ctl[c].users
         /\ \/ ctl[c].at \in Starting /\ r.at = "fallback"
            \/ ctl[c].at \in {"config", "users", "alive"} /\ r.at = "idle"
  BY <1>1, <1>3, <1>4, <1>5, <1>6 DEF Calling, Starting
<1>8. Holds(c, r)
  BY <1>2, <1>7 DEF Holds, Polling
<1>9. c = "cur" => served' = IF r.at \in Starting THEN None ELSE r.users
  BY <1>1, <1>7 DEF SyncInv, NodeTyped, Running, Starting
<1>10. c = "cur" => Followed(r)'
  <2>1. c = "cur" => Followed(ctl[c]) /\ UNCHANGED <<cache, overlapped, disturbed>>
    BY <1>1 DEF SyncInv, fileVars
  <2>2. c = "cur" => OnFile(r)'
    BY <1>1, <1>7, <2>1 DEF Followed, OnFile
  <2>3. c = "cur" => SeenUsers(r)'
    BY <1>1, <1>7, <2>1 DEF Followed, SeenUsers
  <2>4. c = "cur" => SeenConfig(r)'
    BY <1>1, <1>7, <2>1 DEF Followed, SeenConfig
  <2>5. QED
    BY <2>2, <2>3, <2>4 DEF Followed
<1>11. (c = "old" => r.at \notin Starting) /\ (discarded => discarded')
  BY <1>1, <1>2, <1>7 DEF Starting
<1>12. ctl[c].at \notin Saving
  BY <1>1 DEF Saving, Calling
<1>13. QED
  BY <1>1, <1>7, <1>8, <1>9, <1>10, <1>11, <1>12, StepKeeps DEF fileVars

\* UpdateUsers.
LEMMA UpdateKeeps == ASSUME SyncInv, NEW c \in Controllers, Update(c) PROVE SyncInv'
<1>1. /\ ctl[c].at = "update"
      /\ served' = IF c = "cur" THEN ctl[c].got ELSE served
      /\ UNCHANGED <<panel, reload, crashes, asks, discarded, fileVars>>
  BY DEF Update, At
<1>2. ctl[c] \in Controller /\ Holds(c, ctl[c]) /\ ctl[c].got \in Lists
  BY <1>1 DEF SyncInv, NodeTyped, Holds
<1> DEFINE k == [ctl[c] EXCEPT !.at = "save", !.users = ctl[c].got, !.got = None]
<1>3. Move(c, k)
  BY DEF Update
<1>4. k \in Controller
  BY <1>2, Edited DEF Places, Polling
<1>5. /\ k.at = "save" /\ k.nodeSeen = ctl[c].nodeSeen /\ k.usersSeen = ctl[c].usersSeen
      /\ k.info = ctl[c].info /\ k.users = ctl[c].got
  BY <1>2 DEF Controller
<1> HIDE DEF k
<1>6. PICK r \in Controller :
         /\ Move(c, r) /\ r.at = "save"
         /\ r.nodeSeen = ctl[c].nodeSeen /\ r.usersSeen = ctl[c].usersSeen
         /\ r.info = ctl[c].info /\ r.users = ctl[c].got
  BY <1>3, <1>4, <1>5
<1>7. Holds(c, r)
  BY <1>1, <1>2, <1>6 DEF Holds, Polling
<1>8. c = "cur" => served' = IF r.at \in Starting THEN None ELSE r.users
  BY <1>1, <1>6 DEF Starting
<1>9. c = "cur" => Followed(r)'
  <2>1. c = "cur" => Followed(ctl[c]) /\ UNCHANGED <<cache, overlapped, disturbed>>
    BY <1>1 DEF SyncInv, fileVars
  <2>2. None \notin Lists
    BY DEF None, Lists
  <2>3. c = "cur" => OnFile(r)'
    BY <1>6 DEF OnFile
  <2>4. c = "cur" => SeenUsers(r)'
    BY <1>1, <1>2, <1>6, <2>1, <2>2 DEF Followed, SeenUsers
  <2>5. c = "cur" => SeenConfig(r)'
    BY <1>1, <1>6, <2>1 DEF Followed, SeenConfig
  <2>6. QED
    BY <2>3, <2>4, <2>5 DEF Followed
<1>10. ctl[c].at \notin Saving /\ r.at \notin Starting
  BY <1>1, <1>6 DEF Saving, Starting
<1>11. c = "old" => UNCHANGED <<served, disturbed, discarded>>
  BY <1>1 DEF fileVars
<1>12. QED
  BY <1>1, <1>6, <1>7, <1>8, <1>9, <1>10, <1>11, StepKeeps DEF fileVars

-------------------------------------------------------------------------------
(***************************************************************************)
(* runNode.                                                                *)
(***************************************************************************)

\* A new controller has nothing to follow yet.
LEMMA FreshFollowed == Followed(Fresh) /\ Followed(Fresh)'
BY FreshFacts DEF Followed, OnFile, SeenUsers, SeenConfig

\* Start fails, for whatever reason, and is tried again.
LEMMA RetryKeeps ==
    ASSUME SyncInv, Move("cur", Fresh), ctl["cur"].at \in Starting \ Saving,
           UNCHANGED <<panel, served, reload, crashes, asks, cache, tmp, writer, overlapped>>
    PROVE  SyncInv'
<1>1. "cur" \in Controllers /\ Fresh \in Controller /\ Holds("cur",
    Fresh) /\ Fresh.at \in Starting
  BY FreshFacts DEF Controllers, Starting
<1>2. served' = None
  BY DEF SyncInv, NodeTyped, Running
<1>3. QED
  BY <1>1, <1>2, FreshFollowed, StepKeeps

\* Start falls back on the cache.
LEMMA FallbackKeeps == ASSUME SyncInv, Fallback PROVE SyncInv'
<1> USE DEF fileVars
<1>1. /\ At("cur", "fallback") /\ ctl["cur"] \in Controller /\ "cur" \in Controllers
      /\ UNCHANGED <<panel, served, reload, crashes, asks, cache, tmp, writer, overlapped>>
  BY DEF Fallback, SyncInv, NodeTyped, Controllers
<1>2. ctl["cur"].at \in Starting \ Saving
  BY <1>1 DEF At, Starting, Saving
<1>3. CASE cache.kind # "snapshot"
  BY <1>1, <1>2, <1>3, RetryKeeps DEF Fallback, Retry
<1>4. CASE cache.kind = "snapshot"
  <2>1. PICK i \in Configs, u \in Lists : cache = File("snapshot", i, u)
    BY <1>4 DEF SyncInv, FilesTyped, Snapshots, Missing, Empty, Torn, File
  <2>2. cache.info = i /\ cache.users = u
    BY <2>1 DEF File
  <2> DEFINE k == [ctl["cur"] EXCEPT !.at = "start", !.info = cache.info, !.users = cache.users]
  <2>3. Move("cur", k) /\ disturbed' = FALSE
    BY <1>4 DEF Fallback
  <2>4. /\ k \in Controller /\ k.at = "start" /\ k.info = i /\ k.users = u
        /\ k.nodeSeen = ctl["cur"].nodeSeen /\ k.usersSeen = ctl["cur"].usersSeen
    <3>1. [ctl["cur"] EXCEPT !.at = "start", !.info = i, !.users = u] \in Controller
      BY <1>1, Edited DEF Places, Starting
    <3>2. QED
      BY <1>1, <2>2, <3>1 DEF Controller
  <2> HIDE DEF k
  <2>5. PICK r \in Controller :
           /\ Move("cur", r) /\ r.at = "start" /\ r.info = i /\ r.users = u
           /\ r.nodeSeen = ctl["cur"].nodeSeen /\ r.usersSeen = ctl["cur"].usersSeen
    BY <2>3, <2>4
  <2>6. \/ discarded'
        \/ /\ r.nodeSeen \in {None, i} \cup BadConfigs
           /\ r.usersSeen \in {None, u}
    BY <1>4, <2>2, <2>5 DEF Fallback
  <2>7. Followed(r)'
    BY <1>1, <2>1, <2>5, <2>6 DEF Followed, OnFile, SeenUsers, SeenConfig
  <2>8. Holds("cur", r)
    BY <2>5 DEF Holds, Polling
  <2>9. served' = None /\ r.at \in Starting
    BY <1>1, <1>2, <2>5 DEF SyncInv, NodeTyped, Running, Starting
  <2>10. QED
    BY <1>1, <1>2, <2>5, <2>7, <2>8, <2>9, StepKeeps
<1>5. QED
  BY <1>3, <1>4

\* The runtime starts, or the next poll does.
LEMMA StartKeeps == ASSUME SyncInv, StartServer \/ Poll PROVE SyncInv'
<1> USE DEF fileVars
<1> DEFINE place == IF At("cur", "start") THEN "idle" ELSE "config"
           k == [ctl["cur"] EXCEPT !.at = place]
<1>1. /\ ctl["cur"] \in Controller /\ "cur" \in Controllers /\ Holds("cur", ctl["cur"])
      /\ Followed(ctl["cur"])
      /\ UNCHANGED <<panel, reload, crashes, asks, discarded, fileVars>>
  BY DEF SyncInv, NodeTyped, Controllers, StartServer, Poll
<1>2. /\ Move("cur", k)
      /\ \/ ctl["cur"].at = "start" /\ place = "idle" /\ served' = ctl["cur"].users
         \/ ctl["cur"].at = "idle" /\ place = "config" /\ served' = served
  BY DEF StartServer, Poll, Go, At
<1> HIDE DEF place
<1>3. /\ k \in Controller /\ k.at = place /\ k.info = ctl["cur"].info
      /\ k.users = ctl["cur"].users /\ k.nodeSeen = ctl["cur"].nodeSeen
      /\ k.usersSeen = ctl["cur"].usersSeen
  <2>1. place \in Places
    BY <1>2 DEF Places, Polling
  <2>2. QED
    BY <1>1, <2>1, Edited DEF Controller
<1> HIDE DEF k
<1>4. PICK r \in Controller :
         /\ Move("cur", r)
         /\ r.info = ctl["cur"].info /\ r.users = ctl["cur"].users
         /\ r.nodeSeen = ctl["cur"].nodeSeen /\ r.usersSeen = ctl["cur"].usersSeen
         /\ \/ ctl["cur"].at = "start" /\ r.at = "idle" /\ served' = ctl["cur"].users
            \/ ctl["cur"].at = "idle" /\ r.at = "config" /\ served' = served
  BY <1>2, <1>3
<1>5. Holds("cur", r)
  BY <1>1, <1>4 DEF Holds, Polling
<1>6. Followed(r)'
  BY <1>1, <1>4 DEF Followed, OnFile, SeenUsers, SeenConfig
<1>7. served' = r.users /\ r.at \notin Starting
  BY <1>4 DEF SyncInv, NodeTyped, Running, Starting
<1>8. ctl["cur"].at \notin Saving
  BY <1>4 DEF Saving
<1>9. QED
  BY <1>1, <1>4, <1>5, <1>6, <1>7, <1>8, StepKeeps

\* A reload closes the current controller, whose poll may go on as the old one.
LEMMA ReloadKeeps == ASSUME SyncInv, Reload PROVE SyncInv'
<1> USE DEF SyncInv, Controllers
<1>1. /\ Running /\ served' = None
      /\ UNCHANGED <<panel, crashes, asks, cache, tmp, overlapped, disturbed>>
  BY DEF Reload
<1>2. ASSUME At("cur", "idle"), Move("cur", Fresh), UNCHANGED writer PROVE SyncInv'
  <2>1. /\ ctl' \in [Controllers -> Controller]
        /\ ctl'["cur"] = Fresh /\ ctl'["old"] = ctl["old"]
    BY <1>2, FreshFacts, Moved DEF NodeTyped
  <2>2. writer["cur"] = NoWriter
    BY <1>2 DEF FilesTyped, At, Saving
  <2>3. NodeTyped'
    BY <1>1, <2>1, FreshFacts DEF NodeTyped, Running, Starting, Holds
  <2>4. FilesTyped' /\ OneWriter'
    BY <1>1, <1>2, <2>1, <2>2 DEF FilesTyped, OneWriter, Alone, ToSave, At
  <2>5. QED
    BY <2>1, <2>3, <2>4, FreshFollowed DEF Followed, OnFile, SeenUsers, SeenConfig
<1>3. ASSUME At("old", "idle"), NEW last \in Controller,
             ctl' = [cur |-> Fresh, old |-> last],
             writer' = [cur |-> NoWriter, old |-> writer["cur"]],
             \/ last = ctl["cur"]
             \/ At("cur", "idle") /\ last = [ctl["cur"] EXCEPT !.at = "config"]
      PROVE  SyncInv'
  <2>1. ctl' \in [Controllers -> Controller] /\ ctl'["cur"] = Fresh /\ ctl'["old"] = last
    BY <1>3, FreshFacts
  <2>2. writer["old"] = NoWriter /\ writer'["cur"] = NoWriter /\ writer'["old"] = writer["cur"]
    BY <1>3 DEF FilesTyped, At, Saving
  <2>3. /\ last.info = ctl["cur"].info /\ last.users = ctl["cur"].users
        /\ last.got = ctl["cur"].got
        /\ last.at = ctl["cur"].at \/ (At("cur", "idle") /\ last.at = "config")
    BY <1>3 DEF NodeTyped, Controller
  <2>4. Holds("old", last) /\ last.at \notin Starting
    BY <1>1, <2>3 DEF NodeTyped, Holds, Running, Starting, Polling, At
  <2>5. NodeTyped'
    BY <1>1, <2>1, <2>4, FreshFacts DEF NodeTyped, Running, Starting, Holds
  <2>6. writer["cur"] # NoWriter => last.at = ctl["cur"].at /\ last.at \in Saving
    BY <2>3 DEF FilesTyped, At, Saving
  <2>7. FilesTyped'
    <3>1. writer' \in [Controllers -> Writers]
      BY <1>3 DEF FilesTyped, Writers
    <3>2. QED
      BY <1>1, <2>1, <2>2, <2>6, <3>1 DEF FilesTyped
  <2>8. OneWriter'
    <3>1. writer["cur"] # NoWriter => ToSave("old")' = ToSave("cur")
      BY <2>1, <2>3, <2>6 DEF ToSave, At
    <3>2. QED
      BY <1>1, <2>2, <3>1 DEF OneWriter, Alone, Other
  <2>9. QED
    BY <2>1, <2>5, <2>7, <2>8, FreshFollowed DEF Followed, OnFile, SeenUsers, SeenConfig
<1>4. ctl["cur"] \in Controller /\ [ctl["cur"] EXCEPT !.at = "config"] \in Controller
  BY Edited DEF NodeTyped, Places, Polling
<1>5. QED
  BY <1>2, <1>3, <1>4 DEF Reload

\* A crash leaves the files, and no controller.
LEMMA CrashKeeps == ASSUME SyncInv, Crash PROVE SyncInv'
<1> USE DEF SyncInv, Controllers
<1>1. /\ ctl' = [cur |-> Fresh, old |-> Over] /\ served' = None
      /\ writer' = [c \in Controllers |-> NoWriter]
      /\ UNCHANGED <<panel, asks, cache, tmp, overlapped, disturbed>>
      /\ crashes < MaxCrashes /\ crashes' = crashes + 1
  BY DEF Crash
<1>2. ctl' \in [Controllers -> Controller] /\ ctl'["cur"] = Fresh /\ ctl'["old"] = Over
  BY <1>1, FreshFacts
<1>3. crashes' \in 0..MaxCrashes
  BY <1>1, BoundAssumption DEF NodeTyped
<1>4. NodeTyped'
  BY <1>1, <1>2, <1>3, FreshFacts DEF NodeTyped, Running, Starting, Holds
<1>5. FilesTyped' /\ OneWriter'
  BY <1>1 DEF FilesTyped, Writers, OneWriter
<1>6. QED
  BY <1>2, <1>4, <1>5, FreshFollowed DEF Followed, OnFile, SeenUsers, SeenConfig

\* The panel changes, and a reload is asked for, without the node's doing.
LEMMA OutsideKeeps == ASSUME SyncInv, PanelChange \/ AskReload PROVE SyncInv'
<1> USE DEF SyncInv, fileVars
<1>1. UNCHANGED <<ctl, served, crashes, discarded, fileVars>> /\ (reload => reload')
  BY DEF PanelChange, AskReload
<1>2. panel' \in [config : Configs, users : Lists]
  BY BoundAssumption DEF PanelChange, AskReload, NodeTyped, Configs, Lists
<1>3. asks' \in 0..MaxAsks
  BY BoundAssumption DEF PanelChange, AskReload, NodeTyped
<1>4. NodeTyped'
  BY <1>1, <1>2, <1>3 DEF NodeTyped, Running, Holds
<1>5. FilesTyped' /\ OneWriter'
  BY <1>1 DEF FilesTyped, OneWriter, Alone, ToSave, At
<1>6. Followed(ctl["cur"])'
  BY <1>1 DEF Followed, OnFile, SeenUsers, SeenConfig
<1>7. QED
  BY <1>4, <1>5, <1>6

-------------------------------------------------------------------------------
(***************************************************************************)
(* savePanelSnapshot.                                                      *)
(***************************************************************************)

\* What a controller saves is a snapshot.
LEMMA SavesSnapshot ==
    ASSUME SyncInv, NEW c \in Controllers, ctl[c].at \in Saving
    PROVE  ToSave(c) \in Snapshots
BY DEF SyncInv, NodeTyped, Holds, Saving, Polling, ToSave, At, Snapshots

\* A writer that is not closed is opened or written, and holds a file.
LEMMA WriterFacts ==
    ASSUME NEW w \in Writers
    PROVE  /\ w = NoWriter <=> w.step = "closed"
           /\ w # NoWriter => w.step \in {"opened", "written"} /\ w.inode \in {"tmp", "cache",
               "gone"}
           /\ NoWriter.inode = "none"
BY DEF Writers, NoWriter

\* The truncated file is not yet a snapshot, and the other writer is noticed.
LEMMA OpenKeeps == ASSUME SyncInv, NEW c \in Controllers, SaveOpen(c) PROVE SyncInv'
<1> USE DEF SyncInv, Controllers
<1>1. /\ ctl[c].at \in Saving /\ writer[c] = NoWriter /\ tmp' = Empty
      /\ writer' = [writer EXCEPT ![c] = [step |-> "opened", inode |-> "tmp"]]
      /\ overlapped' = (overlapped \/ writer[Other(c)] # NoWriter)
      /\ UNCHANGED <<panel, ctl, served, reload, crashes, asks, discarded, cache, disturbed>>
  BY DEF SaveOpen
<1>2. NodeTyped'
  BY <1>1 DEF NodeTyped, Running, Holds
<1>3. FilesTyped'
  BY <1>1 DEF FilesTyped, Writers
<1>4. OneWriter'
  <2>1. SUFFICES ASSUME ~overlapped' PROVE OneWriter'
    BY DEF OneWriter
  <2>2. ~overlapped /\ writer[Other(c)] = NoWriter /\ Other(c) \in Controllers /\ Other(c) # c
    BY <1>1, <2>1 DEF Other
  <2>3. writer'[Other(c)] = NoWriter /\ writer'[c] = [step |-> "opened", inode |-> "tmp"]
    BY <1>1, <2>2 DEF FilesTyped
  <2>4. Alone(c)'
    BY <1>1, <2>3 DEF Alone
  <2>5. QED
    BY <1>1, <2>2, <2>3, <2>4 DEF OneWriter, Other
<1>5. Followed(ctl["cur"])'
  BY <1>1 DEF Followed, OnFile, SeenUsers, SeenConfig
<1>6. QED
  BY <1>2, <1>3, <1>4, <1>5

\* The bytes go into the file the writer has opened, whatever its name is now.
LEMMA WriteKeeps == ASSUME SyncInv, NEW c \in Controllers, SaveWrite(c) PROVE SyncInv'
<1> USE DEF SyncInv, Controllers
<1>1. /\ writer[c].step = "opened"
      /\ writer' = [writer EXCEPT ![c].step = "written"]
      /\ UNCHANGED <<panel, ctl, served, reload, crashes, asks, discarded, overlapped, disturbed>>
  BY DEF SaveWrite
<1>2. writer[c] \in Writers /\ writer[c] # NoWriter /\ ctl[c].at \in Saving
  BY <1>1 DEF FilesTyped, NoWriter
<1>3. ToSave(c) \in Snapshots
  BY <1>2, SavesSnapshot
<1>4. /\ tmp' \in {tmp, ToSave(c), Torn} /\ cache' \in {cache, ToSave(c), Torn}
      /\ writer[c].inode = "tmp" => cache' = cache /\ (tmp = Empty => tmp' = ToSave(c))
  BY DEF SaveWrite
<1>5. NodeTyped'
  BY <1>1 DEF NodeTyped, Running, Holds
<1>6. /\ writer'[c] = [step |-> "written", inode |-> writer[c].inode]
      /\ \A d \in Controllers : d # c => writer'[d] = writer[d]
      /\ writer' \in [Controllers -> Writers]
  BY <1>1, <1>2, WriterFacts DEF FilesTyped, Writers
<1>7. FilesTyped'
  BY <1>1, <1>2, <1>3, <1>4, <1>6 DEF FilesTyped
<1>8. OneWriter'
  <2>1. SUFFICES ASSUME ~overlapped PROVE OneWriter'
    BY <1>1 DEF OneWriter
  <2>2. Alone(c) /\ cache \in {Missing} \cup Snapshots
    BY <1>2, <2>1 DEF OneWriter
  <2>3. tmp' = ToSave(c) /\ cache' = cache /\ writer'[Other(c)] = NoWriter
    BY <1>1, <1>4, <1>6, <2>2 DEF Alone, Other
  <2>4. ToSave(c)' = ToSave(c)
    BY <1>1 DEF ToSave, At
  <2>5. Alone(c)'
    BY <1>6, <2>2, <2>3, <2>4 DEF Alone
  <2>6. QED
    BY <2>2, <2>3, <2>5 DEF OneWriter, Other
<1>9. Followed(ctl["cur"])'
  <2>1. overlapped \/ cache' = cache
    BY <1>2, <1>4 DEF OneWriter, Alone
  <2>2. QED
    BY <1>1, <2>1 DEF Followed, OnFile, SeenUsers, SeenConfig
<1>10. QED
  BY <1>5, <1>7, <1>8, <1>9

\* What follows a save, for a save that leaves the files in order.
LEMMA SavedKeeps ==
    ASSUME SyncInv, NEW c \in Controllers, ctl[c].at \in Saving, Saved(c),
           UNCHANGED <<panel, served, crashes, asks, discarded, overlapped>>,
           {cache', tmp'} \subseteq {Missing, Empty, Torn} \cup Snapshots,
           writer' \in [Controllers -> Writers], writer'[c] = NoWriter,
           \A d \in Controllers : writer'[d] # NoWriter => writer[d] # NoWriter,
           \/ overlapped
           \/ /\ cache' \in {Missing} \cup Snapshots
              /\ \A d \in Controllers : writer'[d] # NoWriter => writer'[d] = writer[d] /\ tmp' = tmp,
           disturbed' \/ (c = "cur" /\ (overlapped \/ cache' = ToSave(c)))
    PROVE  SyncInv'
<1> USE DEF SyncInv, Controllers
<1> DEFINE place == IF At(c, "save0") THEN "start" ELSE "idle"
           k == [ctl[c] EXCEPT !.at = place, !.got = None]
<1>1. Move(c, k) /\ ((reload \/ ctl[c].at = "saveReload") => reload')
  BY DEF Saved, At
<1>2. place = IF ctl[c].at = "save0" THEN "start" ELSE "idle"
  BY DEF At
<1>3. ctl[c] \in Controller /\ Holds(c, ctl[c]) /\ (ctl[c].at = "save0" => c = "cur")
  BY DEF NodeTyped, Starting
<1> HIDE DEF place
<1>4. /\ k \in Controller /\ k.at = place /\ k.info = ctl[c].info
      /\ k.users = ctl[c].users /\ k.nodeSeen = ctl[c].nodeSeen /\ k.usersSeen = ctl[c].usersSeen
  <2>1. place \in Places
    BY <1>2 DEF Places, Starting
  <2>2. QED
    BY <1>3, <2>1, Edited, ZenonT(60) DEF Controller
<1> HIDE DEF k
<1>5. PICK r \in Controller :
         /\ Move(c, r)
         /\ r.at = IF ctl[c].at = "save0" THEN "start" ELSE "idle"
         /\ r.info = ctl[c].info /\ r.users = ctl[c].users
         /\ r.nodeSeen = ctl[c].nodeSeen /\ r.usersSeen = ctl[c].usersSeen
  BY <1>1, <1>2, <1>4
<1>6. /\ ctl' \in [Controllers -> Controller]
      /\ ctl'[c] = IF c = "old" /\ r.at = "idle" THEN Over ELSE r
      /\ \A d \in Controllers : d # c => ctl'[d] = ctl[d]
  BY <1>5, Moved DEF NodeTyped
<1>7. NodeTyped'
  <2>1. Holds(c, r) /\ ((c = "old") => r.at \notin Starting)
    BY <1>3, <1>5 DEF Holds, Saving, Starting, Polling
  <2>2. \A d \in Controllers : Holds(d, ctl'[d])
    BY <1>6, <2>1, FreshFacts DEF NodeTyped
  <2>3. ctl'["old"].at \notin Starting
    BY <1>6, <2>1, FreshFacts DEF NodeTyped, Starting
  <2>4. served' = IF Running' THEN ctl'["cur"].users ELSE None
    BY <1>5, <1>6 DEF NodeTyped, Running, Starting, Saving
  <2>5. QED
    BY <1>6, <2>2, <2>3, <2>4 DEF NodeTyped, Holds
<1>8. FilesTyped'
  BY <1>6 DEF FilesTyped
<1>9. OneWriter'
  BY <1>6 DEF OneWriter, Alone, ToSave, At, Other
<1>10. Followed(ctl["cur"])'
  <2>1. CASE c = "old"
    BY <1>1, <1>6, <2>1 DEF Followed, OnFile, SeenUsers, SeenConfig
  <2>2. CASE c = "cur"
    <3>1. ctl'["cur"] = r /\ r.at \in {"start", "idle"}
      BY <1>5, <1>6, <2>2
    <3>2. OnFile(ctl["cur"])'
      BY <1>1, <1>5, <2>2, <3>1 DEF OnFile, ToSave, At
    <3>3. SeenUsers(ctl["cur"])'
      BY <1>1, <1>5, <2>2, <3>1 DEF Followed, SeenUsers, Saving
    <3>4. SeenConfig(ctl["cur"])'
      BY <1>1, <1>5, <2>2, <3>1 DEF Followed, SeenConfig, Saving
    <3>5. QED
      BY <3>2, <3>3, <3>4 DEF Followed
  <2>3. QED
    BY <2>1, <2>2
<1>11. QED
  BY <1>7, <1>8, <1>9, <1>10

\* Rename puts the temporary file in place, whoever has written it.
LEMMA RenameKeeps == ASSUME SyncInv, NEW c \in Controllers, SaveRename(c) PROVE SyncInv'
<1> USE DEF SyncInv, Controllers
<1> DEFINE renamed == [tmp |-> "cache", cache |-> "gone", gone |-> "gone", none |-> "none"]
<1>1. /\ writer[c].step = "written" /\ Saved(c) /\ cache' = tmp /\ tmp' = Missing
      /\ disturbed' = (c = "old") /\ tmp # Missing
      /\ UNCHANGED <<panel, served, crashes, asks, discarded, overlapped>>
  BY DEF SaveRename
<1>2. writer' = [d \in Controllers |-> IF d = c THEN NoWriter
                                       ELSE [writer[d] EXCEPT !.inode = renamed[@]]]
  BY DEF SaveRename
<1>3. writer \in [Controllers -> Writers] /\ writer[c] # NoWriter /\ ctl[c].at \in Saving
  BY <1>1 DEF FilesTyped, NoWriter
<1>4. /\ renamed["tmp"] = "cache" /\ renamed["cache"] = "gone" /\ renamed["gone"] = "gone"
      /\ renamed["none"] = "none"
  OBVIOUS
<1> HIDE DEF renamed
<1>5. \A d \in Controllers : d # c =>
          /\ writer[d] = NoWriter => writer'[d] = NoWriter
          /\ writer[d] # NoWriter => writer'[d] \in Writers
  BY <1>2, <1>3, <1>4 DEF Writers, NoWriter
<1>6. writer' \in [Controllers -> Writers] /\ writer'[c] = NoWriter
  BY <1>2, <1>3, <1>5 DEF Writers
<1>7. ~overlapped => cache' = ToSave(c) /\ \A d \in Controllers : writer'[d] = NoWriter
  BY <1>1, <1>3, <1>5, <1>6 DEF OneWriter, Alone, Other
<1>8. ToSave(c) \in Snapshots
  BY <1>3, SavesSnapshot
<1>9. {cache', tmp'} \subseteq {Missing, Empty, Torn} \cup Snapshots
  BY <1>1 DEF FilesTyped
<1>10. disturbed' \/ (c = "cur" /\ (overlapped \/ cache' = ToSave(c)))
  BY <1>1, <1>7
<1>11. \A d \in Controllers : writer'[d] # NoWriter => writer[d] # NoWriter
  BY <1>5, <1>6
<1>12. QED
  BY <1>1, <1>3, <1>6, <1>7, <1>8, <1>9, <1>10, <1>11, SavedKeeps

\* A save that fails is remembered as a disturbance.
LEMMA SaveFailsKeeps == ASSUME SyncInv, NEW c \in Controllers, SaveFails(c) PROVE SyncInv'
<1> USE DEF SyncInv, Controllers
<1>1. /\ ctl[c].at \in Saving /\ writer' = [writer EXCEPT ![c] = NoWriter] /\ disturbed' /\ Saved(c)
      /\ UNCHANGED <<panel, served, crashes, asks, discarded, cache, tmp, overlapped>>
  BY DEF SaveFails
<1>2. /\ writer' \in [Controllers -> Writers] /\ writer'[c] = NoWriter
      /\ \A d \in Controllers : d # c => writer'[d] = writer[d]
  BY <1>1 DEF FilesTyped, Writers
<1>3. {cache', tmp'} \subseteq {Missing, Empty, Torn} \cup Snapshots
  BY <1>1 DEF FilesTyped
<1>4. overlapped \/ cache' \in {Missing} \cup Snapshots
  BY <1>1 DEF OneWriter
<1>5. QED
  BY <1>1, <1>2, <1>3, <1>4, SavedKeeps

-------------------------------------------------------------------------------
\* The panel, the polls, the saves, the reloads and the crashes keep the node
\* following the panel: what the client says it has seen is what the controller
\* has, and what the controller has is on file or about to be.
THEOREM SyncInvariant == Spec => []SyncInv
<1>1. Init => SyncInv
  <2>1. SUFFICES ASSUME Init PROVE SyncInv
    OBVIOUS
  <2>2. ctl["cur"] = Fresh /\ ctl["old"] = Over /\ ctl \in [Controllers -> Controller]
    BY <2>1, FreshFacts DEF Init, Controllers
  <2>3. NodeTyped
    BY <2>1, <2>2, FreshFacts, BoundAssumption
       DEF Init, NodeTyped, Controllers, Configs, Lists, Running, Starting
  <2>4. FilesTyped /\ OneWriter
    BY <2>1 DEF Init, FilesTyped, OneWriter, Writers
  <2>5. QED
    BY <2>2, <2>3, <2>4, FreshFollowed DEF SyncInv
<1>2. SyncInv /\ [Next]_vars => SyncInv'
  <2>1. SUFFICES ASSUME SyncInv, [Next]_vars PROVE SyncInv'
    OBVIOUS
  <2>2. CASE UNCHANGED vars
    BY <2>1, <2>2 DEF vars, fileVars, SyncInv, NodeTyped, FilesTyped, OneWriter, Followed,
       Running,
          Holds, Alone, ToSave, At, OnFile, SeenUsers, SeenConfig
  <2>3. ASSUME NEW c \in Controllers, Call(c) \/ Update(c) \/ Save(c) PROVE SyncInv'
    BY <2>1, <2>3, ConfigKeeps, UsersKeeps, AliveKeeps, FailKeeps, UpdateKeeps, OpenKeeps,
       WriteKeeps, RenameKeeps, SaveFailsKeeps
       DEF Call, Answer, Save
  <2>4. CASE Refused \/ StartFails
    <3>1. ctl["cur"].at \in Starting \ Saving
      BY <2>4 DEF Refused, StartFails, At, Starting, Saving
    <3>2. QED
      BY <2>1, <2>4, <3>1, RetryKeeps DEF Refused, StartFails, Retry, fileVars
  <2>5. QED
    BY <2>1, <2>2, <2>3, <2>4, FallbackKeeps, StartKeeps, ReloadKeeps, CrashKeeps, OutsideKeeps
       DEF Next, Node
<1>3. QED
  BY <1>1, <1>2, PTL DEF Spec

\* Versions are versions of the panel, the runtime is up exactly while the
\* current controller runs, and only a controller that saves has a file open.
THEOREM SyncTyped == Spec => []TypeOK
<1>1. SyncInv => TypeOK
  <2>1. SUFFICES ASSUME SyncInv PROVE TypeOK
    OBVIOUS
  <2> USE DEF SyncInv
  <2>2. ASSUME NEW c \in Controllers
        PROVE  /\ ctl[c].at \in Starting \cup Polling \cup {"idle"}
               /\ {ctl[c].nodeSeen, ctl[c].info} \subseteq Configs \cup {None}
               /\ {ctl[c].usersSeen, ctl[c].users} \subseteq Lists \cup {None}
               /\ ctl[c].got \in Configs \cup Lists \cup {None}
               /\ writer[c] # NoWriter => ctl[c].at \in Saving
    BY <2>1 DEF NodeTyped, FilesTyped, Controller, Places
  <2>3. served \in Lists \cup {None} /\ (served # None) = Running
    <3>1. Running => ctl["cur"].users \in Lists
      BY <2>1 DEF NodeTyped, Controller, Places, Holds, Running, Controllers
    <3>2. None \notin Lists
      BY DEF None, Lists
    <3>3. QED
      BY <2>1, <3>1, <3>2 DEF NodeTyped, Running
  <2>4. {cache, tmp} \subseteq {Missing, Empty, Torn} \cup Snapshots
    BY <2>1 DEF FilesTyped
  <2>5. QED
    BY <2>1, <2>2, <2>3, <2>4 DEF TypeOK, NodeTyped, Snapshots
<1>2. QED
  BY <1>1, SyncInvariant, PTL

\* nodeInfoMonitor: between polls the runtime serves the list the controller
\* holds, and the client's ETag and hash are those of the controller's list and
\* configuration, so that the next poll brings any newer one.
THEOREM NothingMissed == Spec => []NothingMissedAtRest
<1>1. SyncInv => NothingMissedAtRest
  BY DEF SyncInv, NodeTyped, Followed, SeenUsers, SeenConfig, NothingMissedAtRest, AtRest, At,
         Running, Starting
<1>2. QED
  BY <1>1, SyncInvariant, PTL

\* savePanelSnapshot: the file a crash leaves behind is missing or a whole
\* snapshot, unless two controllers wrote it at the same time.
THEOREM CacheWhole == Spec => []CacheReadable
<1>1. SyncInv => CacheReadable
  BY DEF SyncInv, OneWriter, CacheReadable, Snapshots, Missing, File
<1>2. QED
  BY <1>1, SyncInvariant, PTL

\* saveCurrentPanelSnapshot: between polls the file is what the node serves.
THEOREM CacheServed == Spec => []CacheIsServed
<1>1. SyncInv => CacheIsServed
  BY DEF SyncInv, Followed, OnFile, CacheIsServed, AtRest, At
<1>2. QED
  BY <1>1, SyncInvariant, PTL
-------------------------------------------------------------------------------
(***************************************************************************)
(* The order of the versions.                                              *)
(***************************************************************************)

\* What the controller k has or has in hand is of the panel's past, and a list in
\* hand is no older than the one it would replace.
Past(k) ==
    /\ k.nodeSeen <= panel.config /\ k.info <= panel.config
    /\ k.usersSeen <= panel.users /\ k.users <= panel.users
    /\ k.at = "saveReload" => k.got <= panel.config
    /\ k.at \in {"alive", "update"} /\ k.got # None =>
          k.users <= k.got /\ k.got <= panel.users

\* So is what is on file.
OnceServed(file) == file.info <= panel.config /\ file.users <= panel.users

NothingInvented ==
    /\ \A c \in Controllers : Past(ctl[c])
    /\ OnceServed(cache) /\ OnceServed(tmp)

\* The types the comparisons need.
LEMMA Versions ==
    ASSUME SyncInv
    PROVE  /\ panel.config \in Nat \ {0} /\ panel.users \in Nat \ {0}
           /\ \A c \in Controllers :
                 /\ ctl[c] \in Controller
                 /\ ctl[c].nodeSeen \in Nat /\ ctl[c].info \in Nat
                 /\ ctl[c].usersSeen \in Nat /\ ctl[c].users \in Nat /\ ctl[c].got \in Nat
<1>1. Configs \subseteq Nat \ {0} /\ Lists \subseteq Nat \ {0} /\ None \in Nat
  BY BoundAssumption DEF Configs, Lists, None
<1>2. ctl \in [Controllers -> Controller] /\ panel \in [config : Configs, users : Lists]
  BY DEF SyncInv, NodeTyped
<1>3. QED
  BY <1>1, <1>2 DEF Controller

\* A controller that knows nothing knows nothing new.
LEMMA FreshPast == ASSUME SyncInv PROVE Past(Fresh) /\ Past(Over)
<1>1. /\ Fresh.nodeSeen = 0 /\ Fresh.info = 0 /\ Fresh.usersSeen = 0 /\ Fresh.users = 0
      /\ Fresh.at = "config0"
      /\ Over.nodeSeen = 0 /\ Over.info = 0 /\ Over.usersSeen = 0 /\ Over.users = 0
      /\ Over.at = "idle"
  BY DEF Fresh, Over, None
<1>2. QED
  BY <1>1, Versions DEF Past

\* A step of a controller, with what it has fetched.
LEMMA PastMoves ==
    ASSUME SyncInv, NothingInvented, NEW c \in Controllers, NEW r, Move(c, r), Past(r),
           UNCHANGED panel, OnceServed(cache'), OnceServed(tmp')
    PROVE  NothingInvented'
<1>1. \A d \in Controllers : ctl'[d] \in {ctl[d], r, Over}
  BY DEF Move, SyncInv, NodeTyped
<1>2. \A d \in Controllers : Past(ctl'[d])
  BY <1>1, FreshPast DEF NothingInvented
<1>3. QED
  BY <1>2 DEF NothingInvented, Past, OnceServed

\* GetNodeInfo.
LEMMA ConfigPast ==
    ASSUME SyncInv, NothingInvented, NEW c \in Controllers, ConfigAnswer(c)
    PROVE  NothingInvented'
<1> DEFINE v == panel.config
           new == v # ctl[c].nodeSeen
           next == CASE ~new -> IF At(c, "config0") THEN "fallback" ELSE "users"
                     [] new /\ v \in BadConfigs -> GivesUp(c)
                     [] new /\ v \notin BadConfigs ->
                           IF At(c, "config0") THEN "users0" ELSE "saveReload"
           seen == [ctl[c] EXCEPT !.nodeSeen = v]
           i == IF next = "users0" THEN v ELSE seen.info
           g == IF next = "saveReload" THEN v ELSE None
           k == [seen EXCEPT !.at = next, !.info = i, !.got = g]
<1>1. Move(c, k) /\ UNCHANGED <<panel, fileVars>>
  BY DEF ConfigAnswer
<1>2. /\ ctl[c] \in Controller /\ v \in Nat /\ Past(ctl[c])
      /\ OnceServed(cache) /\ OnceServed(tmp)
  BY Versions DEF NothingInvented
<1>3. next \in {"fallback", "users", "users0", "saveReload", "idle"}
  BY DEF GivesUp
<1> HIDE DEF next
<1>4. /\ k.nodeSeen = v /\ k.info \in {v, ctl[c].info} /\ k.usersSeen = ctl[c].usersSeen
      /\ k.users = ctl[c].users /\ k.at = next /\ k.got \in {v, None}
  BY <1>2 DEF Controller
<1> HIDE DEF k, i, g, seen, new
<1>5. v <= panel.config /\ None <= panel.config
  BY <1>2 DEF None
<1> HIDE DEF v
<1>6. Past(k)
  BY <1>2, <1>3, <1>4, <1>5 DEF Past
<1>7. QED
  BY <1>1, <1>2, <1>6, PastMoves DEF fileVars

\* GetUserList: what the panel serves now is no older than what it served before.
LEMMA UsersPast ==
    ASSUME SyncInv, NothingInvented, NEW c \in Controllers, UsersAnswer(c)
    PROVE  NothingInvented'
<1> DEFINE v == panel.users
           g == IF v # ctl[c].usersSeen THEN v ELSE None
           seen == [ctl[c] EXCEPT !.usersSeen = v]
<1>1. UNCHANGED <<panel, fileVars>> /\ (At(c, "users") \/ At(c, "users0"))
  BY DEF UsersAnswer, At
<1>2. /\ ctl[c] \in Controller /\ v \in Nat /\ v <= panel.users /\ Past(ctl[c])
      /\ OnceServed(cache) /\ OnceServed(tmp)
  BY Versions DEF NothingInvented
<1>3. CASE At(c, "users")
  <2> DEFINE r == [seen EXCEPT !.at = "alive", !.got = g]
  <2>1. Move(c, r)
    BY <1>3 DEF UsersAnswer, At
  <2>2. /\ r.nodeSeen = ctl[c].nodeSeen /\ r.info = ctl[c].info /\ r.usersSeen = v
        /\ r.users = ctl[c].users /\ r.at = "alive" /\ r.got = g
    BY <1>2 DEF Controller
  <2> HIDE DEF r
  <2>3. Past(r)
    BY <1>2, <2>2 DEF Past
  <2>4. QED
    BY <1>1, <1>2, <2>1, <2>3, PastMoves DEF fileVars, UsersAnswer
<1>4. CASE At(c, "users0") /\ v # ctl[c].usersSeen
  <2> DEFINE r == [seen EXCEPT !.at = "alive0", !.users = v]
  <2>1. Move(c, r)
    BY <1>4 DEF UsersAnswer, At
  <2>2. /\ r.nodeSeen = ctl[c].nodeSeen /\ r.info = ctl[c].info /\ r.usersSeen = v
        /\ r.users = v /\ r.at = "alive0"
    BY <1>2 DEF Controller
  <2> HIDE DEF r
  <2>3. Past(r)
    BY <1>2, <2>2 DEF Past
  <2>4. QED
    BY <1>1, <1>2, <2>1, <2>3, PastMoves DEF fileVars, UsersAnswer
<1>5. CASE At(c, "users0") /\ v = ctl[c].usersSeen
  <2> DEFINE r == [seen EXCEPT !.at = "fallback"]
  <2>1. Move(c, r)
    BY <1>5 DEF UsersAnswer, At
  <2>2. /\ r.nodeSeen = ctl[c].nodeSeen /\ r.info = ctl[c].info /\ r.usersSeen = v
        /\ r.users = ctl[c].users /\ r.at = "fallback"
    BY <1>2 DEF Controller
  <2> HIDE DEF r
  <2>3. Past(r)
    BY <1>2, <2>2 DEF Past
  <2>4. QED
    BY <1>1, <1>2, <2>1, <2>3, PastMoves DEF fileVars, UsersAnswer
<1>6. QED
  BY <1>1, <1>3, <1>4, <1>5

\* GetUserAlive, a call that fails and UpdateUsers fetch nothing.
LEMMA CallPast ==
    ASSUME SyncInv, NothingInvented, NEW c \in Controllers,
           AliveAnswer(c) \/ CallFails(c) \/ Update(c)
    PROVE  NothingInvented'
<1>1. /\ ctl[c] \in Controller /\ Past(ctl[c]) /\ UNCHANGED panel
      /\ OnceServed(cache) /\ OnceServed(tmp) /\ UNCHANGED <<cache, tmp>>
  BY Versions DEF NothingInvented, AliveAnswer, CallFails, Update, fileVars
<1>2. CASE AliveAnswer(c)
  <2> DEFINE next == CASE At(c, "alive0")                     -> "save0"
                       [] At(c, "alive") /\ ctl[c].got # None -> "update"
                       [] At(c, "alive") /\ ctl[c].got = None -> "save"
             r == [ctl[c] EXCEPT !.at = next]
  <2>1. Move(c, r) /\ ctl[c].at \in {"alive0", "alive"}
    BY <1>2 DEF AliveAnswer, Go
  <2>2. (next = "update" /\ ctl[c].at = "alive") \/ next \in {"save0", "save"}
    BY <2>1 DEF At
  <2> HIDE DEF next
  <2>3. /\ r.nodeSeen = ctl[c].nodeSeen /\ r.info = ctl[c].info
        /\ r.usersSeen = ctl[c].usersSeen /\ r.users = ctl[c].users
        /\ r.at = next /\ r.got = ctl[c].got
    BY <1>1 DEF Controller
  <2> HIDE DEF r
  <2>4. Past(r)
    BY <1>1, <2>2, <2>3 DEF Past
  <2>5. QED
    BY <1>1, <2>1, <2>4, PastMoves
<1>3. CASE CallFails(c)
  <2> DEFINE r == [ctl[c] EXCEPT !.at = GivesUp(c), !.got = None]
  <2>1. Move(c, r) /\ GivesUp(c) \in {"fallback", "idle"}
    BY <1>3 DEF CallFails, GivesUp
  <2>2. /\ r.nodeSeen = ctl[c].nodeSeen /\ r.info = ctl[c].info
        /\ r.usersSeen = ctl[c].usersSeen /\ r.users = ctl[c].users
        /\ r.at = GivesUp(c)
    BY <1>1 DEF Controller
  <2> HIDE DEF r
  <2>3. Past(r)
    BY <1>1, <2>1, <2>2 DEF Past
  <2>4. QED
    BY <1>1, <2>1, <2>3, PastMoves
<1>4. CASE Update(c)
  <2> DEFINE r == [ctl[c] EXCEPT !.at = "save", !.users = ctl[c].got, !.got = None]
  <2>1. Move(c, r) /\ ctl[c].at = "update"
    BY <1>4 DEF Update, At
  <2>2. /\ r.nodeSeen = ctl[c].nodeSeen /\ r.info = ctl[c].info
        /\ r.usersSeen = ctl[c].usersSeen /\ r.users = ctl[c].got /\ r.at = "save"
    BY <1>1 DEF Controller
  <2>3. ctl[c].got \in Lists /\ None \notin Lists
    BY <2>1 DEF SyncInv, NodeTyped, Holds, None, Lists
  <2> HIDE DEF r
  <2>4. Past(r)
    BY <1>1, <2>1, <2>2, <2>3 DEF Past
  <2>5. QED
    BY <1>1, <2>1, <2>4, PastMoves
<1>5. QED
  BY <1>2, <1>3, <1>4

\* What is saved is what was fetched.
LEMMA SavesPast ==
    ASSUME SyncInv, NothingInvented, NEW c \in Controllers, ctl[c].at \in Saving
    PROVE  OnceServed(ToSave(c))
<1>1. Past(ctl[c]) /\ ctl[c].at \in {"save0", "save", "saveReload"}
  BY DEF NothingInvented, Saving
<1>2. /\ ToSave(c).users = ctl[c].users
      /\ ToSave(c).info = IF ctl[c].at = "saveReload" THEN ctl[c].got ELSE ctl[c].info
  BY DEF ToSave, File, At
<1>3. QED
  BY <1>1, <1>2 DEF Past, OnceServed

\* A file without a snapshot says nothing.
LEMMA NoSnapshotPast ==
    ASSUME SyncInv PROVE OnceServed(Missing) /\ OnceServed(Empty) /\ OnceServed(Torn)
<1>1. \A f \in {Missing, Empty, Torn} : f.info = 0 /\ f.users = 0
  BY DEF Missing, Empty, Torn, File, None
<1>2. QED
  BY <1>1, Versions DEF OnceServed

\* savePanelSnapshot, in all its steps.
LEMMA SavePast ==
    ASSUME SyncInv, NothingInvented, NEW c \in Controllers, Save(c)
    PROVE  NothingInvented'
<1>1. UNCHANGED panel /\ OnceServed(cache) /\ OnceServed(tmp) /\ ctl[c] \in Controller
  BY Versions DEF NothingInvented, Save, SaveOpen, SaveWrite, SaveRename, SaveFails
<1>2. ctl[c].at \in Saving
  BY DEF Save, SaveOpen, SaveWrite, SaveRename, SaveFails, SyncInv, FilesTyped, NoWriter
<1>3. OnceServed(cache') /\ OnceServed(tmp')
  BY <1>1, <1>2, SavesPast, NoSnapshotPast
     DEF Save, SaveOpen, SaveWrite, SaveRename, SaveFails
<1>4. CASE UNCHANGED ctl
  BY <1>1, <1>3, <1>4 DEF NothingInvented, Past, OnceServed
<1>5. CASE Saved(c)
  <2> DEFINE place == IF At(c, "save0") THEN "start" ELSE "idle"
             r == [ctl[c] EXCEPT !.at = place, !.got = None]
  <2>1. Move(c, r) /\ place \in {"start", "idle"}
    BY <1>5 DEF Saved
  <2> HIDE DEF place
  <2>2. /\ r.nodeSeen = ctl[c].nodeSeen /\ r.info = ctl[c].info
        /\ r.usersSeen = ctl[c].usersSeen /\ r.users = ctl[c].users
        /\ r.at = place
    BY <1>1 DEF Controller
  <2> HIDE DEF r
  <2>3. Past(r)
    BY <2>1, <2>2 DEF NothingInvented, Past
  <2>4. QED
    BY <1>1, <1>3, <2>1, <2>3, PastMoves
<1>6. QED
  BY <1>4, <1>5 DEF Save, SaveOpen, SaveWrite, SaveRename, SaveFails

\* runNode: what a start takes from the file the panel has served, too.
LEMMA NodePast == ASSUME SyncInv, NothingInvented, Node PROVE NothingInvented'
<1> DEFINE cur == ctl["cur"]
<1>1. /\ "cur" \in Controllers /\ "old" \in Controllers /\ cur \in Controller /\ Past(cur)
      /\ OnceServed(cache) /\ OnceServed(tmp)
  BY Versions DEF NothingInvented, Controllers
<1>2. UNCHANGED <<panel, cache, tmp>>
  BY DEF Node, Refused, Fallback, StartServer, StartFails, Poll, AskReload, Reload, fileVars
<1>3. CASE Move("cur", Fresh)
  BY <1>1, <1>2, <1>3, FreshPast, PastMoves
<1>4. CASE Move("cur", [cur EXCEPT !.at = "start", !.info = cache.info, !.users = cache.users])
  <2> DEFINE r == [cur EXCEPT !.at = "start", !.info = cache.info, !.users = cache.users]
  <2>1. /\ r.nodeSeen = cur.nodeSeen /\ r.info = cache.info
        /\ r.usersSeen = cur.usersSeen /\ r.users = cache.users /\ r.at = "start"
    BY <1>1 DEF Controller
  <2>2. Move("cur", r)
    BY <1>4
  <2> HIDE DEF r, cur
  <2>3. Past(r)
    BY <1>1, <2>1 DEF Past, OnceServed
  <2>4. QED
    BY <1>1, <1>2, <2>2, <2>3, PastMoves
<1>5. ASSUME NEW place \in {"idle", "config"}
      PROVE  Past([cur EXCEPT !.at = place])
  <2> DEFINE r == [cur EXCEPT !.at = place]
  <2>1. /\ r.nodeSeen = cur.nodeSeen /\ r.info = cur.info
        /\ r.usersSeen = cur.usersSeen /\ r.users = cur.users /\ r.at = place
    BY <1>1 DEF Controller
  <2> HIDE DEF r, cur
  <2>2. Past(r)
    BY <1>1, <2>1 DEF Past
  <2>3. QED
    BY <2>2 DEF r
<1>6. CASE StartServer \/ Poll
  <2>1. PICK place \in {"idle", "config"} : Move("cur", [cur EXCEPT !.at = place])
    BY <1>6 DEF StartServer, Poll, Go
  <2>2. QED
    BY <1>1, <1>2, <1>5, <2>1, PastMoves
<1>7. CASE UNCHANGED ctl
  BY <1>2, <1>7 DEF NothingInvented, Past, OnceServed
<1>8. CASE /\ ctl'["cur"] = Fresh
           /\ ctl'["old"] = cur \/ ctl'["old"] = [cur EXCEPT !.at = "config"]
  <2>1. Past(ctl'["cur"]) /\ Past(ctl'["old"])
    BY <1>1, <1>5, <1>8, FreshPast
  <2>2. QED
    BY <1>1, <1>2, <2>1 DEF NothingInvented, Past, OnceServed, Controllers
<1>9. CASE Reload
  <2>1. \/ Move("cur", Fresh)
        \/ ctl' = [cur |-> Fresh, old |-> cur]
        \/ ctl' = [cur |-> Fresh, old |-> [cur EXCEPT !.at = "config"]]
    BY <1>9 DEF Reload
  <2> HIDE DEF cur
  <2>2. QED
    BY <1>3, <1>8, <2>1
<1>10. CASE Fallback
  BY <1>3, <1>4, <1>10 DEF Fallback, Retry
<1>11. CASE Refused \/ StartFails
  BY <1>3, <1>11 DEF Refused, StartFails, Retry
<1>12. CASE AskReload
  BY <1>7, <1>12 DEF AskReload
<1>13. QED
  BY <1>6, <1>9, <1>10, <1>11, <1>12 DEF Node

\* The panel goes on, and a crash leaves the files.
LEMMA OutsidePast ==
    ASSUME SyncInv, NothingInvented, PanelChange \/ Crash PROVE NothingInvented'
<1>1. CASE PanelChange
  <2>1. /\ UNCHANGED <<ctl, cache, tmp>>
        /\ panel' \in {[panel EXCEPT !.config = @ + 1], [panel EXCEPT !.users = @ + 1]}
    BY <1>1 DEF PanelChange, fileVars
  <2>2. panel.config <= panel'.config /\ panel.users <= panel'.users
    BY <2>1, Versions DEF SyncInv, NodeTyped
  <2>3. panel'.config \in Nat /\ panel'.users \in Nat
    BY <2>1, Versions DEF SyncInv, NodeTyped
  <2>4. ASSUME NEW c \in Controllers PROVE Past(ctl[c])'
    <3>1. Past(ctl[c])
      BY DEF NothingInvented
    <3>2. QED
      BY <2>1, <2>2, <2>3, <3>1, Versions DEF Past
  <2>5. ASSUME NEW f \in {cache, tmp} PROVE f.info \in Nat /\ f.users \in Nat
    BY Versions, BoundAssumption
       DEF SyncInv, FilesTyped, Snapshots, Missing, Empty, Torn, File, None, Configs, Lists
  <2>6. OnceServed(cache)' /\ OnceServed(tmp)'
    BY <2>1, <2>2, <2>3, <2>5, Versions DEF NothingInvented, OnceServed
  <2>7. QED
    BY <2>4, <2>6 DEF NothingInvented
<1>2. CASE Crash
  <2>1. UNCHANGED <<panel, cache, tmp>> /\ \A c \in Controllers : ctl'[c] \in {Fresh, Over}
    BY <1>2 DEF Crash, Controllers
  <2>2. QED
    BY <2>1, FreshPast DEF NothingInvented, Past, OnceServed
<1>3. QED
  BY <1>1, <1>2

\* Whatever crashes, fails, answers late or is served from the file: the node has
\* no version the panel has not served, and a list about to be put in place is no
\* older than the one in place.
THEOREM SyncNothingInvented == Spec => []NothingInvented
<1>1. Init => NothingInvented
  <2>1. SUFFICES ASSUME Init PROVE NothingInvented
    OBVIOUS
  <2>2. /\ \A c \in Controllers : ctl[c] \in {Fresh, Over}
        /\ panel.config = 1 /\ panel.users = 1 /\ cache = Missing /\ tmp = Missing
    BY <2>1 DEF Init
  <2>3. \A k \in {Fresh, Over} :
            /\ k.nodeSeen = 0 /\ k.info = 0 /\ k.usersSeen = 0 /\ k.users = 0
            /\ k.at \in {"config0", "idle"}
    BY DEF Fresh, Over, None
  <2>4. Missing.info = 0 /\ Missing.users = 0
    BY DEF Missing, File, None
  <2>5. QED
    BY <2>2, <2>3, <2>4 DEF NothingInvented, Past, OnceServed
<1>2. SyncInv /\ NothingInvented /\ [Next]_vars => NothingInvented'
  <2>1. SUFFICES ASSUME SyncInv, NothingInvented, [Next]_vars PROVE NothingInvented'
    OBVIOUS
  <2>2. CASE UNCHANGED vars
    BY <2>1, <2>2 DEF vars, fileVars, NothingInvented, Past, OnceServed
  <2>3. QED
    BY <2>1, <2>2, ConfigPast, UsersPast, CallPast, SavePast, NodePast, OutsidePast
       DEF Next, Call, Answer
<1>3. QED
  BY <1>1, <1>2, SyncInvariant, PTL DEF Spec

\* UpdateUsers of nodeInfoMonitor: as long as the runtime is up, the list it serves
\* is never followed by an older one.
ServedOnlyNewer == [][served # None /\ served' # None => served <= served']_vars

\* Neither a poll of a closed controller, nor a list that was in hand while another
\* was fetched, nor one restored from the file at the start is ever put in the
\* place of a newer one; a restart from the file may begin with an older list.
THEOREM SyncServesForward == Spec => ServedOnlyNewer
<1>1. SyncInv /\ NothingInvented /\ [Next]_vars =>
         [served # None /\ served' # None => served <= served']_vars
  <2>1. SUFFICES ASSUME SyncInv, NothingInvented, Next, served # None, served' # None
                 PROVE  served <= served'
    OBVIOUS
  <2>2. /\ "cur" \in Controllers /\ Running /\ served = ctl["cur"].users /\ served \in Nat
    BY <2>1, Versions DEF SyncInv, NodeTyped, Controllers
  <2>3. CASE Update("cur")
    <3>1. ctl["cur"].at = "update" /\ served' = ctl["cur"].got
      BY <2>3 DEF Update, At
    <3>2. QED
      BY <2>1, <2>2, <3>1 DEF NothingInvented, Past
  <2>4. CASE served' = served
    BY <2>2, <2>4
  <2>5. ~StartServer
    BY <2>2 DEF StartServer, At, Running, Starting
  <2>6. ~Reload /\ ~Crash
    BY <2>1 DEF Reload, Crash
  <2>7. ASSUME NEW c \in Controllers, Call(c) \/ Update(c) \/ Save(c)
        PROVE  Update("cur") \/ served' = served
    BY <2>7 DEF Call, Answer, Save, ConfigAnswer, UsersAnswer, AliveAnswer, CallFails, Update,
       SaveOpen, SaveWrite, SaveRename, SaveFails
  <2>8. QED
    BY <2>1, <2>3, <2>4, <2>5, <2>6, <2>7
       DEF Next, Node, Refused, Fallback, StartFails, Poll, AskReload, PanelChange
<1>2. QED
  BY <1>1, SyncInvariant, SyncNothingInvented, PTL DEF Spec, ServedOnlyNewer
===============================================================================
