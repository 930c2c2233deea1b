----------------------------- MODULE NodeLifeProofs -----------------------------
(***************************************************************************)
(* First the Caddy process alone, for any number of probes: the safety     *)
(* properties of CaddyProcess.                                             *)
(*                                                                         *)
(* Then the node with its certificate: it is a process supervised as       *)
(* CaddyProcess says, so that what is proved there holds here too, and the *)
(* certificate on disk is a pair, and the one Caddy serves or will serve.  *)
(***************************************************************************)
EXTENDS NodeLife, TLAPS

\* Before Spawn and after Stopped there is no process and no result; from Spawn
\* on there is one of the two, and the auth server listens.  A probe is made only
\* within the bound.
Places ==
    /\ node = "down" => proc = "none" /\ ~done /\ ~auth
    /\ node = "spawn" => proc = "none" /\ ~done /\ auth
    /\ node = "probe" => probes < MaxProbes
    /\ node \notin {"down", "spawn"} => auth /\ (done <=> proc = "none")

IInv == TypeOK /\ Places

\* Init, New: there is no process and nothing listens.
LEMMA InitHolds == ASSUME Init PROVE IInv
<1>1. probes \in 0..MaxProbes
  BY MaxProbesAssumption DEF Init
<1>2. QED
  BY <1>1, Zenon DEF Init, IInv, TypeOK, Places, Nodes

\* startAuthServerLocked and the rest of Start.
LEMMA StartHolds == ASSUME IInv, Start PROVE IInv'
<1>1. CASE StartAuthServer
  BY <1>1 DEF StartAuthServer, IInv, TypeOK, Places, Nodes, Alive
<1>2. CASE Spawn
  BY <1>2, MaxProbesAssumption DEF Spawn, IInv, TypeOK, Places, Nodes, Alive
<1>3. CASE SpawnFails
  BY <1>3 DEF SpawnFails, IInv, TypeOK, Places, Nodes, Alive
<1>4. QED
  BY <1>1, <1>2, <1>3 DEF Start

\* waitReady gives the result of cmd.Wait back.
LEMMA WaitReadyHolds == ASSUME IInv, WaitReady PROVE IInv'
<1>1. CASE SeesExit
  BY <1>1 DEF SeesExit, LeftForStop, IInv, TypeOK, Places, Nodes, Alive
<1>2. CASE SeesNoExit
  BY <1>2, MaxProbesAssumption DEF SeesNoExit, IInv, TypeOK, Places, Nodes, Alive
<1>3. CASE Ready
  BY <1>3 DEF Ready, IInv, TypeOK, Places, Nodes, Alive
<1>4. CASE NotReady
  BY <1>4, MaxProbesAssumption DEF NotReady, IInv, TypeOK, Places, Nodes, Alive
<1>5. CASE GiveUp
  BY <1>5 DEF GiveUp, IInv, TypeOK, Places, Nodes, Alive
<1>6. QED
  BY <1>1, <1>2, <1>3, <1>4, <1>5 DEF WaitReady

\* stopLocked ends only with the result of cmd.Wait.
LEMMA StopHolds == ASSUME IInv, Close \/ Stop PROVE IInv'
<1>1. CASE Close
  BY <1>1 DEF Close, IInv, TypeOK, Places, Nodes, Alive
<1>2. CASE Terminate
  BY <1>2 DEF Terminate, AuthKept, IInv, TypeOK, Places, Nodes, Alive
<1>3. CASE Kill
  BY <1>3 DEF Kill, IInv, TypeOK, Places, Nodes, Alive
<1>4. CASE Stopped
  BY <1>4 DEF Stopped, Gone, IInv, TypeOK, Places, Nodes, Alive
<1>5. QED
  BY <1>1, <1>2, <1>3, <1>4 DEF Stop

\* The processes.
LEMMA ProcessHolds ==
    ASSUME IInv, Binds \/ Exits \/ Wait \/ MainExits \/ OldExits PROVE IInv'
<1>1. CASE Binds
  BY <1>1 DEF Binds, IInv, TypeOK, Places, Nodes, Alive
<1>2. CASE Exits
  BY <1>2 DEF Exits, IInv, TypeOK, Places, Nodes, Alive
<1>3. CASE Wait
  BY <1>3 DEF Wait, IInv, TypeOK, Places, Nodes, Alive
<1>4. CASE MainExits
  <2>1. probes' \in 0..MaxProbes
    BY <1>4, MaxProbesAssumption DEF MainExits
  <2>2. old' \in BOOLEAN
    BY <1>4, Zenon DEF MainExits, IInv, TypeOK
  <2>3. QED
    BY <1>4, <2>1, <2>2, Zenon DEF MainExits, IInv, TypeOK, Places, Nodes
<1>5. CASE OldExits
  BY <1>5 DEF OldExits, IInv, TypeOK, Places, Nodes, Alive
<1>6. QED
  BY <1>1, <1>2, <1>3, <1>4, <1>5

LEMMA StutterHolds == ASSUME IInv, UNCHANGED vars PROVE IInv'
BY DEF vars, IInv, TypeOK, Places, Nodes, Alive

\* Every state of a node's process is in the inductive invariant.
THEOREM ProcessInvariant == Spec => []IInv
<1>1. IInv /\ [Next]_vars => IInv'
  BY StartHolds, WaitReadyHolds, StopHolds, ProcessHolds, StutterHolds DEF Next
<1>2. QED
  BY InitHolds, <1>1, PTL DEF Spec

\* The type invariant of the process and of runNode.
THEOREM ProcessTyped == Spec => []TypeOK
<1>1. IInv => TypeOK
  BY DEF IInv
<1>2. QED
  BY ProcessInvariant, <1>1, PTL

\* Start and stopLocked: the auth server listens as long as Caddy lives.
THEOREM ProcessAuthOutlives == Spec => []AuthOutlivesCaddy
<1>1. IInv => AuthOutlivesCaddy
  BY DEF IInv, TypeOK, Places, AuthOutlivesCaddy, Alive
<1>2. QED
  BY ProcessInvariant, <1>1, PTL

\* Start's error paths and Close: the next server finds nothing of the last one.
THEOREM ProcessNothingLeft == Spec => []NothingLeftBehind
<1>1. IInv => NothingLeftBehind
  BY DEF IInv, Places, NothingLeftBehind
<1>2. QED
  BY ProcessInvariant, <1>1, PTL

-------------------------------------------------------------------------------
(***************************************************************************)
(* The node with its certificate.                                          *)
(***************************************************************************)

\* A step of the node, whatever it does to the certificate, is for the process a
\* step of Start, waitReady, Close, stopLocked or Caddy, or none.
LEMMA NodeStep == [NodeNext]_nodeVars => [Next]_vars
<1>1. NodeNext => [Next]_vars
  <2>1. ASSUME RequestCert PROVE UNCHANGED vars
    BY <2>1 DEF RequestCert
  <2>2. ASSUME StartServer PROVE Next
    BY <2>2 DEF StartServer, Next, Start
  <2>3. ASSUME StartTasks PROVE Next
    BY <2>3 DEF StartTasks, Next, WaitReady
  <2>4. ASSUME AskReload PROVE UNCHANGED vars
    BY <2>4 DEF AskReload
  <2>5. ASSUME Reload PROVE Next
    BY <2>5 DEF Reload, Next
  <2>6. ASSUME Reads PROVE UNCHANGED vars
    BY <2>6 DEF Reads
  <2>7. ASSUME CaddyExits PROVE Next
    BY <2>7 DEF CaddyExits, Next
  <2>8. ASSUME ProcessExits PROVE Next
    BY <2>8 DEF ProcessExits, Next
  <2>9. ASSUME ServerStep PROVE Next
    BY <2>9 DEF ServerStep, Next, Start, WaitReady, Stop
  <2>10. QED
    BY <2>1, <2>2, <2>3, <2>4, <2>5, <2>6, <2>7, <2>8, <2>9 DEF NodeNext
<1>2. UNCHANGED nodeVars => UNCHANGED vars
  BY DEF nodeVars, vars
<1>3. QED
  BY <1>1, <1>2

\* NodeLife implements CaddyProcess: the certificate, its renewal and the reloads
\* it asks for add no behaviour to the supervision of Caddy.
THEOREM NodeImplementsCaddyProcess == NodeSpec => Spec
<1>1. NodeInit => Init
  BY DEF NodeInit
<1>2. QED
  BY <1>1, NodeStep, PTL DEF NodeSpec, Spec

\* Through every renewal, reload and failed RequestCert, the authorisation server
\* is there for as long as the node's own Caddy, and a node that starts over has
\* left nothing behind.
THEOREM NodeKeepsProcessInvariants == NodeSpec => [](AuthOutlivesCaddy /\ NothingLeftBehind)
BY NodeImplementsCaddyProcess, ProcessAuthOutlives, ProcessNothingLeft, PTL

-------------------------------------------------------------------------------
(***************************************************************************)
(* The certificate.  lockCert keeps two calls with one key apart, and the  *)
(* history variable owns up to the calls it does not keep apart; so a      *)
(* writer that is not disturbed finds in the files what it has put there.  *)
(***************************************************************************)
FileStates == Pairs \cup {Absent, Torn}
Locks == {i.lock : i \in Infos}

CertTyped ==
    /\ certFile \in FileStates /\ keyFile \in FileStates
    /\ issued \in Pairs /\ info \in Infos
    /\ work \in [Agents -> [at : WorkSteps, lock : Locks, pair : Pairs]]
    /\ reload \in BOOLEAN /\ spoiled \in BOOLEAN
    /\ loaded \in Seq(FileStates)

\* RequestCert runs before there is a server, the renewal task of the controller
\* while it is up, and Caddy has read something only while it lives.
Calls ==
    /\ work["start"].at # "rest" => node = "down"
    /\ work["task"].at # "rest" => task \in {"on", "overdue"}
    /\ task # "off" => node = "up"
    /\ loaded # <<>> => proc \in Alive

\* lockCert.
Excluded ==
    \A a, b \in Agents : a # b /\ work[a].lock = work[b].lock => ~(Holds(a) /\ Holds(b))

\* Nobody else writes, and the files are as far as the writer is.
InHand(a) ==
    work[a].at \in Writing =>
        /\ \A b \in Agents \ {a} : work[b].at \notin Writing
        /\ IF work[a].at = "fillCert" THEN certFile = Torn ELSE certFile = work[a].pair
        /\ work[a].at = "fillKey" => keyFile = Torn

InOrder == ~spoiled => \A a \in Agents : InHand(a)

\* Whoever has touched the certificate since Caddy read it is not done yet, or has
\* asked for a reload that has not been taken.
Noticed ==
    node \in {"check", "probe", "up"} /\ loaded # <<>> /\ loaded[1] # certFile =>
        reload \/ spoiled \/ \E a \in Agents : work[a].at \in Writing \cup {"tell"}

CertInv == CertTyped /\ Calls /\ Excluded /\ InOrder /\ PairOnDisk /\ Noticed

\* An agent at rest is one.
LEMMA RestTyped == Rest \in [at : WorkSteps, lock : Locks, pair : Pairs] /\ AnInfo \in Infos
<1>1. AnInfo \in Infos
  BY InfosAssumption DEF AnInfo
<1>2. AnInfo.lock \in Locks
  BY <1>1 DEF Locks
<1>3. 0 \in Pairs /\ "rest" \in WorkSteps
  BY MaxIssuedAssumption DEF Pairs, WorkSteps
<1>4. QED
  BY <1>1, <1>2, <1>3 DEF Rest

\* What is on disk when it is whole is told from what is not.
LEMMA PairsWhole == 0 \in Pairs /\ \A p \in Pairs : p # Torn /\ p # Absent
BY FileAssumption, MaxIssuedAssumption DEF Pairs

\* A call for a configuration begins with its lock and without a pair.
LEMMA BeginsTyped ==
    ASSUME NEW i \in Infos, NEW at \in {"look", "user"}
    PROVE  [at |-> at, lock |-> i.lock, pair |-> 0] \in [at : WorkSteps, lock : Locks,
        pair : Pairs]
BY PairsWhole DEF Locks, WorkSteps, Account

\* Init, CertInit: whole files or none, and nobody at work.
LEMMA CertInitHolds == ASSUME NodeInit PROVE CertInv
<1>1. CertTyped
  <2>1. work \in [Agents -> [at : WorkSteps, lock : Locks, pair : Pairs]]
    BY RestTyped DEF NodeInit, CertInit
  <2>2. 0 \in Pairs /\ loaded \in Seq(FileStates)
    BY MaxIssuedAssumption DEF NodeInit, Pairs
  <2>3. QED
    BY <2>1, <2>2, RestTyped DEF NodeInit, CertInit, CertTyped, FileStates
<1>2. \A a \in Agents : work[a].at = "rest"
  BY DEF NodeInit, CertInit, Rest
<1>3. Calls /\ Excluded /\ InOrder /\ Noticed
  BY <1>2 DEF NodeInit, CertInit, Calls, Excluded, Holds, InOrder, InHand, Noticed, Agents,
     Guarded, Writing, Account
<1>4. PairOnDisk
  BY PairsWhole, FileAssumption DEF NodeInit, CertInit, PairOnDisk
<1>5. QED
  BY <1>1, <1>3, <1>4 DEF CertInv

\* NewLego: the account is nobody's but the caller's.
LEMMA NewLegoHolds ==
    ASSUME CertInv, NEW a \in Agents, NewLego(a), UNCHANGED <<vars, loaded>>
    PROVE  CertInv'
<1> USE DEF CertInv, CertTyped, Calls, Excluded, Holds, InOrder, InHand, PairOnDisk, Noticed,
        Goes, Agents, Writing, Guarded, Account, WorkSteps, files, vars
<1>1. CASE LoadAccount(a)
  BY <1>1 DEF LoadAccount
<1>2. CASE TruncateAccount(a)
  BY <1>2 DEF TruncateAccount
<1>3. CASE EncodeAccount(a)
  BY <1>3 DEF EncodeAccount
<1>4. QED
  BY <1>1, <1>2, <1>3 DEF NewLego

\* writeCert.
LEMMA WriteCertHolds ==
    ASSUME CertInv, IInv, NEW a \in Agents, WriteCert(a), UNCHANGED <<vars, loaded>>
    PROVE  CertInv'
<1> USE PairsWhole DEF CertInv, CertTyped, Calls, Excluded, Holds, InOrder, InHand, PairOnDisk,
        Noticed, Goes, Agents, Writing, Guarded, Account, WorkSteps, files, vars
<1>1. CASE TruncateCert(a)
  <2>1. CertTyped' /\ Calls'
    BY <1>1 DEF TruncateCert, FileStates
  <2>2. Excluded' /\ Noticed'
    BY <1>1, SMTT(30) DEF TruncateCert
  <2>3. ASSUME ~spoiled', NEW b \in Agents \ {a} PROVE work[b].at \notin Writing
    BY <1>1, <2>3, ZenonT(60) DEF TruncateCert
  <2>4. InOrder' /\ PairOnDisk'
    BY <1>1, <2>3, SMTT(30) DEF TruncateCert
  <2>5. QED
    BY <2>1, <2>2, <2>4
<1>2. CASE FillCert(a)
  BY <1>2, SMTT(30) DEF FillCert, FileStates, Filled
<1>3. CASE TruncateKey(a)
  BY <1>3, SMTT(30) DEF TruncateKey, FileStates
<1>4. CASE FillKey(a)
  BY <1>4 DEF FillKey, FileStates, Filled, IInv, Places
<1>5. QED
  BY <1>1, <1>2, <1>3, <1>4 DEF WriteCert

\* The rest of RequestCert and of RenewCert.
LEMMA CertStepHolds ==
    ASSUME CertInv, IInv, CertStep, UNCHANGED <<vars, loaded>>
    PROVE  CertInv'
<1> USE DEF CertInv, CertTyped, Calls, Excluded, Holds, InOrder, InHand, PairOnDisk, Noticed,
        Goes, Agents, Writing, Guarded, Account, WorkSteps, files, vars
<1>1. CASE LookForFiles
  BY <1>1, RestTyped, MaxIssuedAssumption, SMTT(30)
     DEF LookForFiles, Errs, Unlocked, Pairs, Rest
<1>2. ASSUME NEW a \in Agents, LookAtCert(a) PROVE CertInv'
  BY <1>2, RestTyped, SMTT(30) DEF LookAtCert, Unlocked, Rest
<1>3. ASSUME NEW a \in Agents, Issue(a) PROVE CertInv'
  BY <1>3, MaxIssuedAssumption, SMTT(30) DEF Issue, Pairs
<1>4. ASSUME NEW a \in Agents, Tell(a) PROVE CertInv'
  BY <1>4, RestTyped, SMTT(30) DEF Tell, Rest
<1>5. ASSUME NEW a \in Agents, Fail(a) PROVE CertInv'
  <2>1. CertTyped' /\ Calls' /\ Excluded'
    BY <1>5, RestTyped DEF Fail, Errs, Rest
  <2>2. ASSUME ~spoiled'
        PROVE  /\ ~spoiled /\ work[a].at \notin Writing /\ work'[a].at \notin Writing
               /\ \A b \in Agents \ {a} : work'[b] = work[b]
    BY <1>5, <2>2 DEF Fail, Errs, Rest
  <2>3. InOrder'
    BY <1>5, <2>2 DEF Fail
  <2>4. PairOnDisk'
    BY <1>5, <2>2 DEF Fail
  <2>5. Noticed'
    BY <1>5, <2>2 DEF Fail, Errs
  <2>6. QED
    BY <2>1, <2>3, <2>4, <2>5
<1>6. CASE Tick
  BY <1>6, BeginsTyped DEF Tick
<1>7. CASE TimesOut
  BY <1>7 DEF TimesOut
<1>8. QED
  BY <1>1, <1>2, <1>3, <1>4, <1>5, <1>6, <1>7, NewLegoHolds, WriteCertHolds DEF CertStep

\* runNode, the controller and Caddy.
LEMMA NodeStepHolds ==
    ASSUME CertInv, IInv, NodeNext
    PROVE  CertInv'
<1> USE DEF CertInv, IInv, TypeOK, Places, CertTyped, Calls, Excluded, Holds, InOrder, InHand,
        PairOnDisk, Noticed, Goes, Agents, Writing, Guarded, Account, WorkSteps, files, vars
<1>1. CASE RequestCert
  BY <1>1, BeginsTyped DEF RequestCert, BeginStart
<1>2. CASE StartServer
  BY <1>2, RestTyped DEF StartServer, StartAuthServer, Rest
<1>3. CASE StartTasks
  BY <1>3, BeginsTyped DEF StartTasks, Ready, StartTask
<1>4. CASE AskReload
  BY <1>4 DEF AskReload
<1>5. CASE Reload
  BY <1>5, RestTyped, ZenonT(60) DEF Reload, Close, CloseTask, Rest
<1>6. CASE Reads
  <2>1. /\ loaded' \in Seq(FileStates) /\ loaded' # <<>>
        /\ loaded'[1] = IF loaded = <<>> THEN certFile ELSE loaded[1]
    <3>1. CASE loaded = <<>> /\ loaded' = <<certFile>>
      BY <3>1
    <3>2. CASE Len(loaded) = 1 /\ loaded' = Append(loaded, keyFile)
      BY <3>2
    <3>3. QED
      BY <1>6, <3>1, <3>2 DEF Reads
  <2>2. CertTyped' /\ Calls' /\ Noticed'
    BY <1>6, <2>1 DEF Reads, certVars
  <2>3. Excluded' /\ InOrder' /\ PairOnDisk'
    BY <1>6 DEF Reads, certVars
  <2>4. QED
    BY <2>2, <2>3
<1>7. CASE CaddyExits
  BY <1>7 DEF CaddyExits, Exits, certVars
<1>8. CASE ProcessExits
  <2>1. \A a \in Agents : work'[a].at = "rest"
    BY <1>8 DEF ProcessExits, LoseWork, Rest
  <2>2. CertTyped'
    <3>1. spoiled' \in BOOLEAN
      BY <1>8, Zenon DEF ProcessExits, LoseWork
    <3>2. work' \in [Agents -> [at : WorkSteps, lock : Locks, pair : Pairs]]
      BY <1>8, RestTyped, Zenon DEF ProcessExits, LoseWork
    <3>3. loaded' \in Seq(FileStates)
      BY <1>8 DEF ProcessExits
    <3>4. QED
      BY <1>8, <3>1, <3>2, <3>3, Zenon DEF ProcessExits, LoseWork
  <2>3. Calls' /\ Excluded' /\ InOrder' /\ Noticed'
    BY <1>8, <2>1 DEF ProcessExits, LoseWork
  <2>4. PairOnDisk'
    BY <1>8 DEF ProcessExits, LoseWork
  <2>5. QED
    BY <2>2, <2>3, <2>4
<1>9. CASE ServerStep
  <2>1. CertTyped' /\ Excluded' /\ InOrder' /\ PairOnDisk'
    BY <1>9 DEF ServerStep, certVars
  <2>2. Calls' /\ Noticed'
    BY <1>9 DEF ServerStep, certVars, Spawn, SpawnFails, SeesExit, SeesNoExit, NotReady, GiveUp,
                Stop, Terminate, Kill, Stopped, Gone, Binds, Wait, OldExits, Alive
  <2>3. QED
    BY <2>1, <2>2
<1>10. QED
  BY <1>1, <1>2, <1>3, <1>4, <1>5, <1>6, <1>7, <1>8, <1>9, CertStepHolds DEF NodeNext

\* A step that changes nothing.
LEMMA CertStutterHolds == ASSUME CertInv, UNCHANGED nodeVars PROVE CertInv'
BY DEF nodeVars, vars, certVars, files, CertInv, CertTyped, Calls, Excluded, Holds, InOrder,
   InHand,
       PairOnDisk, Noticed

\* Every state of a node is in the inductive invariant of its certificate.
THEOREM NodeCertInvariant == NodeSpec => []CertInv
<1>1. CertInv /\ IInv /\ [NodeNext]_nodeVars => CertInv'
  BY NodeStepHolds, CertStutterHolds
<1>2. NodeSpec => []IInv
  BY NodeImplementsCaddyProcess, ProcessInvariant, PTL
<1>3. QED
  BY CertInitHolds, <1>1, <1>2, PTL DEF NodeSpec

\* lockCert and writeCert: whatever interleaves, fails or ends, the certificate and
\* the key on disk are a pair when nobody is writing them and no write of them was
\* cut short or crossed one with another key.
THEOREM CertificatePaired == NodeSpec => []PairOnDisk
<1>1. CertInv => PairOnDisk
  BY DEF CertInv
<1>2. QED
  BY NodeCertInvariant, <1>1, PTL

\* RenewCert, triggerReload and runNode: a serving Caddy has the pair on disk, or a
\* reload is on its way.
THEOREM RenewalServed == NodeSpec => []RenewedIsServed
<1>1. CertInv => RenewedIsServed
  <2>1. SUFFICES ASSUME CertInv, NEW n \in Pairs, node \in {"check", "probe", "up"},
                        loaded = <<n, n>>, n # certFile
                 PROVE  reload \/ spoiled \/ \E a \in Agents : work[a].at \in Writing \cup {"tell"}
    BY Zenon DEF RenewedIsServed, Serves
  <2>2. loaded # <<>> /\ loaded[1] = n
    BY <2>1
  <2>3. QED
    BY <2>1, <2>2 DEF CertInv, Noticed
<1>2. QED
  BY NodeCertInvariant, <1>1, PTL
===============================================================================
