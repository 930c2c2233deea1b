------------------------------- MODULE CertFiles -------------------------------
(***************************************************************************)
(* The certificate of a node: RequestCert, which a controller calls before *)
(* it starts its server, and the daily renewal task, with the files they   *)
(* share on disk.  The certificate, the key and the account of the         *)
(* certificate authority are each truncated and then written.  lockCert    *)
(* excludes calls whose CertInfo gives the same key, but the account of a  *)
(* renewal is read and saved without it, and a reload that changes the     *)
(* mode or the provider changes the key.                                   *)
(*                                                                         *)
(* A task does not wait for its execution when it is closed: "late" is an  *)
(* execution of a closed controller, "task" one of the current controller, *)
(* "start" the call of RequestCert.  A certificate and its key are the     *)
(* number of their issue, 0 for a pair that was there from the beginning.  *)
(* The modes dns and http are "acme"; none and self sign for themselves.   *)
(***************************************************************************)
EXTENDS Naturals

CONSTANTS
    Infos,      \* what CertInfo may say: [mode, lock], lock being certLockKey of it
    MaxIssued,  \* bound: pairs that are generated or issued
    Absent,     \* a file that is not there
    Torn        \* a file that is empty, cut short or written by two

ASSUME InfosAssumption ==
    Infos # {} /\ \A i \in Infos : DOMAIN i = {"mode", "lock"} /\ i.mode \in {"file", "self", "acme"}
ASSUME MaxIssuedAssumption == MaxIssued \in Nat
ASSUME FileAssumption == Absent # Torn /\ {Absent, Torn} \cap (0..MaxIssued) = {}

VARIABLES
    certFile, keyFile,  \* Absent, Torn, or the number of the pair
    account,            \* the account file: Absent, Torn or 0 for one that is whole
    issued,             \* pairs so far
    info,               \* CertInfo of the current controller
    work,               \* per agent: where it is, the lock it uses, the pair it writes
    task,               \* the renewal task of the current controller
    reload,             \* reloadCh holds a signal
    spoiled             \* history: a write of the pair was cut short or crossed another

files == <<certFile, keyFile, account, issued>>
certVars == <<files, info, work, task, reload, spoiled>>

Agents == {"start", "task", "late"}
Pairs == 0..MaxIssued
AnInfo == CHOOSE i \in Infos : TRUE
Rest == [at |-> "rest", lock |-> AnInfo.lock, pair |-> 0]

\* user, save, encode: NewLego.  look: at lockCert, the files to look at next.
\* obtain: at the certificate authority.  cert ... fillKey: writeCert.  ready:
\* RequestCert has returned nil.  tell: a renewal is about to ask for a reload.
Writing == {"fillCert", "key", "fillKey"}
Guarded == {"obtain", "cert"} \cup Writing
Account == {"user", "save", "encode"}
WorkSteps == {"rest", "look", "ready", "tell"} \cup Account \cup Guarded

CertInit ==
    /\ \/ certFile = 0 /\ keyFile = 0
       \/ certFile = Absent /\ keyFile = Absent
    /\ account = Absent
    /\ issued = 0
    /\ info = AnInfo
    /\ work = [a \in Agents |-> Rest]
    /\ task = "off" /\ reload = FALSE
    /\ spoiled = FALSE

-------------------------------------------------------------------------------
Goes(a, at) == work' = [work EXCEPT ![a].at = at]

\* RequestCert holds its lock while it makes the account.
Holds(a) == work[a].at \in Guarded \/ (a = "start" /\ work[a].at \in Account)

\* Fault: nobody excludes anybody.
NeverLocked(a) == TRUE

\* lockCert: nobody else holds the mutex of this key.
Unlocked(a) == \A b \in Agents \ {a} : work[b].lock = work[a].lock => ~Holds(b)

\* An error.  RequestCert fails and runNode starts over; the renewal task ends
\* for ever, unless its time limit has made it give the execution up before.
Errs(a) ==
    /\ work' = [work EXCEPT ![a] = Rest]
    /\ task' = CASE a = "task" /\ task = "on" -> "ended"
                 [] a = "task" /\ task = "overdue" -> "on"
                 [] a # "task" -> task

-------------------------------------------------------------------------------
(***************************************************************************)
(* RequestCert and NewLego.                                                *)
(***************************************************************************)

\* Controller.Start with the node's configuration of the moment.
BeginStart ==
    /\ work["start"].at = "rest"
    /\ \E i \in Infos :
          /\ info' = i
          /\ work' = [work EXCEPT !["start"] = [at |-> "look", lock |-> i.lock, pair |-> 0]]
    /\ UNCHANGED <<files, task, reload, spoiled>>

\* Both files are there, whatever is in them.
Exist == certFile # Absent /\ keyFile # Absent

\* Files that are there will do.  Otherwise the mode file has nothing to make them
\* from, nor has self without a domain.
LookForFiles ==
    /\ work["start"].at = "look" /\ Unlocked("start")
    /\ \/ Exist /\ Goes("start", "ready") /\ UNCHANGED <<issued, task>>
       \/ ~Exist /\ info.mode \in {"file", "self"} /\ Errs("start") /\ UNCHANGED issued
       \/ ~Exist /\ info.mode = "acme" /\ Goes("start", "user") /\ UNCHANGED <<issued, task>>
       \/ /\ ~Exist /\ info.mode = "self" /\ issued < MaxIssued
          /\ issued' = issued + 1
          /\ work' = [work EXCEPT !["start"].at = "cert", !["start"].pair = issued + 1]
          /\ UNCHANGED task
    /\ UNCHANGED <<certFile, keyFile, account, info, reload, spoiled>>

\* newLegoUser: the account is loaded, or a new one is registered ...
LoadAccount(a) ==
    /\ work[a].at = "user"
    /\ \/ account = 0 /\ Goes(a, IF a = "start" THEN "obtain" ELSE "look")
       \/ account = Absent /\ Goes(a, "save")
    /\ UNCHANGED <<files, info, task, reload, spoiled>>

\* ... and saved: O_TRUNC ...
TruncateAccount(a) ==
    /\ work[a].at = "save"
    /\ account' = Torn
    /\ Goes(a, "encode")
    /\ UNCHANGED <<certFile, keyFile, issued, info, task, reload, spoiled>>

\* ... and then the JSON, perhaps over a longer one of another writer.
EncodeAccount(a) ==
    /\ work[a].at = "encode"
    /\ account' \in IF account = Torn THEN {0} ELSE {0, Torn}
    /\ Goes(a, IF a = "start" THEN "obtain" ELSE "look")
    /\ UNCHANGED <<certFile, keyFile, issued, info, task, reload, spoiled>>

\* Obtain, or Renew, which is given no private key and makes a new one.
Issue(a) ==
    /\ work[a].at = "obtain" /\ issued < MaxIssued
    /\ issued' = issued + 1
    /\ work' = [work EXCEPT ![a].at = "cert", ![a].pair = issued + 1]
    /\ UNCHANGED <<certFile, keyFile, account, info, task, reload, spoiled>>

-------------------------------------------------------------------------------
(***************************************************************************)
(* writeCert and the end of generateSelfSigned.                            *)
(***************************************************************************)

\* What a file holds that was truncated by one writer and may have been written
\* by another.
Filled(file, pair) == IF file = Torn THEN {pair} ELSE {pair, Torn}

\* Two calls with different keys write the files at the same time.
TruncateCert(a) ==
    /\ work[a].at = "cert"
    /\ certFile' = Torn
    /\ Goes(a, "fillCert")
    /\ spoiled' = (spoiled \/ \E b \in Agents : work[b].at \in Writing /\ work[b].lock # work[a].lock)
    /\ UNCHANGED <<keyFile, account, issued, info, task, reload>>

FillCert(a) ==
    /\ work[a].at = "fillCert"
    /\ certFile' \in Filled(certFile, work[a].pair)
    /\ Goes(a, "key")
    /\ UNCHANGED <<keyFile, account, issued, info, task, reload, spoiled>>

TruncateKey(a) ==
    /\ work[a].at = "key"
    /\ keyFile' = Torn
    /\ Goes(a, "fillKey")
    /\ UNCHANGED <<certFile, account, issued, info, task, reload, spoiled>>

FillKey(a) ==
    /\ work[a].at = "fillKey"
    /\ keyFile' \in Filled(keyFile, work[a].pair)
    /\ Goes(a, IF a = "start" THEN "ready" ELSE "tell")
    /\ UNCHANGED <<certFile, account, issued, info, task, reload, spoiled>>

\* A call of the network, the disk or the parser fails; a torn file never parses.
Fail(a) ==
    /\ \/ work[a].at \in Account \cup Guarded
       \/ a # "start" /\ work[a].at = "look" /\ Unlocked(a)
    /\ Errs(a)
    /\ spoiled' = (spoiled \/ work[a].at \in Writing)
    /\ UNCHANGED <<files, info, reload>>

-------------------------------------------------------------------------------
(***************************************************************************)
(* The renewal task.                                                       *)
(***************************************************************************)

\* startTasks, at the end of a Start that went well: the first execution begins
\* at once.
StartTask ==
    /\ IF info.mode = "acme"
         THEN /\ task' = "on"
              /\ work' = [work EXCEPT !["task"] = [at |-> "user", lock |-> info.lock, pair |-> 0]]
         ELSE UNCHANGED <<task, work>>
    /\ UNCHANGED <<files, info, reload, spoiled>>

\* A day later.
Tick ==
    /\ task = "on" /\ work["task"].at = "rest"
    /\ work' = [work EXCEPT !["task"] = [at |-> "user", lock |-> info.lock, pair |-> 0]]
    /\ UNCHANGED <<files, info, task, reload, spoiled>>

\* RenewCert: a certificate that lasts for more than 30 days is left alone.  How
\* old it has got by now is anybody's guess.
LookAtCert(a) ==
    /\ a # "start" /\ work[a].at = "look" /\ Unlocked(a)
    /\ certFile \in Pairs
    /\ \/ Goes(a, "obtain") /\ UNCHANGED task
       \/ /\ work' = [work EXCEPT ![a] = Rest]
          /\ task' = IF a = "task" THEN "on" ELSE task
    /\ UNCHANGED <<files, info, reload, spoiled>>

\* Fault: an execution of a closed controller keeps its news to itself.
TellIfCurrent(a) ==
    /\ work[a].at = "tell"
    /\ work' = [work EXCEPT ![a] = Rest]
    /\ task' = IF a = "task" THEN "on" ELSE task
    /\ reload' = (reload \/ a = "task")
    /\ UNCHANGED <<files, info, spoiled>>

\* triggerReload: a signal that is there already will do.
Tell(a) ==
    /\ work[a].at = "tell"
    /\ work' = [work EXCEPT ![a] = Rest]
    /\ task' = IF a = "task" THEN "on" ELSE task
    /\ reload' = TRUE
    /\ UNCHANGED <<files, info, spoiled>>

\* ExecuteWithTimeout gives an execution up after five minutes: a reload is asked
\* for, the execution goes on.  Bound: it ends before the day does.
TimesOut ==
    /\ task = "on" /\ work["task"].at # "rest"
    /\ task' = "overdue" /\ reload' = TRUE
    /\ UNCHANGED <<files, info, work, spoiled>>

\* Controller.Close: the loop of the task ends, an execution goes on.  Bound:
\* there is one late execution at a time.
CloseTask ==
    /\ work["late"].at = "rest"
    /\ work' = [work EXCEPT !["late"] = work["task"], !["task"] = Rest]
    /\ task' = "off"
    /\ UNCHANGED <<files, info, spoiled>>

\* The process ends in the middle of whatever it does.
LoseWork ==
    /\ work' = [a \in Agents |-> Rest]
    /\ task' = "off" /\ reload' = FALSE
    /\ spoiled' = (spoiled \/ \E a \in Agents : work[a].at \in Writing)
    /\ UNCHANGED <<files, info>>

-------------------------------------------------------------------------------
NewLego(a) == LoadAccount(a) \/ TruncateAccount(a) \/ EncodeAccount(a)

WriteCert(a) == TruncateCert(a) \/ FillCert(a) \/ TruncateKey(a) \/ FillKey(a)

\* The steps that need nothing of the rest of the node.
CertStep ==
    \/ LookForFiles
    \/ \E a \in Agents :
          NewLego(a) \/ LookAtCert(a) \/ Issue(a) \/ WriteCert(a) \/ Tell(a) \/ Fail(a)
    \/ Tick \/ TimesOut

-------------------------------------------------------------------------------
\* lockCert and writeCert: when nobody is writing them the certificate and the key
\* on disk are a pair, unless a crash or an error has cut a write short or two
\* calls that lockCert does not exclude have written at once.
PairOnDisk ==
    ~spoiled /\ (\A a \in Agents : work[a].at \notin Writing)
        => certFile = keyFile /\ certFile # Torn
===============================================================================
