------------------------------ MODULE LocksProofs ------------------------------
(***************************************************************************)
(* The two mutexes of caddyproc, for any number of consumers, handlers and *)
(* tunnels: s.online is guarded, and only a list update and a report of    *)
(* the online devices can wait for each other.                             *)
(*                                                                         *)
(* What is left of an operation says what its goroutine holds: the steps   *)
(* can be labelled with the modes before and after each, from what it      *)
(* holds now to nothing at the end.                                        *)
(***************************************************************************)
EXTENDS CaddyLocks, TLAPS

\* How a goroutine holds a mutex.  GetOnlineDevice holds statsMu for reading
\* before its range ("r"), between two entries of it ("scan") and after it ("done").
Modes == [Mutexes -> {"no", "r", "w", "scan", "done"}]
Shared == {"r", "scan", "done"}
Free == [m \in Mutexes |-> "no"]

Dos == {"RLock", "RUnlock", "Lock", "Unlock", "range", "read", "open", "close", "remove"}
LockSteps == [do : Dos, on : Mutexes]

Set(q, m, mode) == [q EXCEPT ![m] = mode]

\* A goroutine t that holds q may do x, and holds r then.  The order of the
\* mutexes is here: usersMu is taken with statsMu held in a scan only, statsMu
\* with usersMu held by a list update only.
May(t, q, x, r) ==
    \/ /\ x = Step("RLock", "usersMu") /\ r = Set(q, "usersMu", "r")
       /\ q["usersMu"] = "no" /\ q["statsMu"] \in {"no", "scan"}
    \/ x = Step("RLock", "statsMu") /\ r = Set(q, "statsMu", "r") /\ q = Free
    \/ x.do = "RUnlock" /\ r = Set(q, x.on, "no") /\ q[x.on] \in {"r", "done"}
    \/ /\ x = Step("Lock", "usersMu") /\ r = Set(q, "usersMu", "w")
       /\ q = Free /\ t = Monitor
    \/ /\ x = Step("Lock", "statsMu") /\ r = Set(q, "statsMu", "w")
       /\ q["statsMu"] = "no" /\ q["usersMu"] \in {"no", "w"}
    \/ x.do = "Unlock" /\ r = Set(q, x.on, "no") /\ q[x.on] = "w"
    \/ x.do \in Changes /\ r = q /\ q["statsMu"] = "w"
    \/ /\ x.do = "range" /\ r = Set(q, "statsMu", "done")
       /\ q = Set(Free, "statsMu", "r") /\ t = Reporter
    \/ /\ x.do = "read" /\ r \in {q, Set(q, "statsMu", "done")}
       /\ q = Set(Free, "statsMu", "scan")

\* h labels the steps s.
Labels(t, s, h) ==
    /\ h \in [1..(Len(s) + 1) -> Modes] /\ h[Len(s) + 1] = Free
    /\ \A i \in 1..Len(s) : May(t, h[i], s[i], h[i + 1])

Legal(t, s, q) == s \in Seq(LockSteps) /\ \E h : Labels(t, s, h) /\ h[1] = q

\* What a goroutine holds by its label, it holds of the mutexes.
Holds(t, q) ==
    /\ \A m \in Mutexes : /\ t \in readers[m] <=> q[m] \in Shared
                          /\ q[m] = "w" => writer[m] = t /\ readers[m] = {}
                          /\ writer[m] = t => \/ q[m] = "w"
                                              \/ todo[t] # <<>> /\ Head(todo[t]) = Step("Lock", m)
                          /\ t \in queued[m] => todo[t] # <<>> /\ Head(todo[t]) = Step("RLock", m)
    /\ q["usersMu"] = "w" => t = Monitor
    /\ q["statsMu"] = "scan" => t = Reporter /\ online > 0

MutexesTyped ==
    /\ writer \in [Mutexes -> Threads \cup {NoOne}]
    /\ readers \in [Mutexes -> SUBSET Threads]
    /\ queued \in [Mutexes -> SUBSET Threads]
    /\ todo \in [Threads -> Seq(LockSteps)]
    /\ online \in 0..MaxOnline
    /\ \A m \in Mutexes : writer[m] = NoOne => queued[m] = {}

LocksInv ==
    /\ MutexesTyped
    /\ \A t \in Threads : \E q \in Modes : Legal(t, todo[t], q) /\ Holds(t, q)

-------------------------------------------------------------------------------
(***************************************************************************)
(* Labelled operations.                                                    *)
(***************************************************************************)

\* An operation that has ended holds nothing.
LEMMA LegalEmpty == \A t, q : Legal(t, <<>>, q) <=> q = Free
<1>1. Free \in Modes
  BY DEF Free, Modes
<1>2. ASSUME NEW t, NEW q, Legal(t, <<>>, q) PROVE q = Free
  BY <1>2 DEF Legal, Labels
<1>3. ASSUME NEW t PROVE Legal(t, <<>>, Free)
  <2>1. Labels(t, <<>>, [i \in 1..1 |-> Free])
    BY <1>1 DEF Labels
  <2>2. QED
    BY <2>1 DEF Legal
<1>4. QED
  BY <1>2, <1>3

\* A step uses up the first label.
LEMMA LegalTail ==
    ASSUME NEW t, NEW s, NEW q \in Modes, Legal(t, s, q), s # <<>>
    PROVE  /\ Head(s) \in LockSteps /\ Tail(s) \in Seq(LockSteps)
           /\ \E r \in Modes : May(t, q, Head(s), r) /\ Legal(t, Tail(s), r)
<1>1. PICK h : Labels(t, s, h) /\ h[1] = q
  BY DEF Legal
<1>2. /\ s \in Seq(LockSteps) /\ Len(s) \in Nat /\ Len(s) >= 1 /\ Tail(s) \in Seq(LockSteps)
      /\ Len(Tail(s)) = Len(s) - 1 /\ \A i \in 1..(Len(s) - 1) : Tail(s)[i] = s[i + 1]
      /\ Head(s) = s[1] /\ Head(s) \in LockSteps
  BY DEF Legal
<1> DEFINE g == [i \in 1..(Len(Tail(s)) + 1) |-> h[i + 1]]
<1>3. May(t, q, Head(s), h[2]) /\ h[2] \in Modes
  BY <1>1, <1>2 DEF Labels
<1>4. Labels(t, Tail(s), g) /\ g[1] = h[2]
  <2>0. h \in [1..(Len(s) + 1) -> Modes] /\ h[Len(s) + 1] = Free
    BY <1>1 DEF Labels
  <2>1. g \in [1..(Len(Tail(s)) + 1) -> Modes] /\ g[Len(Tail(s)) + 1] = Free
    <3>1. \A i \in 1..(Len(Tail(s)) + 1) : i + 1 \in 1..(Len(s) + 1) /\ h[i + 1] \in Modes
      BY <1>2, <2>0
    <3>2. g[Len(Tail(s)) + 1] = h[(Len(Tail(s)) + 1) + 1] /\ (Len(Tail(s)) + 1) + 1 = Len(s) + 1
      BY <1>2
    <3>3. QED
      BY <2>0, <3>1, <3>2
  <2>2. ASSUME NEW i \in 1..Len(Tail(s)) PROVE May(t, g[i], Tail(s)[i], g[i + 1])
    <3>1. i + 1 \in 1..Len(s) /\ g[i] = h[i + 1] /\ g[i + 1] = h[i + 2] /\ Tail(s)[i] = s[i + 1]
      BY <1>2
    <3>2. May(t, h[i + 1], s[i + 1], h[(i + 1) + 1])
      BY <1>1, <3>1 DEF Labels
    <3>3. (i + 1) + 1 = i + 2
      BY <1>2
    <3>4. QED
      BY <3>1, <3>2, <3>3
  <2>3. g[1] = h[2]
    BY <1>2
  <2> HIDE DEF g
  <2>4. QED
    BY <2>1, <2>2, <2>3 DEF Labels
<1>5. Legal(t, Tail(s), h[2])
  BY <1>2, <1>4 DEF Legal
<1>6. QED
  BY <1>2, <1>3, <1>5

\* Operations one after the other.
LEMMA LegalThen ==
    ASSUME NEW t, NEW a, NEW b, Legal(t, a, Free), Legal(t, b, Free)
    PROVE  Legal(t, a \o b, Free)
<1>1. PICK g : Labels(t, a, g) /\ g[1] = Free
  BY DEF Legal
<1>2. PICK h : Labels(t, b, h) /\ h[1] = Free
  BY DEF Legal
<1>3. /\ a \in Seq(LockSteps) /\ b \in Seq(LockSteps) /\ a \o b \in Seq(LockSteps)
      /\ Len(a) \in Nat /\ Len(b) \in Nat /\ Len(a \o b) = Len(a) + Len(b)
      /\ \A i \in 1..Len(a) : (a \o b)[i] = a[i]
      /\ \A i \in (Len(a) + 1)..(Len(a) + Len(b)) : (a \o b)[i] = b[i - Len(a)]
  BY DEF Legal
<1> DEFINE n == Len(a)
           f == [i \in 1..(Len(a \o b) + 1) |-> IF i <= n THEN g[i] ELSE h[i - n]]
<1>4. /\ g \in [1..(n + 1) -> Modes] /\ g[n + 1] = Free
      /\ h \in [1..(Len(b) + 1) -> Modes] /\ h[Len(b) + 1] = Free
  BY <1>1, <1>2 DEF Labels
<1>5. f \in [1..(Len(a \o b) + 1) -> Modes] /\ f[Len(a \o b) + 1] = Free /\ f[1] = Free
  BY <1>1, <1>2, <1>3, <1>4
<1>6. ASSUME NEW i \in 1..Len(a \o b) PROVE May(t, f[i], (a \o b)[i], f[i + 1])
  <2>1. CASE i <= n
    <3>1. f[i] = g[i] /\ f[i + 1] = g[i + 1] /\ (a \o b)[i] = a[i] /\ i \in 1..Len(a)
      BY <1>2, <1>3, <1>4, <2>1
    <3>2. QED
      BY <1>1, <3>1 DEF Labels
  <2>2. CASE i > n
    <3>1. /\ f[i] = h[i - n] /\ f[i + 1] = h[(i - n) + 1] /\ (a \o b)[i] = b[i - n]
          /\ i - n \in 1..Len(b)
      BY <1>3, <2>2
    <3>2. QED
      BY <1>2, <3>1 DEF Labels
  <2>3. QED
    BY <1>3, <2>1, <2>2
<1>7. QED
  BY <1>3, <1>5, <1>6 DEF Legal, Labels

\* How Set changes a label, and what an unlock leaves of one mutex alone.
LEMMA Unlocked ==
    /\ Free \in Modes
    /\ \A m \in Mutexes, mode \in {"no", "r", "w", "scan", "done"} :
         \A q \in Modes :
            /\ Set(q, m, mode) \in Modes /\ Set(q, m, mode)[m] = mode
            /\ \A n \in Mutexes : n # m => Set(q, m, mode)[n] = q[n]
    /\ \A mode : \A m \in Mutexes : Set(Set(Free, m, mode), m, "no") = Free
    /\ \A m \in Mutexes : Free[m] = "no"
BY DEF Free, Modes, Set, Mutexes

\* What is around a body.
LEMMA Around ==
    ASSUME NEW x \in LockSteps, NEW y \in LockSteps, NEW b \in Seq(LockSteps),
           NEW s, s = <<x>> \o b \o <<y>>
    PROVE  /\ s \in Seq(LockSteps) /\ Len(s) = Len(b) + 2
           /\ s[1] = x /\ s[Len(b) + 2] = y
           /\ \A i \in 1..Len(b) : s[i + 1] = b[i]
<1> DEFINE a == <<x>> \o b
<1>0. s = a \o <<y>>
  OBVIOUS
<1>1. /\ a \in Seq(LockSteps) /\ Len(a) = Len(b) + 1 /\ Len(b) \in Nat
      /\ a[1] = x /\ \A i \in 1..Len(b) : a[i + 1] = b[i]
  OBVIOUS
<1> HIDE DEF a
<1>2. /\ s \in Seq(LockSteps) /\ Len(s) = Len(a) + 1
      /\ \A i \in 1..Len(a) : s[i] = a[i]
      /\ s[Len(a) + 1] = y
  BY <1>0, <1>1
<1>3. s[1] = x /\ s[Len(b) + 2] = y /\ \A i \in 1..Len(b) : s[i + 1] = b[i]
  BY <1>1, <1>2
<1>4. QED
  BY <1>1, <1>2, <1>3

\* A section under a write lock.
LEMMA AroundWriting ==
    ASSUME NEW m \in Mutexes, NEW b \in Seq(LockSteps)
    PROVE  LET s == Writing(m, b)
           IN  /\ s \in Seq(LockSteps) /\ Len(s) = Len(b) + 2
               /\ s[1] = Step("Lock", m) /\ s[Len(b) + 2] = Step("Unlock", m)
               /\ \A i \in 1..Len(b) : s[i + 1] = b[i]
<1> DEFINE x == Step("Lock", m)
           y == Step("Unlock", m)
           s == Writing(m, b)
<1>1. x \in LockSteps /\ y \in LockSteps
  BY DEF LockSteps, Dos, Step
<1>2. s = <<x>> \o b \o <<y>>
  BY DEF Writing
<1> HIDE DEF x, y, s
<1>3. /\ s \in Seq(LockSteps) /\ Len(s) = Len(b) + 2
      /\ s[1] = x /\ s[Len(b) + 2] = y
      /\ \A i \in 1..Len(b) : s[i + 1] = b[i]
  BY <1>1, <1>2, Around
<1>4. QED
  BY <1>3 DEF x, y, s

\* A section that reads one mutex.
LEMMA LegalReading ==
    ASSUME NEW t, NEW m \in Mutexes
    PROVE  Legal(t, Reading(m, <<>>), Free)
<1> DEFINE s == Reading(m, <<>>)
           h == [i \in 1..3 |-> IF i = 2 THEN Set(Free, m, "r") ELSE Free]
<1>1. Step("RLock", m) \in LockSteps /\ Step("RUnlock", m) \in LockSteps
  BY DEF LockSteps, Dos, Step
<1>2. /\ s \in Seq(LockSteps) /\ Len(s) = 2
      /\ s[1] = Step("RLock", m) /\ s[2] = Step("RUnlock", m)
  BY <1>1, Around DEF Reading
<1> HIDE DEF s
<1>3. h \in [1..3 -> Modes] /\ h[1] = Free /\ h[2] = Set(Free, m, "r") /\ h[3] = Free
  BY Unlocked
<1>4. May(t, h[1], s[1], h[2])
  BY <1>2, <1>3, Unlocked DEF May, Mutexes, Step
<1>5. May(t, h[2], s[2], h[3])
  BY <1>2, <1>3, Unlocked DEF May, Mutexes, Step
<1> HIDE DEF h
<1>6. Labels(t, s, h)
  BY <1>2, <1>3, <1>4, <1>5 DEF Labels
<1>7. QED
  BY <1>2, <1>3, <1>6 DEF Legal, s

\* A section that writes statsMu.
LEMMA LegalWriting ==
    ASSUME NEW t
    PROVE  /\ Legal(t, Writing("statsMu", <<>>), Free)
           /\ \A c \in Changes : Legal(t, Writing("statsMu", <<Step(c, "statsMu")>>), Free)
<1>1. Legal(t, Writing("statsMu", <<>>), Free)
  <2> DEFINE s == Writing("statsMu", <<>>)
             h == [i \in 1..3 |-> IF i = 2 THEN Set(Free, "statsMu", "w") ELSE Free]
  <2>1. Step("Lock", "statsMu") \in LockSteps /\ Step("Unlock", "statsMu") \in LockSteps
    BY DEF LockSteps, Dos, Step, Mutexes
  <2>2. /\ s \in Seq(LockSteps) /\ Len(s) = 2
        /\ s[1] = Step("Lock", "statsMu") /\ s[2] = Step("Unlock", "statsMu")
    BY <2>1, Around DEF Writing
  <2> HIDE DEF s
  <2>3. h \in [1..3 -> Modes] /\ h[1] = Free /\ h[2] = Set(Free, "statsMu", "w") /\ h[3] = Free
    BY Unlocked DEF Mutexes
  <2>4. May(t, h[1], s[1], h[2]) /\ May(t, h[2], s[2], h[3])
    BY <2>2, <2>3, Unlocked DEF May, Mutexes, Step
  <2> HIDE DEF h
  <2>5. Labels(t, s, h)
    BY <2>2, <2>3, <2>4 DEF Labels
  <2>6. QED
    BY <2>2, <2>3, <2>5 DEF Legal, s
<1>2. ASSUME NEW c \in Changes
      PROVE  Legal(t, Writing("statsMu", <<Step(c, "statsMu")>>), Free)
  <2> DEFINE s == Writing("statsMu", <<Step(c, "statsMu")>>)
             h == [i \in 1..4 |-> IF i \in {2, 3} THEN Set(Free, "statsMu", "w") ELSE Free]
  <2>1. /\ Step("Lock", "statsMu") \in LockSteps /\ Step("Unlock", "statsMu") \in LockSteps
        /\ <<Step(c, "statsMu")>> \in Seq(LockSteps)
    BY DEF LockSteps, Dos, Step, Mutexes, Changes
  <2>2. /\ s \in Seq(LockSteps) /\ Len(s) = 3 /\ s[1] = Step("Lock", "statsMu")
        /\ s[2] = Step(c, "statsMu") /\ s[3] = Step("Unlock", "statsMu")
    BY <2>1, Around DEF Writing
  <2> HIDE DEF s
  <2>3. /\ h \in [1..4 -> Modes] /\ h[1] = Free /\ h[2] = Set(Free, "statsMu", "w")
        /\ h[3] = Set(Free, "statsMu", "w") /\ h[4] = Free
    BY Unlocked DEF Mutexes
  <2>4. May(t, h[1], s[1], h[2]) /\ May(t, h[2], s[2], h[3]) /\ May(t, h[3], s[3], h[4])
    BY <2>2, <2>3, Unlocked DEF May, Mutexes, Step, Changes
  <2> HIDE DEF h
  <2>5. Labels(t, s, h)
    BY <2>2, <2>3, <2>4 DEF Labels
  <2>6. QED
    BY <2>2, <2>3, <2>5 DEF Legal, s
<1>3. QED
  BY <1>1, <1>2

\* replaceUsers takes statsMu inside usersMu.
LEMMA LegalReplaceUsers == Legal(Monitor, ReplaceUsers, Free)
<1> DEFINE u == Set(Free, "usersMu", "w")
           v == Set(u, "statsMu", "w")
           b == Writing("statsMu", <<Step("remove", "statsMu")>>)
           s == Writing("usersMu", b)
           h == [i \in 1..6 |-> IF i \in {2, 5} THEN u ELSE IF i \in {3, 4} THEN v ELSE Free]
<1>0. /\ \A m \in Mutexes : Step("Lock", m) \in LockSteps /\ Step("Unlock", m) \in LockSteps
      /\ <<Step("remove", "statsMu")>> \in Seq(LockSteps)
  BY DEF LockSteps, Dos, Step, Mutexes
<1>1. /\ b \in Seq(LockSteps) /\ Len(b) = 3 /\ b[1] = Step("Lock", "statsMu")
      /\ b[2] = Step("remove", "statsMu") /\ b[3] = Step("Unlock", "statsMu")
  BY <1>0, Around DEF Writing, Mutexes
<1> HIDE DEF b
<1>2. /\ s \in Seq(LockSteps) /\ Len(s) = 5
      /\ s[1] = Step("Lock", "usersMu") /\ s[2] = Step("Lock", "statsMu")
      /\ s[3] = Step("remove", "statsMu") /\ s[4] = Step("Unlock", "statsMu")
      /\ s[5] = Step("Unlock", "usersMu")
  <2>1. /\ s \in Seq(LockSteps) /\ Len(s) = Len(b) + 2
        /\ s[1] = Step("Lock", "usersMu") /\ s[Len(b) + 2] = Step("Unlock", "usersMu")
        /\ \A i \in 1..Len(b) : s[i + 1] = b[i]
    BY <1>1, AroundWriting, Zenon DEF Mutexes
  <2> HIDE DEF s
  <2>2. s[1 + 1] = b[1] /\ s[2 + 1] = b[2] /\ s[3 + 1] = b[3]
    BY <1>1, <2>1
  <2>3. QED
    BY <1>1, <2>1, <2>2
<1> HIDE DEF s
<1>3. u \in Modes /\ v \in Modes /\ Free \in Modes
  BY Unlocked DEF Mutexes
<1>4. /\ h \in [1..6 -> Modes] /\ h[1] = Free /\ h[2] = u
      /\ h[3] = v /\ h[4] = v /\ h[5] = u /\ h[6] = Free
  BY <1>3
<1>5. May(Monitor, Free, s[1], u) /\ May(Monitor, u, s[2], v) /\ May(Monitor, v, s[3], v)
  BY <1>2, <1>3, Unlocked DEF May, Mutexes, Step, Changes
<1>6. May(Monitor, v, s[4], u)
  <2>1. Set(v, "statsMu", "no") = u
    BY DEF Set, Free, Mutexes
  <2>2. v["statsMu"] = "w"
    BY <1>3, Unlocked DEF Mutexes
  <2>3. QED
    BY <1>2, <2>1, <2>2 DEF May, Step
<1>7. May(Monitor, u, s[5], Free)
  BY <1>2, <1>3, Unlocked DEF May, Mutexes, Step
<1> HIDE DEF h, u, v
<1>8. Labels(Monitor, s, h)
  BY <1>2, <1>3, <1>4, <1>5, <1>6, <1>7 DEF Labels
<1>9. QED
  BY <1>2, <1>4, <1>8 DEF Legal, ReplaceUsers, s, b

\* GetOnlineDevice, before it ranges over s.online.
LEMMA LegalOnlineDevice == Legal(Reporter, GetOnlineDevice, Free)
<1> DEFINE u == Set(Free, "statsMu", "r")
           v == Set(Free, "statsMu", "done")
           s == GetOnlineDevice
           h == [i \in 1..4 |-> IF i = 2 THEN u ELSE IF i = 3 THEN v ELSE Free]
<1>1. /\ Step("RLock", "statsMu") \in LockSteps /\ Step("RUnlock", "statsMu") \in LockSteps
      /\ <<Step("range", "statsMu")>> \in Seq(LockSteps)
  BY DEF LockSteps, Dos, Step, Mutexes
<1>2. /\ s \in Seq(LockSteps) /\ Len(s) = 3 /\ s[1] = Step("RLock", "statsMu")
      /\ s[2] = Step("range", "statsMu") /\ s[3] = Step("RUnlock", "statsMu")
  BY <1>1, Around DEF GetOnlineDevice, Reading
<1>3. u \in Modes /\ v \in Modes /\ Free \in Modes
  BY Unlocked DEF Mutexes
<1>4. /\ h \in [1..4 -> Modes] /\ h[1] = Free /\ h[2] = u
      /\ h[3] = v /\ h[4] = Free
  BY <1>3
<1>5. May(Reporter, Free, s[1], u) /\ May(Reporter, v, s[3], Free)
  BY <1>2, <1>3, Unlocked DEF May, Mutexes, Step
<1>6. May(Reporter, u, s[2], v)
  <2>1. Set(u, "statsMu", "done") = v
    BY DEF Set, Free, Mutexes
  <2>2. QED
    BY <1>2, <2>1 DEF May, Step
<1> HIDE DEF h, u, v
<1>8. Labels(Reporter, s, h)
  BY <1>2, <1>3, <1>4, <1>5, <1>6 DEF Labels
<1>9. QED
  BY <1>2, <1>4, <1>8 DEF Legal

\* Every operation can be labelled from nothing to nothing.
LEMMA LegalOperations ==
    ASSUME NEW t \in Threads, NEW op \in Operations(t)
    PROVE  Legal(t, op, Free)
<1>0. /\ Legal(t, UserLookup, Free) /\ Legal(t, Reading("statsMu", <<>>), Free)
      /\ Legal(t, Writing("statsMu", <<>>), Free) /\ Legal(t, <<>>, Free)
      /\ Legal(t, OpenEvent, Free) /\ Legal(t, CloseEvent, Free)
  BY LegalReading, LegalWriting, LegalEmpty, LegalThen
  DEF UserLookup, Mutexes, OpenEvent, CloseEvent, Changes
<1>1. CASE t = Monitor
  <2>1. op = ReplaceUsers
    BY <1>1, ThreadsAssumption DEF Operations
  <2>2. QED
    BY <1>1, <2>1, LegalReplaceUsers
<1>2. CASE t = Reporter
  <2>1. op \in ReportTask
    BY <1>2, ThreadsAssumption DEF Operations
  <2>2. Legal(t, GetOnlineDevice, Free) /\ Legal(t, GetUserTrafficSlice, Free)
    BY <1>0, <1>2, LegalOnlineDevice DEF GetUserTrafficSlice
  <2>3. Legal(t, ConfirmUserTraffic, Free)
    BY <1>0, LegalThen DEF ConfirmUserTraffic
  <2>4. QED
    BY <2>1, <2>2, <2>3, LegalThen DEF ReportTask
<1>3. CASE t \in Consumers
  <2>1. op \in HandleEventLine
    BY <1>3, ThreadsAssumption DEF Operations
  <2>2. ASSUME NEW u \in BOOLEAN, NEW m \in BOOLEAN PROVE Legal(t, GetCounterForEvent(u, m), Free)
    <3> DEFINE a == IF u THEN UserLookup ELSE <<>>
               b == Reading("statsMu", <<>>)
               c == IF m THEN Writing("statsMu", <<>>) ELSE <<>>
    <3>1. Legal(t, a, Free) /\ Legal(t, b, Free) /\ Legal(t, c, Free)
      BY <1>0
    <3>2. GetCounterForEvent(u, m) = (a \o b) \o c
      BY DEF GetCounterForEvent
    <3> HIDE DEF a, b, c
    <3>3. QED
      BY <3>1, <3>2, LegalThen
  <2>3. CASE op = OpenEvent
    BY <1>0, <2>3
  <2>4. CASE op \in {GetCounterForEvent(u, m) : u, m \in BOOLEAN}
    BY <2>2, <2>4
  <2>5. CASE op \in {GetCounterForEvent(u, m) \o CloseEvent : u, m \in BOOLEAN}
    <3>1. PICK u \in BOOLEAN, m \in BOOLEAN : op = GetCounterForEvent(u, m) \o CloseEvent
      BY <2>5
    <3>2. QED
      BY <1>0, <2>2, <3>1, LegalThen
  <2>6. QED
    BY <2>1, <2>3, <2>4, <2>5 DEF HandleEventLine
<1>4. CASE t \in Handlers
  <2>1. op \in HandleAuthorize
    BY <1>4, ThreadsAssumption DEF Operations, Threads
  <2>2. QED
    BY <1>0, <2>1, LegalThen DEF HandleAuthorize
<1>5. QED
  BY <1>1, <1>2, <1>3, <1>4 DEF Threads

\* Steps of one operation, or of two.
LEMMA StepsOf ==
    /\ \A s \in Seq(LockSteps) : Len(s) \in Nat /\ \A i \in 1..Len(s) : s[i] \in LockSteps
    /\ \A a, b \in Seq(LockSteps) :
         /\ a \o b \in Seq(LockSteps) /\ Len(a \o b) = Len(a) + Len(b)
         /\ \A i \in 1..(Len(a) + Len(b)) :
              (a \o b)[i] = IF i <= Len(a) THEN a[i] ELSE b[i - Len(a)]
OBVIOUS

\* One entry of the range.
LEMMA EntrySteps ==
    /\ OnlineEntry \in Seq(LockSteps) /\ Len(OnlineEntry) = 3
    /\ OnlineEntry[1] = Step("RLock", "usersMu")
    /\ OnlineEntry[2] = Step("RUnlock", "usersMu")
    /\ OnlineEntry[3] = Step("read", "statsMu")
<1> DEFINE a == UserLookup
           x == Step("RLock", "usersMu")
           y == Step("RUnlock", "usersMu")
           z == Step("read", "statsMu")
<1>1. x \in LockSteps /\ y \in LockSteps /\ z \in LockSteps
  BY DEF LockSteps, Dos, Step, Mutexes
<1>2. a = <<x>> \o <<>> \o <<y>> /\ <<>> \in Seq(LockSteps) /\ Len(<<>>) = 0
  BY DEF UserLookup, Reading
<1>3. OnlineEntry = a \o <<z>>
  BY DEF OnlineEntry
<1> HIDE DEF a, x, y, z
<1>4. a \in Seq(LockSteps) /\ Len(a) = 2 /\ a[1] = x /\ a[2] = y
  BY <1>1, <1>2, Around
<1>5. /\ OnlineEntry \in Seq(LockSteps) /\ Len(OnlineEntry) = 3
      /\ OnlineEntry[1] = x /\ OnlineEntry[2] = y /\ OnlineEntry[3] = z
  <2>1. /\ <<z>> \in Seq(LockSteps) /\ Len(<<z>>) = 1 /\ <<z>>[1] = z
    BY <1>1
  <2>2. /\ a \o <<z>> \in Seq(LockSteps) /\ Len(a \o <<z>>) = 3
        /\ (a \o <<z>>)[1] = a[1] /\ (a \o <<z>>)[2] = a[2] /\ (a \o <<z>>)[3] = z
    <3>1. /\ Len(a) + Len(<<z>>) = 3
          /\ 1 \in 1..(Len(a) + Len(<<z>>)) /\ 2 \in 1..(Len(a) + Len(<<z>>))
      BY <1>4, <2>1
    <3>2. /\ a \o <<z>> \in Seq(LockSteps) /\ Len(a \o <<z>>) = Len(a) + Len(<<z>>)
          /\ \A i \in 1..(Len(a) + Len(<<z>>)) :
               (a \o <<z>>)[i] = IF i <= Len(a) THEN a[i] ELSE <<z>>[i - Len(a)]
      BY <1>4, <2>1, StepsOf, Zenon
    <3>3. QED
      BY <1>4, <2>1, <3>1, <3>2
  <2>3. QED
    BY <1>3, <1>4, <2>2
<1>6. QED
  BY <1>5 DEF x, y, z

\* Counting in threes: the entries of the range have three steps.
LEMMA Thirds ==
    \A i \in Nat :
        /\ i % 3 \in {0, 1, 2}
        /\ i % 3 = 0 /\ i > 0 => (i - 1) % 3 = 2 /\ (i + 1) % 3 = 1
        /\ i % 3 = 1 => (i - 1) % 3 = 0 /\ (i + 1) % 3 = 2
        /\ i % 3 = 2 => (i - 1) % 3 = 1 /\ (i + 1) % 3 = 0
        /\ \A n \in Nat : i % 3 # 0 /\ i <= 3 * n => i + 1 <= 3 * n
OBVIOUS

\* A range is replaced by its entries, each a lookup in usersMu with statsMu held.
LEMMA LegalRange ==
    ASSUME NEW t, NEW s, NEW q \in Modes, Legal(t, s, q), s # <<>>, Head(s).do = "range",
           NEW n \in Nat,
           NEW e, e = [i \in 1..(3 * n) |-> OnlineEntry[1 + ((i - 1) % 3)]]
    PROVE  /\ t = Reporter /\ q = Set(Free, "statsMu", "r")
           /\ \E r \in {Set(Free, "statsMu", "scan"), Set(Free, "statsMu", "done")} :
                Legal(t, e \o Tail(s), r) /\ (r["statsMu"] = "scan" => n > 0)
<1> DEFINE D == Set(Free, "statsMu", "done")
           S == Set(Free, "statsMu", "scan")
           U == Set(S, "usersMu", "r")
           k == 3 * n
           w == e \o Tail(s)
<1>1. PICK r \in Modes : May(t, q, Head(s), r) /\ Legal(t, Tail(s), r)
  BY LegalTail
<1>2. t = Reporter /\ q = Set(Free, "statsMu", "r") /\ r = Set(q, "statsMu", "done")
  BY <1>1 DEF May, Step, Changes
<1>3. r = D
  BY <1>2 DEF Set, Free, Mutexes
<1>4. D \in Modes /\ S \in Modes /\ U \in Modes
  BY Unlocked DEF Mutexes
<1>5. PICK h : Labels(t, Tail(s), h) /\ h[1] = D
  BY <1>1, <1>3 DEF Legal
<1>6. Tail(s) \in Seq(LockSteps) /\ Len(Tail(s)) \in Nat /\ k \in Nat
  BY <1>1 DEF Legal
<1>7. /\ e \in Seq(LockSteps) /\ Len(e) = k
      /\ \A i \in 1..k : e[i] = OnlineEntry[1 + ((i - 1) % 3)]
  <2>1. \A i \in 1..k : 1 + ((i - 1) % 3) \in 1..3
    BY <1>6
  <2>2. \A i \in 1..3 : OnlineEntry[i] \in LockSteps
    <3>1. OnlineEntry \in Seq(LockSteps) /\ Len(OnlineEntry) = 3
      BY EntrySteps
    <3>2. QED
      BY <3>1, StepsOf
  <2>3. e \in [1..k -> LockSteps]
    BY <2>1, <2>2
  <2>4. QED
    BY <1>6, <2>3
<1>8. /\ w \in Seq(LockSteps) /\ Len(w) = k + Len(Tail(s))
      /\ \A i \in 1..k : w[i] = e[i]
      /\ \A i \in (k + 1)..(k + Len(Tail(s))) : w[i] = Tail(s)[i - k]
  BY <1>6, <1>7
<1> DEFINE f == [i \in 1..(Len(w) + 1) |->
                    IF i <= k THEN IF i % 3 = 2 THEN U ELSE S ELSE h[i - k]]
<1>9. h \in [1..(Len(Tail(s)) + 1) -> Modes] /\ h[Len(Tail(s)) + 1] = Free
  BY <1>5 DEF Labels
<1>10. f \in [1..(Len(w) + 1) -> Modes] /\ f[Len(w) + 1] = Free
  <2> HIDE DEF w, k, D, S, U
  <2>1. \A i \in 1..(Len(w) + 1) : ~(i <= k) => i - k \in 1..(Len(Tail(s)) + 1)
    BY <1>6, <1>8
  <2>2. f \in [1..(Len(w) + 1) -> Modes]
    BY <1>4, <1>9, <2>1
  <2>3. f[Len(w) + 1] = h[(Len(w) + 1) - k] /\ (Len(w) + 1) - k = Len(Tail(s)) + 1
    BY <1>6, <1>8, SMTT(30)
  <2>4. QED
    BY <1>9, <2>2, <2>3
<1>11. /\ May(t, S, OnlineEntry[1], U) /\ May(t, U, OnlineEntry[2], S)
       /\ May(t, S, OnlineEntry[3], S) /\ May(t, S, OnlineEntry[3], D)
  <2>1. Set(U, "usersMu", "no") = S /\ Set(S, "statsMu", "done") = D
    BY DEF Set, Free, Mutexes
  <2>2. S["usersMu"] = "no" /\ S["statsMu"] = "scan" /\ U["usersMu"] = "r"
    BY <1>4, Unlocked DEF Mutexes
  <2> HIDE DEF D
  <2>3. May(t, S, OnlineEntry[3], S) /\ May(t, S, OnlineEntry[3], D)
    BY <2>1, EntrySteps DEF May, Step
  <2>4. May(t, S, OnlineEntry[1], U)
    BY <2>2, EntrySteps DEF May, Step
  <2> HIDE DEF S, U
  <2>5. May(t, U, OnlineEntry[2], S)
    BY <2>1, <2>2, EntrySteps DEF May, Step
  <2>6. QED
    BY <2>3, <2>4, <2>5
<1>12. ASSUME NEW i \in 1..Len(w) PROVE May(t, f[i], w[i], f[i + 1])
  <2> HIDE DEF w, D, S, U
  <2>1. CASE i <= k
    <3>1. i \in 1..k /\ w[i] = OnlineEntry[1 + ((i - 1) % 3)]
      BY <1>6, <1>7, <1>8, <2>1
    <3>0. i \in Nat /\ i > 0 /\ i <= 3 * n
      BY <3>1
    <3>7. i \in 1..(Len(w) + 1) /\ i + 1 \in 1..(Len(w) + 1)
      BY <1>6, <1>8, <3>1
    <3>8. /\ i % 3 = 0 => (i - 1) % 3 = 2 /\ (i + 1) % 3 = 1
          /\ i % 3 = 1 => (i - 1) % 3 = 0 /\ (i + 1) % 3 = 2
          /\ i % 3 = 2 => (i - 1) % 3 = 1 /\ (i + 1) % 3 = 0
          /\ i % 3 # 0 => i + 1 <= 3 * n
      BY <3>0, Thirds, Zenon
    <3>9. 1 + 0 = 1 /\ 1 + 1 = 2 /\ 1 + 2 = 3 /\ 0 # 2 /\ 1 # 2
      OBVIOUS
    <3>2. CASE i % 3 = 1
      <4>1. (i - 1) % 3 = 0 /\ (i + 1) % 3 = 2 /\ i + 1 <= k
        BY <3>8, <3>2
      <4>2. f[i] = S /\ f[i + 1] = U /\ w[i] = OnlineEntry[1]
        BY <2>1, <3>1, <3>2, <3>7, <3>9, <4>1
      <4>3. QED
        BY <1>11, <4>2
    <3>3. CASE i % 3 = 2
      <4>1. (i - 1) % 3 = 1 /\ (i + 1) % 3 = 0 /\ i + 1 <= k
        BY <3>8, <3>3
      <4>2. f[i] = U /\ f[i + 1] = S /\ w[i] = OnlineEntry[2]
        BY <2>1, <3>1, <3>3, <3>7, <3>9, <4>1
      <4>3. QED
        BY <1>11, <4>2
    <3>4. CASE i % 3 = 0
      <4>1. (i - 1) % 3 = 2 /\ (i + 1) % 3 = 1
        BY <3>8, <3>4
      <4>2. f[i] = S /\ w[i] = OnlineEntry[3]
        BY <2>1, <3>1, <3>4, <3>7, <3>9, <4>1
      <4>3. CASE i + 1 <= k
        <5>1. f[i + 1] = S
          BY <3>7, <3>9, <4>1, <4>3
        <5>2. QED
          BY <1>11, <4>2, <5>1
      <4>4. CASE ~(i + 1 <= k)
        <5>1. i + 1 \in 1..(Len(w) + 1) /\ (i + 1) - k = 1
          <6>1. (i + 1) - k = 1
            BY <1>6, <3>1, <4>4
          <6>2. QED
            BY <3>7, <6>1
        <5>2. f[i + 1] = D
          BY <1>5, <4>4, <5>1
        <5>3. QED
          BY <1>11, <4>2, <5>2
      <4>5. QED
        BY <4>3, <4>4
    <3>5. i % 3 \in {0, 1, 2}
      BY <3>0, Thirds
    <3>6. QED
      BY <3>2, <3>3, <3>4, <3>5
  <2>2. CASE i > k
    <3>0. /\ i - k \in 1..Len(Tail(s)) /\ (i + 1) - k = (i - k) + 1 /\ ~(i + 1 <= k)
          /\ i \in 1..(Len(w) + 1) /\ i + 1 \in 1..(Len(w) + 1) /\ ~(i <= k)
          /\ i \in (k + 1)..(k + Len(Tail(s)))
      <4>1. k \in Nat /\ Len(Tail(s)) \in Nat /\ Len(w) = k + Len(Tail(s))
        BY <1>6, <1>8
      <4>2. i \in Nat /\ i <= k + Len(Tail(s))
        BY <4>1
      <4> HIDE DEF k
      <4>3. QED
        BY <2>2, <4>1, <4>2
    <3>1. /\ f[i] = h[i - k] /\ f[i + 1] = h[(i - k) + 1] /\ w[i] = Tail(s)[i - k]
          /\ i - k \in 1..Len(Tail(s))
      BY <1>8, <3>0
    <3>2. QED
      BY <1>5, <3>1 DEF Labels
  <2>3. QED
    BY <1>6, <1>8, <2>1, <2>2, SMTT(30)
<1>13. f[1] = (IF n = 0 THEN D ELSE S)
  <2> HIDE DEF w, D, S, U
  <2>1. 1 \in 1..(Len(w) + 1) /\ 1 % 3 = 1 /\ (1 <= k <=> n # 0) /\ (n = 0 => 1 - k = 1)
    BY <1>6, <1>8
  <2>2. QED
    BY <1>5, <2>1
<1>14. Legal(t, w, f[1])
  <2> HIDE DEF w, f
  <2>1. QED
    BY <1>8, <1>10, <1>12 DEF Legal, Labels
<1>15. D["statsMu"] = "done" /\ S["statsMu"] = "scan"
  BY <1>4, Unlocked DEF Mutexes
<1>16. QED
  <2> HIDE DEF w, D, S, U, f
  <2>1. f[1] \in {S, D} /\ (f[1]["statsMu"] = "scan" => n > 0)
    BY <1>13, <1>15
  <2>2. QED
    BY <1>2, <1>14, <2>1 DEF w, D, S

-------------------------------------------------------------------------------
(***************************************************************************)
(* The steps.                                                              *)
(***************************************************************************)

\* What a step requires and what it leaves, by its kind.
LEMMA MayByKind ==
    ASSUME NEW t, NEW q \in Modes, NEW x \in LockSteps, NEW r, May(t, q, x, r)
    PROVE  /\ x.on \in Mutexes /\ x = Step(x.do, x.on)
           /\ x.do = "RLock" =>
                /\ r = Set(q, x.on, "r") /\ q[x.on] = "no"
                /\ x.on = "usersMu" => q["statsMu"] \in {"no", "scan"}
                /\ x.on = "statsMu" => q["usersMu"] = "no"
           /\ x.do = "RUnlock" => r = Set(q, x.on, "no") /\ q[x.on] \in {"r", "done"}
           /\ x.do = "Lock" =>
                /\ r = Set(q, x.on, "w") /\ q[x.on] = "no"
                /\ x.on = "usersMu" => t = Monitor /\ q["statsMu"] = "no"
                /\ x.on = "statsMu" => q["usersMu"] \in {"no", "w"}
           /\ x.do = "Unlock" => r = Set(q, x.on, "no") /\ q[x.on] = "w"
           /\ x.do \in Changes => r = q /\ q["statsMu"] = "w"
           /\ x.do \in Reads => q["statsMu"] \in Shared
           /\ x.do = "read" => r \in {q, Set(q, "statsMu", "done")} /\ q["statsMu"] = "scan"
<1>1. x.on \in Mutexes /\ x.do \in Dos /\ x = Step(x.do, x.on)
  BY DEF LockSteps, Step
<1>2. Free["usersMu"] = "no" /\ Free["statsMu"] = "no"
  BY DEF Free, Mutexes
<1>3. /\ Set(Free, "statsMu", "r")["statsMu"] = "r"
      /\ Set(Free, "statsMu", "scan")["statsMu"] = "scan"
  BY DEF Set, Free, Mutexes
<1>4. CASE x.do \in {"RLock", "RUnlock", "Lock", "Unlock"}
  BY <1>1, <1>2, <1>4 DEF May, Step, Mutexes, Changes, Reads
<1>5. CASE x.do \in Changes \cup Reads
  BY <1>1, <1>2, <1>3, <1>5 DEF May, Step, Mutexes, Changes, Reads, Shared
<1>6. QED
  BY <1>1, <1>4, <1>5 DEF Dos, Changes, Reads

\* A labelling of all goroutines.
Labelled(Q) ==
    \A u \in Threads : Q[u] \in Modes /\ Legal(u, todo[u], Q[u]) /\ Holds(u, Q[u])

\* The labels of the invariant, chosen once for all goroutines.
LEMMA AllLabelled == LocksInv => \E Q : Labelled(Q)
<1> SUFFICES ASSUME LocksInv PROVE \E Q : Labelled(Q)
  OBVIOUS
<1> DEFINE Q == [u \in Threads |-> CHOOSE q \in Modes : Legal(u, todo[u], q) /\ Holds(u, q)]
<1>1. ASSUME NEW u \in Threads
      PROVE  Q[u] \in Modes /\ Legal(u, todo[u], Q[u]) /\ Holds(u, Q[u])
  <2>1. \E q \in Modes : Legal(u, todo[u], q) /\ Holds(u, q)
    BY DEF LocksInv
  <2>2. QED
    BY <2>1
<1>2. QED
  BY <1>1 DEF Labelled

\* A goroutine that runs: its next step and its labels before and after.
LEMMA AtStep ==
    ASSUME LocksInv, NEW Q, Labelled(Q), NEW t \in Threads, todo[t] # <<>>
    PROVE  /\ Head(todo[t]) \in LockSteps /\ Tail(todo[t]) \in Seq(LockSteps)
           /\ \E r \in Modes : May(t, Q[t], Head(todo[t]), r) /\ Legal(t, Tail(todo[t]), r)
<1>1. Q[t] \in Modes /\ Legal(t, todo[t], Q[t])
  BY DEF Labelled
<1>2. QED
  BY <1>1, LegalTail

\* A new server: nobody holds anything.
LEMMA InitLocks == Init => LocksInv
<1> SUFFICES ASSUME Init PROVE LocksInv
  OBVIOUS
<1>1. MutexesTyped
  BY MaxOnlineAssumption DEF Init, MutexesTyped, Fresh
<1>2. ASSUME NEW t \in Threads PROVE Legal(t, todo[t], Free) /\ Holds(t, Free)
  <2>1. Legal(t, todo[t], Free)
    BY LegalEmpty DEF Init
  <2>2. Holds(t, Free)
    BY ThreadsAssumption, Unlocked DEF Init, Holds, Fresh, Free, Shared, Mutexes
  <2>3. QED
    BY <2>1, <2>2
<1>3. QED
  BY <1>1, <1>2, Unlocked DEF LocksInv

\* A reload starts a new server.
LEMMA ReloadLocks == ASSUME NEW t, Reload(t) PROVE LocksInv'
<1>1. MutexesTyped'
  BY MaxOnlineAssumption DEF Reload, MutexesTyped, Fresh
<1>2. ASSUME NEW u \in Threads PROVE Legal(u, todo'[u], Free) /\ Holds(u, Free)'
  <2>1. Legal(u, todo'[u], Free)
    BY LegalEmpty DEF Reload
  <2>2. Holds(u, Free)'
    BY ThreadsAssumption, Unlocked DEF Reload, Holds, Fresh, Free, Shared, Mutexes
  <2>3. QED
    BY <2>1, <2>2
<1>3. QED
  BY <1>1, <1>2, Unlocked DEF LocksInv

\* An operation begins with nothing held.
LEMMA BeginLocks == ASSUME LocksInv, NEW t \in Threads, Begin(t) PROVE LocksInv'
<1>1. PICK Q : Labelled(Q)
  BY AllLabelled
<1>2. PICK op \in Operations(t) : todo' = [todo EXCEPT ![t] = op]
  BY DEF Begin
<1>3. Legal(t, op, Free) /\ op \in Seq(LockSteps)
  BY LegalOperations DEF Legal
<1>4. /\ todo[t] = <<>> /\ writer' = writer /\ readers' = readers /\ queued' = queued
      /\ online' = online
  BY DEF Begin, locks
<1>5. Q[t] = Free
  BY <1>1, <1>4, LegalEmpty DEF Labelled
<1>6. MutexesTyped'
  BY <1>2, <1>3, <1>4 DEF LocksInv, MutexesTyped
<1>7. todo'[t] = op /\ \A u \in Threads \ {t} : todo'[u] = todo[u]
  BY <1>2 DEF LocksInv, MutexesTyped
<1>8. ASSUME NEW u \in Threads PROVE Legal(u, todo'[u], Q[u]) /\ Holds(u, Q[u])'
  <2>1. Holds(u, Q[u]) /\ Legal(u, todo[u], Q[u])
    BY <1>1 DEF Labelled
  <2>2. CASE u # t
    BY <1>4, <1>7, <2>1, <2>2 DEF Holds
  <2>3. CASE u = t
    BY <1>3, <1>4, <1>5, <1>7, <2>1, <2>3 DEF Holds
  <2>4. QED
    BY <2>2, <2>3
<1>9. QED
  BY <1>1, <1>6, <1>8 DEF LocksInv, Labelled

\* A pending writer holds nothing yet; it is known by its next step.
LEMMA AnnounceLocks == ASSUME LocksInv, NEW t \in Threads, Announce(t) PROVE LocksInv'
<1>1. PICK Q : Labelled(Q)
  BY AllLabelled
<1> DEFINE m == Head(todo[t]).on
<1>2. /\ todo[t] # <<>> /\ Head(todo[t]).do = "Lock" /\ writer[m] = NoOne
      /\ writer' = [writer EXCEPT ![m] = t]
      /\ todo' = todo /\ readers' = readers /\ queued' = queued /\ online' = online
  BY DEF Announce, At
<1>3. m \in Mutexes /\ Head(todo[t]) = Step("Lock", m)
  BY <1>1, <1>2, AtStep DEF LockSteps, Step
<1> HIDE DEF m
<1>4. writer'[m] = t /\ \A n \in Mutexes : n # m => writer'[n] = writer[n]
  BY <1>2, <1>3 DEF LocksInv, MutexesTyped
<1>5. MutexesTyped'
  BY <1>2, <1>3, <1>4, ThreadsAssumption DEF LocksInv, MutexesTyped
<1>6. ASSUME NEW u \in Threads PROVE Legal(u, todo'[u], Q[u]) /\ Holds(u, Q[u])'
  <2>1. Holds(u, Q[u]) /\ Legal(u, todo[u], Q[u])
    BY <1>1 DEF Labelled
  <2>2. Holds(u, Q[u])'
    BY <1>2, <1>3, <1>4, <2>1, ThreadsAssumption DEF Holds
  <2>3. QED
    BY <1>2, <2>1, <2>2
<1>9. QED
  BY <1>1, <1>5, <1>6 DEF LocksInv, Labelled

\* A goroutine has done its next step.
LEMMA DoneStep ==
    ASSUME LocksInv, NEW Q, Labelled(Q), NEW t \in Threads, todo[t] # <<>>, todo' = Done({t})
    PROVE  /\ todo' \in [Threads -> Seq(LockSteps)] /\ todo'[t] = Tail(todo[t])
           /\ \A u \in Threads : u # t => todo'[u] = todo[u]
<1>1. Tail(todo[t]) \in Seq(LockSteps)
  BY AtStep
<1>2. QED
  BY <1>1 DEF Done, LocksInv, MutexesTyped

\* RLock enters, or queues behind the writer.
LEMMA RLockLocks == ASSUME LocksInv, NEW t \in Threads, RLock(t) PROVE LocksInv'
<1>1. PICK Q : Labelled(Q)
  BY AllLabelled
<1> DEFINE m == Head(todo[t]).on
<1>2. todo[t] # <<>> /\ Head(todo[t]).do = "RLock" /\ writer' = writer /\ online' = online
  BY DEF RLock, At
<1>3. PICK r \in Modes : May(t, Q[t], Head(todo[t]), r) /\ Legal(t, Tail(todo[t]), r)
  BY <1>1, <1>2, AtStep
<1>4. Head(todo[t]) \in LockSteps /\ Q[t] \in Modes
  BY <1>1, <1>2, AtStep DEF Labelled
<1>5. /\ m \in Mutexes /\ Head(todo[t]) = Step("RLock", m)
      /\ r = Set(Q[t], m, "r") /\ Q[t][m] = "no"
  BY <1>2, <1>3, <1>4, MayByKind
<1>6. /\ \/ /\ writer[m] = NoOne /\ queued' = queued
            /\ readers' = [readers EXCEPT ![m] = @ \cup {t}] /\ todo' = Done({t})
         \/ /\ writer[m] # NoOne /\ readers' = readers /\ todo' = todo
            /\ queued' = [queued EXCEPT ![m] = @ \cup {t}]
  BY DEF RLock
<1> HIDE DEF m
<1>7. CASE writer[m] = NoOne
  <2>1. /\ queued' = queued /\ readers' = [readers EXCEPT ![m] = @ \cup {t}]
        /\ todo' = Done({t})
    BY <1>6, <1>7
  <2>2. /\ todo' \in [Threads -> Seq(LockSteps)] /\ todo'[t] = Tail(todo[t])
        /\ \A u \in Threads : u # t => todo'[u] = todo[u]
    BY <1>1, <1>2, <2>1, DoneStep
  <2>3. /\ readers'[m] = readers[m] \cup {t}
        /\ \A n \in Mutexes : n # m => readers'[n] = readers[n]
    BY <1>5, <2>1 DEF LocksInv, MutexesTyped
  <2>4. MutexesTyped'
    BY <1>2, <1>5, <2>1, <2>2 DEF LocksInv, MutexesTyped
  <2>5. ASSUME NEW u \in Threads, u # t PROVE Legal(u, todo'[u], Q[u]) /\ Holds(u, Q[u])'
    <3>1. Holds(u, Q[u]) /\ Legal(u, todo[u], Q[u])
      BY <1>1 DEF Labelled
    <3>2. Holds(u, Q[u])'
      BY <1>2, <1>5, <1>7, <2>1, <2>2, <2>3, <2>5, <3>1, ThreadsAssumption DEF Holds
    <3>3. QED
      BY <2>2, <2>5, <3>1, <3>2
  <2>6. Legal(t, todo'[t], r) /\ Holds(t, r)'
    <3>1. Holds(t, Q[t])
      BY <1>1 DEF Labelled
    <3>2. /\ r[m] = "r" /\ \A n \in Mutexes : n # m => r[n] = Q[t][n]
      BY <1>4, <1>5, Unlocked
    <3>3. queued[m] = {}
      BY <1>5, <1>7 DEF LocksInv, MutexesTyped
    <3>4. ASSUME NEW n \in Mutexes
          PROVE  /\ t \in readers'[n] <=> r[n] \in Shared
                 /\ r[n] = "w" => writer'[n] = t /\ readers'[n] = {}
                 /\ writer'[n] = t => \/ r[n] = "w"
                                      \/ todo'[t] # <<>> /\ Head(todo'[t]) = Step("Lock", n)
                 /\ t \in queued'[n] => todo'[t] # <<>> /\ Head(todo'[t]) = Step("RLock", n)
      <4>1. CASE n = m
        BY <1>2, <1>5, <1>7, <2>1, <2>3, <3>2, <3>3, <4>1, ThreadsAssumption DEF Shared
      <4>2. CASE n # m
        BY <1>2, <1>5, <2>1, <2>3, <3>1, <3>2, <4>2 DEF Holds, Step
      <4>3. QED
        BY <4>1, <4>2
    <3>5. /\ r["usersMu"] = "w" => t = Monitor
          /\ r["statsMu"] = "scan" => t = Reporter /\ online' > 0
      BY <1>2, <3>1, <3>2 DEF Holds, Mutexes
    <3>6. QED
      BY <1>3, <2>2, <3>4, <3>5 DEF Holds
  <2>7. QED
    BY <1>1, <2>4, <2>5, <2>6 DEF LocksInv, Labelled
<1>8. CASE writer[m] # NoOne
  <2>1. /\ readers' = readers /\ todo' = todo /\ queued' = [queued EXCEPT ![m] = @ \cup {t}]
    BY <1>6, <1>8
  <2>2. MutexesTyped'
    BY <1>2, <1>5, <1>8, <2>1 DEF LocksInv, MutexesTyped
  <2>3. \A n \in Mutexes, u \in Threads :
          u \in queued'[n] => u \in queued[n] \/ (u = t /\ n = m)
    BY <1>5, <2>1 DEF LocksInv, MutexesTyped
  <2>4. ASSUME NEW u \in Threads PROVE Legal(u, todo'[u], Q[u]) /\ Holds(u, Q[u])'
    <3>1. Holds(u, Q[u]) /\ Legal(u, todo[u], Q[u])
      BY <1>1 DEF Labelled
    <3>2. Holds(u, Q[u])'
      BY <1>2, <1>5, <2>1, <2>3, <3>1 DEF Holds
    <3>3. QED
      BY <2>1, <3>1, <3>2
  <2>5. QED
    BY <1>1, <2>2, <2>4 DEF LocksInv, Labelled
<1>9. QED
  BY <1>7, <1>8

\* RUnlock takes the reader out of the mutex.
LEMMA RUnlockLocks == ASSUME LocksInv, NEW t \in Threads, RUnlock(t) PROVE LocksInv'
<1>1. PICK Q : Labelled(Q)
  BY AllLabelled
<1> DEFINE m == Head(todo[t]).on
<1>2. /\ todo[t] # <<>> /\ Head(todo[t]).do = "RUnlock" /\ writer' = writer /\ online' = online
      /\ queued' = queued /\ readers' = [readers EXCEPT ![m] = @ \ {t}] /\ todo' = Done({t})
  BY DEF RUnlock, At
<1>3. PICK r \in Modes : May(t, Q[t], Head(todo[t]), r) /\ Legal(t, Tail(todo[t]), r)
  BY <1>1, <1>2, AtStep
<1>4. Head(todo[t]) \in LockSteps /\ Q[t] \in Modes
  BY <1>1, <1>2, AtStep DEF Labelled
<1>5. /\ m \in Mutexes /\ Head(todo[t]) = Step("RUnlock", m)
      /\ r = Set(Q[t], m, "no") /\ Q[t][m] \in {"r", "done"}
  BY <1>2, <1>3, <1>4, MayByKind
<1> HIDE DEF m
<1>6. /\ todo' \in [Threads -> Seq(LockSteps)] /\ todo'[t] = Tail(todo[t])
      /\ \A u \in Threads : u # t => todo'[u] = todo[u]
  BY <1>1, <1>2, DoneStep
<1>7. /\ readers'[m] = readers[m] \ {t}
      /\ \A n \in Mutexes : n # m => readers'[n] = readers[n]
  BY <1>2, <1>5 DEF LocksInv, MutexesTyped
<1>8. MutexesTyped'
  BY <1>2, <1>5, <1>6 DEF LocksInv, MutexesTyped
<1>9. ASSUME NEW u \in Threads, u # t PROVE Legal(u, todo'[u], Q[u]) /\ Holds(u, Q[u])'
  <2>1. Holds(u, Q[u]) /\ Legal(u, todo[u], Q[u])
    BY <1>1 DEF Labelled
  <2>2. Holds(u, Q[u])'
    BY <1>2, <1>5, <1>6, <1>7, <1>9, <2>1 DEF Holds
  <2>3. QED
    BY <1>6, <1>9, <2>1, <2>2
<1>10. Legal(t, todo'[t], r) /\ Holds(t, r)'
  <2>1. Holds(t, Q[t])
    BY <1>1 DEF Labelled
  <2>2. /\ r[m] = "no" /\ \A n \in Mutexes : n # m => r[n] = Q[t][n]
    BY <1>4, <1>5, Unlocked
  <2>3. ASSUME NEW n \in Mutexes
        PROVE  /\ t \in readers'[n] <=> r[n] \in Shared
               /\ r[n] = "w" => writer'[n] = t /\ readers'[n] = {}
               /\ writer'[n] = t => \/ r[n] = "w"
                                    \/ todo'[t] # <<>> /\ Head(todo'[t]) = Step("Lock", n)
               /\ t \in queued'[n] => todo'[t] # <<>> /\ Head(todo'[t]) = Step("RLock", n)
    <3>1. CASE n = m
      BY <1>2, <1>5, <1>7, <2>1, <2>2, <3>1 DEF Shared, Holds, Step
    <3>2. CASE n # m
      BY <1>2, <1>5, <1>7, <2>1, <2>2, <3>2 DEF Holds, Step
    <3>3. QED
      BY <3>1, <3>2
  <2>4. /\ r["usersMu"] = "w" => t = Monitor
        /\ r["statsMu"] = "scan" => t = Reporter /\ online' > 0
    BY <1>2, <2>1, <2>2 DEF Holds, Mutexes
  <2>5. QED
    BY <1>3, <1>6, <2>3, <2>4 DEF Holds
<1>11. QED
  BY <1>1, <1>8, <1>9, <1>10 DEF LocksInv, Labelled

\* The pending writer is inside once the readers are gone.
LEMMA AcquireLocks == ASSUME LocksInv, NEW t \in Threads, Acquire(t) PROVE LocksInv'
<1>1. PICK Q : Labelled(Q)
  BY AllLabelled
<1> DEFINE m == Head(todo[t]).on
<1>2. /\ todo[t] # <<>> /\ Head(todo[t]).do = "Lock" /\ writer' = writer /\ online' = online
      /\ writer[m] = t /\ readers[m] = {}
      /\ queued' = queued /\ readers' = readers /\ todo' = Done({t})
  BY DEF Acquire, At, locks
<1>3. PICK r \in Modes : May(t, Q[t], Head(todo[t]), r) /\ Legal(t, Tail(todo[t]), r)
  BY <1>1, <1>2, AtStep
<1>4. Head(todo[t]) \in LockSteps /\ Q[t] \in Modes
  BY <1>1, <1>2, AtStep DEF Labelled
<1>5. /\ m \in Mutexes /\ Head(todo[t]) = Step("Lock", m)
      /\ r = Set(Q[t], m, "w") /\ Q[t][m] = "no" /\ (m = "usersMu" => t = Monitor)
  BY <1>2, <1>3, <1>4, MayByKind
<1> HIDE DEF m
<1>6. /\ todo' \in [Threads -> Seq(LockSteps)] /\ todo'[t] = Tail(todo[t])
      /\ \A u \in Threads : u # t => todo'[u] = todo[u]
  BY <1>1, <1>2, DoneStep
<1>7. MutexesTyped'
  BY <1>2, <1>5, <1>6 DEF LocksInv, MutexesTyped
<1>8. ASSUME NEW u \in Threads, u # t PROVE Legal(u, todo'[u], Q[u]) /\ Holds(u, Q[u])'
  <2>1. Holds(u, Q[u]) /\ Legal(u, todo[u], Q[u])
    BY <1>1 DEF Labelled
  <2>2. Holds(u, Q[u])'
    BY <1>2, <1>6, <1>8, <2>1 DEF Holds
  <2>3. QED
    BY <1>6, <1>8, <2>1, <2>2
<1>9. Legal(t, todo'[t], r) /\ Holds(t, r)'
  <2>1. Holds(t, Q[t])
    BY <1>1 DEF Labelled
  <2>2. /\ r[m] = "w" /\ \A n \in Mutexes : n # m => r[n] = Q[t][n]
    BY <1>4, <1>5, Unlocked
  <2>3. ASSUME NEW n \in Mutexes
        PROVE  /\ t \in readers'[n] <=> r[n] \in Shared
               /\ r[n] = "w" => writer'[n] = t /\ readers'[n] = {}
               /\ writer'[n] = t => \/ r[n] = "w"
                                    \/ todo'[t] # <<>> /\ Head(todo'[t]) = Step("Lock", n)
               /\ t \in queued'[n] => todo'[t] # <<>> /\ Head(todo'[t]) = Step("RLock", n)
    <3>1. CASE n = m
      BY <1>2, <1>5, <2>1, <2>2, <3>1 DEF Shared, Holds, Step
    <3>2. CASE n # m
      BY <1>2, <1>5, <2>1, <2>2, <3>2 DEF Holds, Step
    <3>3. QED
      BY <3>1, <3>2
  <2>4. /\ r["usersMu"] = "w" => t = Monitor
        /\ r["statsMu"] = "scan" => t = Reporter /\ online' > 0
    BY <1>2, <1>5, <2>1, <2>2 DEF Holds, Mutexes
  <2>5. QED
    BY <1>3, <1>6, <2>3, <2>4 DEF Holds
<1>10. QED
  BY <1>1, <1>7, <1>8, <1>9 DEF LocksInv, Labelled

\* Unlock lets the queued readers in: their labels change with their steps.
LEMMA UnlockLocks == ASSUME LocksInv, NEW t \in Threads, Unlock(t) PROVE LocksInv'
<1>1. PICK Q : Labelled(Q)
  BY AllLabelled
<1> DEFINE m == Head(todo[t]).on
<1>2. /\ todo[t] # <<>> /\ Head(todo[t]).do = "Unlock" /\ online' = online
      /\ writer' = [writer EXCEPT ![m] = NoOne]
      /\ readers' = [readers EXCEPT ![m] = queued[m]]
      /\ queued' = [queued EXCEPT ![m] = {}]
      /\ todo' = Done({t} \cup queued[m])
  BY DEF Unlock, At
<1>3. PICK r \in Modes : May(t, Q[t], Head(todo[t]), r) /\ Legal(t, Tail(todo[t]), r)
  BY <1>1, <1>2, AtStep
<1>4. Head(todo[t]) \in LockSteps /\ Q[t] \in Modes /\ Holds(t, Q[t])
  BY <1>1, <1>2, AtStep DEF Labelled
<1>5. /\ m \in Mutexes /\ Head(todo[t]) = Step("Unlock", m)
      /\ r = Set(Q[t], m, "no") /\ Q[t][m] = "w"
  BY <1>2, <1>3, <1>4, MayByKind
<1> HIDE DEF m
<1>6. readers[m] = {} /\ writer[m] = t
  BY <1>4, <1>5 DEF Holds
<1>7. \A u \in queued[m] : /\ u \in Threads /\ u # t /\ todo[u] # <<>>
                           /\ Head(todo[u]) = Step("RLock", m)
  <2>1. queued[m] \subseteq Threads
    BY <1>5 DEF LocksInv, MutexesTyped
  <2>2. \A u \in queued[m] : todo[u] # <<>> /\ Head(todo[u]) = Step("RLock", m)
    BY <1>1, <1>5, <2>1 DEF Labelled, Holds
  <2>3. Step("RLock", m) # Step("Unlock", m)
    BY DEF Step
  <2>4. QED
    BY <1>5, <2>1, <2>2, <2>3
<1>8. /\ todo' \in [Threads -> Seq(LockSteps)]
      /\ \A u \in Threads : u = t \/ u \in queued[m] => todo'[u] = Tail(todo[u])
      /\ \A u \in Threads : u # t /\ u \notin queued[m] => todo'[u] = todo[u]
  <2>1. ASSUME NEW u \in Threads
        PROVE  /\ todo[u] \in Seq(LockSteps)
               /\ u \in {t} \cup queued[m] => Tail(todo[u]) \in Seq(LockSteps)
    <3>1. u \in {t} \cup queued[m] => todo[u] # <<>>
      BY <1>2, <1>7
    <3>2. QED
      BY <1>1, <3>1, AtStep DEF LocksInv, MutexesTyped
  <2>2. QED
    BY <1>2, <2>1 DEF Done
<1>9. /\ writer'[m] = NoOne /\ readers'[m] = queued[m] /\ queued'[m] = {}
      /\ \A n \in Mutexes : n # m => /\ writer'[n] = writer[n] /\ readers'[n] = readers[n]
                                     /\ queued'[n] = queued[n]
  BY <1>2, <1>5 DEF LocksInv, MutexesTyped
<1>10. MutexesTyped'
  BY <1>2, <1>5, <1>8, <1>9 DEF LocksInv, MutexesTyped
<1>11. Legal(t, todo'[t], r) /\ Holds(t, r)'
  <2>1. /\ r[m] = "no" /\ \A n \in Mutexes : n # m => r[n] = Q[t][n]
    BY <1>4, <1>5, Unlocked
  <2>2. ASSUME NEW n \in Mutexes
        PROVE  /\ t \in readers'[n] <=> r[n] \in Shared
               /\ r[n] = "w" => writer'[n] = t /\ readers'[n] = {}
               /\ writer'[n] = t => \/ r[n] = "w"
                                    \/ todo'[t] # <<>> /\ Head(todo'[t]) = Step("Lock", n)
               /\ t \in queued'[n] => todo'[t] # <<>> /\ Head(todo'[t]) = Step("RLock", n)
    <3>1. CASE n = m
      BY <1>7, <1>9, <2>1, <3>1, ThreadsAssumption DEF Shared
    <3>2. CASE n # m
      BY <1>4, <1>5, <1>9, <2>1, <3>2 DEF Holds, Step
    <3>3. QED
      BY <3>1, <3>2
  <2>3. /\ r["usersMu"] = "w" => t = Monitor
        /\ r["statsMu"] = "scan" => t = Reporter /\ online' > 0
    BY <1>2, <1>4, <2>1 DEF Holds, Mutexes
  <2>4. QED
    BY <1>3, <1>8, <2>2, <2>3 DEF Holds
<1>12. ASSUME NEW u \in queued[m]
       PROVE  \E q \in Modes : Legal(u, todo'[u], q) /\ Holds(u, q)'
  <2>0. u \in Threads /\ u # t /\ todo[u] # <<>> /\ Head(todo[u]) = Step("RLock", m)
    BY <1>7
  <2>1. PICK q \in Modes : May(u, Q[u], Head(todo[u]), q) /\ Legal(u, Tail(todo[u]), q)
    BY <1>1, <2>0, AtStep
  <2>2. Head(todo[u]) \in LockSteps /\ Q[u] \in Modes /\ Holds(u, Q[u])
    BY <1>1, <2>0, AtStep DEF Labelled
  <2>3. Head(todo[u]).do = "RLock" /\ Head(todo[u]).on = m
    BY <2>0 DEF Step
  <2>4. q = Set(Q[u], m, "r") /\ Q[u][m] = "no"
    BY <2>1, <2>2, <2>3, MayByKind
  <2>5. q[m] = "r" /\ \A n \in Mutexes : n # m => q[n] = Q[u][n]
    BY <1>5, <2>2, <2>4, Unlocked
  <2>6. ASSUME NEW n \in Mutexes
        PROVE  /\ u \in readers'[n] <=> q[n] \in Shared
               /\ q[n] = "w" => writer'[n] = u /\ readers'[n] = {}
               /\ writer'[n] = u => \/ q[n] = "w"
                                    \/ todo'[u] # <<>> /\ Head(todo'[u]) = Step("Lock", n)
               /\ u \in queued'[n] => todo'[u] # <<>> /\ Head(todo'[u]) = Step("RLock", n)
    <3>1. CASE n = m
      BY <1>9, <2>0, <2>5, <3>1, ThreadsAssumption DEF Shared
    <3>2. CASE n # m
      <4>1. Step("RLock", m) # Step("Lock", n) /\ Step("RLock", m) # Step("RLock", n)
        BY <3>2 DEF Step
      <4>2. QED
        BY <1>9, <2>0, <2>2, <2>5, <3>2, <4>1 DEF Holds
    <3>3. QED
      BY <3>1, <3>2
  <2>7. /\ q["usersMu"] = "w" => u = Monitor
        /\ q["statsMu"] = "scan" => u = Reporter /\ online' > 0
    BY <1>2, <2>2, <2>5 DEF Holds, Mutexes
  <2>8. QED
    BY <1>8, <2>0, <2>1, <2>6, <2>7 DEF Holds
<1>13. ASSUME NEW u \in Threads, u # t, u \notin queued[m]
       PROVE  Legal(u, todo'[u], Q[u]) /\ Holds(u, Q[u])'
  <2>1. Holds(u, Q[u]) /\ Legal(u, todo[u], Q[u])
    BY <1>1 DEF Labelled
  <2>2. Holds(u, Q[u])'
    <3>1. todo'[u] = todo[u]
      BY <1>8, <1>13
    <3>2. ASSUME NEW n \in Mutexes
          PROVE  /\ u \in readers'[n] <=> Q[u][n] \in Shared
                 /\ Q[u][n] = "w" => writer'[n] = u /\ readers'[n] = {}
                 /\ writer'[n] = u => \/ Q[u][n] = "w"
                                      \/ todo'[u] # <<>> /\ Head(todo'[u]) = Step("Lock", n)
                 /\ u \in queued'[n] => todo'[u] # <<>> /\ Head(todo'[u]) = Step("RLock", n)
      <4>1. CASE n = m
        BY <1>5, <1>6, <1>9, <1>13, <2>1, <4>1, ThreadsAssumption DEF Holds
      <4>2. CASE n # m
        BY <1>9, <2>1, <3>1, <4>2 DEF Holds
      <4>3. QED
        BY <4>1, <4>2
    <3>3. QED
      BY <1>2, <2>1, <3>2 DEF Holds
  <2>3. QED
    BY <1>8, <1>13, <2>1, <2>2
<1>14. QED
  BY <1>1, <1>10, <1>11, <1>12, <1>13 DEF LocksInv, Labelled

\* An access to s.online: who changes it has no reader beside it, so no scan.
LEMMA TouchLocks == ASSUME LocksInv, NEW t \in Threads, Touch(t) PROVE LocksInv'
<1>1. PICK Q : Labelled(Q)
  BY AllLabelled
<1>2. /\ todo[t] # <<>> /\ Head(todo[t]).do \in Changes \cup {"read"}
      /\ writer' = writer /\ readers' = readers /\ queued' = queued
      /\ todo' = Done({t}) /\ (Head(todo[t]).do = "read" => online' = online)
  BY DEF Touch, At, Changes, locks
<1>3. PICK r \in Modes : May(t, Q[t], Head(todo[t]), r) /\ Legal(t, Tail(todo[t]), r)
  BY <1>1, <1>2, AtStep
<1>4. Head(todo[t]) \in LockSteps /\ Q[t] \in Modes /\ Holds(t, Q[t])
  BY <1>1, <1>2, AtStep DEF Labelled
<1>5. /\ Head(todo[t]).do \in Changes => r = Q[t] /\ Q[t]["statsMu"] = "w"
      /\ Head(todo[t]).do = "read" =>
           r \in {Q[t], Set(Q[t], "statsMu", "done")} /\ Q[t]["statsMu"] = "scan"
  BY <1>3, <1>4, MayByKind
<1>6. /\ todo' \in [Threads -> Seq(LockSteps)] /\ todo'[t] = Tail(todo[t])
      /\ \A u \in Threads : u # t => todo'[u] = todo[u]
  BY <1>1, <1>2, DoneStep
<1>7. online' \in 0..MaxOnline
  BY MaxOnlineAssumption DEF Touch, LocksInv, MutexesTyped
<1>8. MutexesTyped'
  BY <1>2, <1>6, <1>7 DEF LocksInv, MutexesTyped
<1>9. online' = online \/ readers["statsMu"] = {}
  BY <1>2, <1>4, <1>5 DEF Holds, Mutexes
<1>10. ASSUME NEW u \in Threads, u # t PROVE Legal(u, todo'[u], Q[u]) /\ Holds(u, Q[u])'
  <2>1. Holds(u, Q[u]) /\ Legal(u, todo[u], Q[u])
    BY <1>1 DEF Labelled
  <2>2. Q[u]["statsMu"] = "scan" => online' = online
    BY <1>9, <2>1 DEF Holds, Mutexes, Shared
  <2>3. Holds(u, Q[u])'
    BY <1>2, <1>6, <1>10, <2>1, <2>2 DEF Holds
  <2>4. QED
    BY <1>6, <1>10, <2>1, <2>3
<1>11. Legal(t, todo'[t], r) /\ Holds(t, r)'
  <2>1. \A n \in Mutexes : /\ r[n] = Q[t][n] \/ (r[n] = "done" /\ Q[t][n] = "scan")
    BY <1>2, <1>4, <1>5, Unlocked DEF Mutexes
  <2>2. ASSUME NEW n \in Mutexes
        PROVE  /\ t \in readers'[n] <=> r[n] \in Shared
               /\ r[n] = "w" => writer'[n] = t /\ readers'[n] = {}
               /\ writer'[n] = t => \/ r[n] = "w"
                                    \/ todo'[t] # <<>> /\ Head(todo'[t]) = Step("Lock", n)
               /\ t \in queued'[n] => todo'[t] # <<>> /\ Head(todo'[t]) = Step("RLock", n)
    BY <1>2, <1>4, <2>1 DEF Holds, Shared, Step, Changes
  <2>3. /\ r["usersMu"] = "w" => t = Monitor
        /\ r["statsMu"] = "scan" => t = Reporter /\ online' > 0
    <3>1. r["usersMu"] = "w" => Q[t]["usersMu"] = "w"
      BY <2>1 DEF Mutexes
    <3>2. r["statsMu"] = "scan" => Q[t]["statsMu"] = "scan"
      BY <2>1 DEF Mutexes
    <3>3. Q[t]["statsMu"] = "scan" => online' = online
      BY <1>2, <1>5
    <3>4. QED
      BY <1>4, <3>1, <3>2, <3>3 DEF Holds
  <2>4. QED
    BY <1>3, <1>6, <2>2, <2>3 DEF Holds
<1>12. QED
  BY <1>1, <1>8, <1>10, <1>11 DEF LocksInv, Labelled

\* GetOnlineDevice unfolds its range with statsMu held.
LEMMA RangeLocks == ASSUME LocksInv, NEW t \in Threads, Range(t) PROVE LocksInv'
<1>1. PICK Q : Labelled(Q)
  BY AllLabelled
<1> DEFINE e == [i \in 1..(3 * online) |-> OnlineEntry[1 + ((i - 1) % 3)]]
           w == e \o Tail(todo[t])
<1>2. /\ todo[t] # <<>> /\ Head(todo[t]).do = "range" /\ todo' = [todo EXCEPT ![t] = w]
      /\ writer' = writer /\ readers' = readers /\ queued' = queued /\ online' = online
  <2>1. Len(OnlineEntry) = 3
    BY EntrySteps
  <2>2. todo' = [todo EXCEPT ![t] = [i \in 1..(Len(OnlineEntry) * online) |->
                    OnlineEntry[1 + ((i - 1) % Len(OnlineEntry))]] \o Tail(todo[t])]
    BY DEF Range, LocksInv, MutexesTyped
  <2>3. todo' = [todo EXCEPT ![t] = w]
    BY <2>1, <2>2, Zenon
  <2>4. QED
    BY <2>3 DEF Range, At, locks
<1>3. Q[t] \in Modes /\ Legal(t, todo[t], Q[t]) /\ Holds(t, Q[t]) /\ online \in Nat
  BY <1>1 DEF Labelled, LocksInv, MutexesTyped
<1>4. PICK r \in {Set(Free, "statsMu", "scan"), Set(Free, "statsMu", "done")} :
        Legal(t, w, r) /\ (r["statsMu"] = "scan" => online > 0)
  BY <1>2, <1>3, LegalRange
<1>5. t = Reporter /\ Q[t] = Set(Free, "statsMu", "r")
  BY <1>2, <1>3, LegalRange
<1> HIDE DEF w
<1>6. w \in Seq(LockSteps)
  BY <1>4 DEF Legal
<1>7. todo'[t] = w /\ \A u \in Threads : u # t => todo'[u] = todo[u]
  BY <1>2 DEF LocksInv, MutexesTyped
<1>8. MutexesTyped'
  BY <1>2, <1>6 DEF LocksInv, MutexesTyped
<1>9. ASSUME NEW u \in Threads, u # t PROVE Legal(u, todo'[u], Q[u]) /\ Holds(u, Q[u])'
  <2>1. Holds(u, Q[u]) /\ Legal(u, todo[u], Q[u])
    BY <1>1 DEF Labelled
  <2>2. Holds(u, Q[u])'
    BY <1>2, <1>7, <1>9, <2>1 DEF Holds
  <2>3. QED
    BY <1>7, <1>9, <2>1, <2>2
<1>10. r \in Modes /\ Legal(t, todo'[t], r) /\ Holds(t, r)'
  <2>1. /\ r \in Modes /\ r["usersMu"] = "no" /\ r["statsMu"] \in {"scan", "done"}
        /\ Q[t]["usersMu"] = "no" /\ Q[t]["statsMu"] = "r"
    BY <1>4, <1>5, Unlocked DEF Mutexes
  <2>2. ASSUME NEW n \in Mutexes
        PROVE  /\ t \in readers'[n] <=> r[n] \in Shared
               /\ r[n] = "w" => writer'[n] = t /\ readers'[n] = {}
               /\ writer'[n] = t => \/ r[n] = "w"
                                    \/ todo'[t] # <<>> /\ Head(todo'[t]) = Step("Lock", n)
               /\ t \in queued'[n] => todo'[t] # <<>> /\ Head(todo'[t]) = Step("RLock", n)
    BY <1>2, <1>3, <2>1 DEF Holds, Shared, Step, Mutexes
  <2>3. QED
    BY <1>2, <1>4, <1>5, <1>7, <2>1, <2>2 DEF Holds
<1>11. QED
  BY <1>1, <1>8, <1>9, <1>10 DEF LocksInv, Labelled

-------------------------------------------------------------------------------
(***************************************************************************)
(* The theorems.                                                           *)
(***************************************************************************)

\* A step of nobody.
LEMMA StutterLocks == ASSUME LocksInv, UNCHANGED vars PROVE LocksInv'
<1>1. /\ todo' = todo /\ writer' = writer /\ readers' = readers /\ queued' = queued
      /\ online' = online
  BY DEF vars, locks
<1>2. QED
  BY <1>1 DEF LocksInv, MutexesTyped, Holds

\* Whatever the order in which goroutines take usersMu and statsMu, the steps
\* left of each operation say what it holds of them.
THEOREM LocksInvariant == Spec => []LocksInv
<1>1. LocksInv /\ [Next]_vars => LocksInv'
  <2> SUFFICES ASSUME LocksInv, [Next]_vars PROVE LocksInv'
    OBVIOUS
  <2>1. ASSUME NEW t \in Threads, Begin(t) PROVE LocksInv'
    BY <2>1, BeginLocks
  <2>2. ASSUME NEW t \in Threads, RLock(t) PROVE LocksInv'
    BY <2>2, RLockLocks
  <2>3. ASSUME NEW t \in Threads, RUnlock(t) PROVE LocksInv'
    BY <2>3, RUnlockLocks
  <2>4. ASSUME NEW t \in Threads, Announce(t) PROVE LocksInv'
    BY <2>4, AnnounceLocks
  <2>5. ASSUME NEW t \in Threads, Acquire(t) PROVE LocksInv'
    BY <2>5, AcquireLocks
  <2>6. ASSUME NEW t \in Threads, Unlock(t) PROVE LocksInv'
    BY <2>6, UnlockLocks
  <2>7. ASSUME NEW t \in Threads, Touch(t) PROVE LocksInv'
    BY <2>7, TouchLocks
  <2>8. ASSUME NEW t \in Threads, Range(t) PROVE LocksInv'
    BY <2>8, RangeLocks
  <2>9. ASSUME NEW t, Reload(t) PROVE LocksInv'
    BY <2>9, ReloadLocks
  <2>10. CASE UNCHANGED vars
    BY <2>10, StutterLocks
  <2>11. QED
    BY <2>1, <2>2, <2>3, <2>4, <2>5, <2>6, <2>7, <2>8, <2>9, <2>10 DEF Next, Run
<1>2. QED
  BY <1>1, InitLocks, PTL DEF Spec

\* A mutex queues readers behind a writer only, and s.online stays within its
\* bound: no close event is subtracted from an entry that is gone.
THEOREM LocksTyped == Spec => []TypeOK
<1>1. LocksInv => TypeOK
  BY DEF LocksInv, MutexesTyped, TypeOK
<1>2. QED
  BY <1>1, LocksInvariant, PTL

\* What a goroutine about to touch s.online holds.
LEMMA Guarded ==
    ASSUME LocksInv, NEW Q, Labelled(Q), NEW t \in Threads
    PROVE  /\ (\E c \in Changes : At(t, c)) =>
                writer["statsMu"] = t /\ readers["statsMu"] = {}
           /\ (\E a \in Reads : At(t, a)) => t \in readers["statsMu"]
<1>1. ASSUME NEW a, At(t, a)
      PROVE  /\ a \in Changes => Q[t]["statsMu"] = "w"
             /\ a \in Reads => Q[t]["statsMu"] \in Shared
  <2>1. todo[t] # <<>> /\ Head(todo[t]).do = a /\ Q[t] \in Modes
    BY <1>1 DEF At, Labelled
  <2>2. Head(todo[t]) \in LockSteps /\ \E r \in Modes : May(t, Q[t], Head(todo[t]), r)
    BY <2>1, AtStep
  <2>3. QED
    BY <2>1, <2>2, MayByKind
<1>2. Holds(t, Q[t])
  BY DEF Labelled
<1>3. QED
  BY <1>1, <1>2 DEF Holds, Mutexes

\* handleEventLine, replaceUsers and GetOnlineDevice never touch s.online at the
\* same time: who changes it is the writer inside statsMu, who reads it a reader.
THEOREM OnlineGuarded == Spec => []OnlineMapGuarded
<1>1. LocksInv => OnlineMapGuarded
  <2> SUFFICES ASSUME LocksInv, NEW t \in Threads, NEW r \in Threads, t # r,
                      NEW c \in Changes, At(t, c), NEW a \in Changes \cup Reads, At(r, a)
               PROVE  FALSE
    BY DEF OnlineMapGuarded
  <2>1. PICK Q : Labelled(Q)
    BY AllLabelled
  <2>2. writer["statsMu"] = t /\ readers["statsMu"] = {}
    BY <2>1, Guarded
  <2>3. writer["statsMu"] = r \/ r \in readers["statsMu"]
    BY <2>1, Guarded
  <2>4. QED
    BY <2>2, <2>3
<1>2. QED
  BY <1>1, LocksInvariant, PTL

\* Who waits, and for whom: readers of usersMu and writers inside statsMu for
\* nobody, readers of statsMu only as a report that finds a tunnel online.
LEMMA Waiting ==
    ASSUME LocksInv, NEW Q, Labelled(Q), NEW t \in Threads, NEW u \in WaitsFor(t)
    PROVE  /\ t \notin readers["usersMu"]
           /\ t \in readers["statsMu"] =>
                t = Reporter /\ online > 0 /\ u = writer["usersMu"]
           /\ writer["statsMu"] = t => u \in readers["statsMu"]
           /\ writer["usersMu"] = t =>
                t = Monitor /\ \/ u \in readers["usersMu"]
                               \/ u \in readers["statsMu"]
                               \/ u = writer["statsMu"]
           /\ \E m \in Mutexes : u = writer[m] \/ u \in readers[m]
<1> DEFINE x == Head(todo[t])
<1>1. todo[t] # <<>>
  BY DEF WaitsFor
<1>2. Q[t] \in Modes /\ Holds(t, Q[t])
  BY DEF Labelled
<1>3. x \in LockSteps /\ \E r \in Modes : May(t, Q[t], x, r)
  BY <1>1, AtStep
<1>4. PICK r : May(t, Q[t], x, r)
  BY <1>3
<1> DEFINE m == x.on
<1>5. m \in Mutexes /\ x = Step(x.do, m)
  BY <1>2, <1>3, <1>4, MayByKind
<1>6. t \in queued[m] => x.do = "RLock"
  <2>1. t \in queued[m] => x = Step("RLock", m)
    BY <1>2, <1>5 DEF Holds
  <2>2. QED
    BY <2>1 DEF Step
<1>7. \/ x.do = "Lock" /\ writer[m] = t /\ u \in readers[m]
      \/ x.do = "Lock" /\ writer[m] # t /\ u = writer[m]
      \/ x.do = "RLock" /\ u = writer[m]
  BY <1>1, <1>6 DEF WaitsFor, At
<1>8. /\ x.do = "Lock" =>
           /\ Q[t][m] = "no" /\ (m = "usersMu" => t = Monitor /\ Q[t]["statsMu"] = "no")
           /\ m = "statsMu" => Q[t]["usersMu"] \in {"no", "w"}
      /\ x.do = "RLock" =>
           /\ Q[t][m] = "no"
           /\ m = "usersMu" => Q[t]["statsMu"] \in {"no", "scan"}
           /\ m = "statsMu" => Q[t]["usersMu"] = "no"
  BY <1>2, <1>3, <1>4, MayByKind
<1>9. \A n \in Mutexes : writer[n] = t => Q[t][n] = "w" \/ (x.do = "Lock" /\ m = n)
  <2>1. \A n \in Mutexes : writer[n] = t => Q[t][n] = "w" \/ x = Step("Lock", n)
    BY <1>2 DEF Holds
  <2> HIDE DEF x
  <2>2. QED
    BY <2>1 DEF Step
<1> HIDE DEF x, m
<1>10. t \notin readers["usersMu"]
  BY <1>2, <1>5, <1>7, <1>8 DEF Holds, Mutexes, Shared
<1>11. ASSUME t \in readers["statsMu"]
       PROVE  t = Reporter /\ online > 0 /\ u = writer["usersMu"]
  <2>1. Q[t]["statsMu"] \in Shared
    BY <1>2, <1>11 DEF Holds, Mutexes
  <2>2. m = "usersMu" /\ x.do = "RLock" /\ Q[t]["statsMu"] = "scan"
    BY <1>5, <1>7, <1>8, <2>1 DEF Mutexes, Shared
  <2>3. QED
    BY <1>2, <1>7, <2>2 DEF Holds
<1>12. ASSUME writer["statsMu"] = t PROVE u \in readers["statsMu"]
  <2>1. x.do = "Lock" /\ m = "statsMu"
    BY <1>5, <1>7, <1>8, <1>9, <1>12 DEF Mutexes
  <2>2. QED
    BY <1>7, <1>12, <2>1
<1>13. ASSUME writer["usersMu"] = t
       PROVE  t = Monitor /\ \/ u \in readers["usersMu"]
                             \/ u \in readers["statsMu"]
                             \/ u = writer["statsMu"]
  <2>1. CASE x.do = "Lock" /\ m = "usersMu"
    BY <1>7, <1>8, <1>13, <2>1
  <2>2. CASE Q[t]["usersMu"] = "w"
    <3>1. t = Monitor
      BY <1>2, <2>2 DEF Holds
    <3>2. m = "statsMu" /\ x.do = "Lock"
      BY <1>5, <1>7, <1>8, <2>2 DEF Mutexes
    <3>3. QED
      BY <1>7, <3>1, <3>2
  <2>3. QED
    BY <1>9, <1>13, <2>1, <2>2 DEF Mutexes
<1>14. QED
  BY <1>5, <1>7, <1>10, <1>11, <1>12, <1>13

\* UpdateUsers and GetOnlineDevice take the two mutexes in opposite orders, and
\* nothing else in the server can close a circle of waiting goroutines.
THEOREM OnlyReportDeadlocks == Spec => []OnlyOnlineReportDeadlocks
<1>1. LocksInv => OnlyOnlineReportDeadlocks
  <2> SUFFICES ASSUME LocksInv, NEW ts \in SUBSET Threads, CircularWait(ts)
               PROVE  {Monitor, Reporter} \subseteq ts /\ online > 0
    BY DEF OnlyOnlineReportDeadlocks
  <2>1. PICK Q : Labelled(Q)
    BY AllLabelled
  <2>2. \A t \in ts : t \in Threads /\ \E u \in WaitsFor(t) : u \in ts
    BY DEF CircularWait
  <2>3. ASSUME NEW t \in ts PROVE t \notin readers["usersMu"]
    BY <2>1, <2>2, Waiting
  <2>4. ASSUME NEW t \in ts, t \in readers["statsMu"]
        PROVE  {Monitor, Reporter} \subseteq ts /\ online > 0
    <3>1. PICK u \in WaitsFor(t) : u \in ts
      BY <2>2
    <3>2. t = Reporter /\ online > 0 /\ u = writer["usersMu"]
      BY <2>1, <2>2, <2>4, <3>1, Waiting
    <3>3. PICK v \in WaitsFor(u) : v \in ts
      BY <2>2, <3>1
    <3>4. u = Monitor
      BY <2>1, <2>2, <3>1, <3>2, <3>3, Waiting
    <3>5. QED
      BY <3>1, <3>2, <3>4
  <2>5. ASSUME NEW t \in ts, t = writer["statsMu"]
        PROVE  {Monitor, Reporter} \subseteq ts /\ online > 0
    <3>1. PICK u \in WaitsFor(t) : u \in ts
      BY <2>2
    <3>2. u \in readers["statsMu"]
      BY <2>1, <2>2, <2>5, <3>1, Waiting
    <3>3. QED
      BY <2>4, <3>1, <3>2
  <2>6. ASSUME NEW t \in ts, t = writer["usersMu"]
        PROVE  {Monitor, Reporter} \subseteq ts /\ online > 0
    <3>1. PICK u \in WaitsFor(t) : u \in ts
      BY <2>2
    <3>2. u \in readers["usersMu"] \/ u \in readers["statsMu"] \/ u = writer["statsMu"]
      BY <2>1, <2>2, <2>6, <3>1, Waiting
    <3>3. QED
      BY <2>3, <2>4, <2>5, <3>1, <3>2
  <2>7. PICK t : t \in ts
    BY DEF CircularWait
  <2>8. PICK u \in WaitsFor(t) : u \in ts
    BY <2>2, <2>7
  <2>9. \E m \in Mutexes : u = writer[m] \/ u \in readers[m]
    BY <2>1, <2>2, <2>7, <2>8, Waiting
  <2>10. QED
    BY <2>3, <2>4, <2>5, <2>6, <2>8, <2>9 DEF Mutexes
<1>2. QED
  BY <1>1, LocksInvariant, PTL
===============================================================================
