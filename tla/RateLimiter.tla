----------------------------- MODULE RateLimiter -----------------------------
(***************************************************************************)
(* The rate limiter that the tunnels of one user share in the forward      *)
(* proxy.  v2naiveUserLimiters maps the user to an object, and the object  *)
(* holds a token bucket, another one after each change of the rate.  Each  *)
(* new tunnel brings the speed limit that its authorization was answered   *)
(* with, and getUserRateLimiter creates, changes, empties or removes what  *)
(* the others are using.  Users share nothing, and a speed limit is at     *)
(* least one byte per second.                                              *)
(***************************************************************************)
EXTENDS Naturals

CONSTANTS
    Tunnels,    \* the requests of the user that are served at once
    Rates,      \* bytesPerSec of the answers, 0 for no limit
    Sizes,      \* bytes flushingIoCopy reads at once
    Objects,    \* the dynamicRateLimiters there can be at once
    NoObject,
    Buckets,    \* the rate.Limiters there can be at once
    NoBucket

ASSUME RatesAssumption == Rates \subseteq Nat
ASSUME SizesAssumption == Sizes \subseteq Nat \ {0}
ASSUME ObjectsAssumption == NoObject \notin Objects
ASSUME BucketsAssumption == NoBucket \notin Buckets

VARIABLES
    table,      \* the object v2naiveUserLimiters has for the user
    object,     \* the dynamicRateLimiters: bucket and bytesPerSec
    tunnel,     \* per tunnel: where it is and its local variables
    mixed,      \* history: a call that lifts the limit overlapped one that sets it
    overtaken   \* history: the tunnels that wait for tokens through a change of the
                \* rate, or its lifting

rateVars == <<table, object, tunnel, mixed, overtaken>>

Unlimited == [limiter |-> NoBucket, bytesPerSec |-> 0]

Idle == [at |-> "new", rate |-> 0, object |-> NoObject, size |-> 0, left |-> 0, burst |-> 0,
         bucket |-> NoBucket]

Lifting == {"load", "empty", "delete"}
Setting == {"fetch", "set"}
Open == {"open", "wait", "write"}

RateInit ==
    /\ table = NoObject
    /\ object = [o \in Objects |-> Unlimited]
    /\ tunnel = [t \in Tunnels |-> Idle]
    /\ mixed = FALSE
    /\ overtaken = {}

-------------------------------------------------------------------------------
\* An object that neither the table nor a tunnel refers to is garbage.
Used(o, entry, tunnels) == entry = o \/ \E t \in Tunnels : tunnels[t].object = o

Turns(entry, objects, tunnels) ==
    /\ table' = entry
    /\ object' = [o \in Objects |-> IF Used(o, entry, tunnels) THEN objects[o] ELSE Unlimited]
    /\ tunnel' = tunnels

At(t, at) == [tunnel EXCEPT ![t].at = at]

\* getUserRateLimiter returns with the object; the speed limit is in it.
Returned(t) == [tunnel EXCEPT ![t].at = "open", ![t].rate = 0]

\* A bucket that no object has and no tunnel waits on is garbage.
Free(b) ==
    /\ \A o \in Objects : object[o].limiter # b
    /\ \A t \in Tunnels : tunnel[t].bucket # b

Waiting(o) == {t \in Tunnels : tunnel[t].at = "wait" /\ tunnel[t].object = o}

\* Whoever waits on the object of the call goes on with the bucket it had.
Overtake(t) == overtaken' = overtaken \cup Waiting(tunnel[t].object)

InCall(steps, t) == \E other \in Tunnels \ {t} : tunnel[other].at \in steps

\* getUserRateLimiter begins with the speed limit of an authorization.
Limit(t) ==
    /\ tunnel[t].at = "new"
    /\ \E r \in Rates :
          /\ Turns(table, object, [tunnel EXCEPT ![t].at = IF r = 0 THEN "load" ELSE "fetch",
                                                 ![t].rate = r])
          /\ mixed' = (mixed \/ InCall(IF r = 0 THEN Setting ELSE Lifting, t))
    /\ UNCHANGED overtaken

\* No limit: an object that is there ...
Load(t) ==
    /\ tunnel[t].at = "load"
    /\ Turns(table, object, [tunnel EXCEPT ![t].at = IF table = NoObject THEN "delete" ELSE "empty",
                                           ![t].object = table])
    /\ UNCHANGED <<mixed, overtaken>>

\* Fault: the object keeps its limiter.
EmptySkipped(t) ==
    /\ tunnel[t].at = "empty"
    /\ Turns(table, object, At(t, "delete"))
    /\ UNCHANGED <<mixed, overtaken>>

\* ... loses its limiter, under its lock, ...
Empty(t) ==
    /\ tunnel[t].at = "empty"
    /\ Turns(table, [object EXCEPT ![tunnel[t].object] = Unlimited], At(t, "delete"))
    /\ Overtake(t)
    /\ UNCHANGED mixed

\* ... and the entry of the user goes, whichever object it has by then.
Delete(t) ==
    /\ tunnel[t].at = "delete"
    /\ Turns(NoObject, object, [tunnel EXCEPT ![t].at = "open", ![t].object = NoObject])
    /\ UNCHANGED <<mixed, overtaken>>

\* A limit: LoadOrStore, ...
Fetch(t) ==
    LET o == IF table # NoObject THEN table
             ELSE CHOOSE x \in Objects : ~Used(x, table, tunnel)
    IN  /\ tunnel[t].at = "fetch"
        /\ table # NoObject \/ \E x \in Objects : ~Used(x, table, tunnel)
        /\ Turns(o, object, [tunnel EXCEPT ![t].at = "set", ![t].object = o])
        /\ UNCHANGED <<mixed, overtaken>>

\* The limit is another than the object has, so what is waited for is obsolete.
Changes(t) ==
    LET o == object[tunnel[t].object]
    IN  o.limiter = NoBucket \/ o.bytesPerSec # tunnel[t].rate

\* The object gets a new bucket, which is full.
Renew(t) ==
    LET b == CHOOSE x \in Buckets : Free(x)
        limits == [limiter |-> b, bytesPerSec |-> tunnel[t].rate]
    IN  /\ \E x \in Buckets : Free(x)
        /\ Turns(table, [object EXCEPT ![tunnel[t].object] = limits], Returned(t))

\* Fault: each tunnel brings a full bucket, whether the rate is another or not.
SetAnew(t) ==
    /\ tunnel[t].at = "set"
    /\ Renew(t)
    /\ IF Changes(t) THEN Overtake(t) ELSE UNCHANGED overtaken
    /\ UNCHANGED mixed

\* ... and a new limiter, under the lock of the object, unless the rate is the same.
Set(t) ==
    /\ tunnel[t].at = "set"
    /\ IF Changes(t) THEN Renew(t) /\ Overtake(t)
                     ELSE Turns(table, object, Returned(t)) /\ UNCHANGED overtaken
    /\ UNCHANGED mixed

GetUserRateLimiter(t) == Limit(t) \/ Load(t) \/ Empty(t) \/ Delete(t) \/ Fetch(t) \/ Set(t)

-------------------------------------------------------------------------------
\* WaitN before a write: the limiter and its burst are read together, and the
\* tunnel keeps to them even if the object gets another limiter meanwhile.
WaitN(t) ==
    LET limits == IF tunnel[t].object = NoObject THEN Unlimited ELSE object[tunnel[t].object]
        free == limits.limiter = NoBucket
    IN  /\ tunnel[t].at = "open"
        /\ \E n \in Sizes :
              Turns(table, object, [tunnel EXCEPT ![t].at = IF free THEN "write" ELSE "wait",
                                                  ![t].size = n,
                                                  ![t].burst = limits.bytesPerSec,
                                                  ![t].bucket = limits.limiter,
                                                  ![t].left = IF free THEN 0 ELSE n])
        /\ UNCHANGED <<mixed, overtaken>>

\* Tokens for at most a burst at a time.
TakeTokens(t) ==
    /\ tunnel[t].at = "wait" /\ tunnel[t].left > tunnel[t].burst
    /\ Turns(table, object, [tunnel EXCEPT ![t].left = @ - tunnel[t].burst])
    /\ UNCHANGED <<mixed, overtaken>>

TakeLast(t) ==
    /\ tunnel[t].at = "wait" /\ tunnel[t].left <= tunnel[t].burst
    /\ Turns(table, object, [tunnel EXCEPT ![t].at = "write", ![t].left = 0,
                                           ![t].burst = 0, ![t].bucket = NoBucket])
    /\ overtaken' = overtaken \ {t}
    /\ UNCHANGED mixed

Wait(t) == TakeTokens(t) \/ TakeLast(t)

\* The bytes are written.
Written(t) ==
    /\ tunnel[t].at = "write"
    /\ Turns(table, object, [tunnel EXCEPT ![t].at = "open", ![t].size = 0])
    /\ UNCHANGED <<mixed, overtaken>>

\* A stream ends after a read or a write; nothing cuts a WaitN short.
Finish(t) ==
    /\ tunnel[t].at = "open"
    /\ Turns(table, object, [tunnel EXCEPT ![t] = Idle])
    /\ mixed' = (mixed /\ \E other \in Tunnels \ {t} : tunnel[other].at # "new")
    /\ UNCHANGED overtaken

RateNext ==
    \E t \in Tunnels :
        GetUserRateLimiter(t) \/ WaitN(t) \/ Wait(t) \/ Written(t) \/ Finish(t)

-------------------------------------------------------------------------------
\* The bucket a tunnel draws on, or will with its next WaitN.
BucketOf(t) ==
    IF tunnel[t].at = "wait" THEN tunnel[t].bucket
    ELSE IF tunnel[t].object = NoObject THEN NoBucket
    ELSE object[tunnel[t].object].limiter

\* getUserRateLimiter and WaitN: the limited tunnels of a user draw on one token
\* bucket, those that wait in the middle of a write included, however many more are
\* opened with the same limit.  Two windows are left out.  A tunnel that waits while
\* the rate is changed or lifted stays with the old bucket until its write is through.
\* And when a call that lifts the limit overlaps one that sets it, the deletion may hit
\* the entry the other has just stored.
OneBucketPerUser ==
    ~mixed =>
        \A t, s \in Tunnels \ overtaken :
            /\ tunnel[t].at \in Open /\ tunnel[s].at \in Open
            /\ BucketOf(t) # NoBucket /\ BucketOf(s) # NoBucket
            => BucketOf(t) = BucketOf(s)
===============================================================================
