-------------------------------- MODULE Billing --------------------------------
(***************************************************************************)
(* What the metering of caddyproc promises its panel: every byte of an     *)
(* account is unbilled, billed once, or lost at the moment it is counted;  *)
(* a byte that has been counted as unbilled leaves that state only by      *)
(* being billed, and a billed byte is never billed again.                  *)
(***************************************************************************)
EXTENDS ByteCounts

CONSTANTS
    Accounts,   \* the users
    Amounts     \* the byte pairs one traffic event carries

VARIABLES unbilled, billed, lost

billingVars == <<unbilled, billed, lost>>

BillingInit ==
    /\ unbilled = [a \in Accounts |-> Zero]
    /\ billed = [a \in Accounts |-> Zero]
    /\ lost = [a \in Accounts |-> Zero]

\* Bytes of an account are counted.
Count(a, b) ==
    /\ unbilled' = [unbilled EXCEPT ![a] = Plus(@, b)]
    /\ UNCHANGED <<billed, lost>>

\* Bytes of an account are not counted, and never will be.
Lose(a, b) ==
    /\ lost' = [lost EXCEPT ![a] = Plus(@, b)]
    /\ UNCHANGED <<unbilled, billed>>

\* Some unbilled bytes of some accounts become billed; nothing is created.
Bill ==
    /\ billed' \in [Accounts -> Bytes]
    /\ unbilled' \in [Accounts -> Bytes]
    /\ \A a \in Accounts, d \in Dirs :
           /\ billed[a][d] <= billed'[a][d]
           /\ billed'[a][d] + unbilled'[a][d] = billed[a][d] + unbilled[a][d]
    /\ UNCHANGED lost

BillingNext ==
    \/ \E a \in Accounts, b \in Amounts : Count(a, b)
    \/ \E a \in Accounts, b \in Amounts : Lose(a, b)
    \/ Bill

BillingSpec == BillingInit /\ [][BillingNext]_billingVars
===============================================================================
