-------------------------- MODULE AccountSemaphore --------------------------
(***************************************************************************)
(* What the per-account dispatch slots promise: a request enters an        *)
(* account only while fewer requests than its limit are inside it, the     *)
(* limit being the largest maximum the account has been given.  From an    *)
(* account whose counter was cut down below its load, or that was removed, *)
(* the promise is withdrawn for good, and the specification counts nobody  *)
(* inside it any more.  DispatchSlots implements this specification.       *)
(***************************************************************************)
EXTENDS Integers, FiniteSets

CONSTANTS Requests,   \* the requests (goroutines) that want a slot
          Accounts    \* the e-mail keys of the accounts

VARIABLES limit,      \* limit[a]: how many requests account a may serve
          holders     \* holders[a]: the requests inside account a

vars == <<limit, holders>>

Init == /\ limit = [a \in Accounts |-> 0]
        /\ holders = [a \in Accounts |-> {}]

Enter(r, a) ==
    /\ \A b \in Accounts : r \notin holders[b]
    /\ Cardinality(holders[a]) < limit[a]
    /\ holders' = [holders EXCEPT ![a] = @ \cup {r}]
    /\ UNCHANGED limit

Leave(r, a) ==
    /\ r \in holders[a]
    /\ holders' = [holders EXCEPT ![a] = @ \ {r}]
    /\ UNCHANGED limit

\* The administrator raises limits, or adds accounts (a limit above 0).
Grow == /\ limit' \in [Accounts -> Nat]
        /\ \A a \in Accounts : limit'[a] >= limit[a]
        /\ UNCHANGED holders

\* The administrator overrides the slots of some accounts.
Withdraw(overridden) ==
    /\ holders' = [a \in Accounts |-> IF a \in overridden THEN {} ELSE holders[a]]
    /\ UNCHANGED limit

Next == \/ \E r \in Requests, a \in Accounts : Enter(r, a) \/ Leave(r, a)
        \/ Grow
        \/ \E overridden \in SUBSET Accounts : Withdraw(overridden)

Spec == Init /\ [][Next]_vars

=============================================================================
