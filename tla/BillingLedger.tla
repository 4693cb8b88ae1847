----------------------------- MODULE BillingLedger -----------------------------
(***************************************************************************)
(* What usage metering promises: usage is recorded once, and settled at    *)
(* most once, only after it was recorded.  Nothing is said of retries,     *)
(* report ids, processes or the network.                                   *)
(***************************************************************************)
EXTENDS Integers

CONSTANT Units        \* amounts of usage that may be recorded

VARIABLES metered,    \* the recorded ones
          charges     \* how often each one has been charged

ledgerVars == <<metered, charges>>

Init == metered = {} /\ charges = [u \in Units |-> 0]

Record(u) ==
    /\ u \notin metered
    /\ metered' = metered \cup {u}
    /\ UNCHANGED charges

\* A report settles some recorded usage that no report has settled before.
Settle(S) ==
    /\ \A u \in S : charges[u] = 0
    /\ charges' = [u \in Units |-> IF u \in S THEN charges[u] + 1 ELSE charges[u]]
    /\ UNCHANGED metered

Next == \/ \E u \in Units : Record(u)
        \/ \E S \in SUBSET metered : Settle(S)

Spec == Init /\ [][Next]_ledgerVars
=============================================================================
