---------------------------- MODULE CreditAccount ----------------------------
(***************************************************************************)
(* What a prepaid ledger promises: balances that a funding event raises    *)
(* once, and that only a debit or a refund the balance covers lowers, each *)
(* in one step.                                                            *)
(***************************************************************************)
EXTENDS Naturals

CONSTANTS Payers, Refs, Amounts, MaxU

VARIABLES bal,      \* the credit of each payer
          applied   \* the funding events already credited

accountVars == <<bal, applied>>

saturating_add(a, b) == IF a + b > MaxU THEN MaxU ELSE a + b

Init == bal = [p \in Payers |-> 0] /\ applied = {}

Credit(p, a, r) == /\ r \notin applied
                   /\ bal' = [bal EXCEPT ![p] = saturating_add(@, a)]
                   /\ applied' = applied \cup {r}

Spend(p, a) == /\ bal[p] >= a
               /\ bal' = [bal EXCEPT ![p] = @ - a]
               /\ UNCHANGED applied

Next == \E p \in Payers, a \in Amounts : Spend(p, a) \/ \E r \in Refs : Credit(p, a, r)

Spec == Init /\ [][Next]_accountVars
=============================================================================
