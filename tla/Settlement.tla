----------------------------- MODULE Settlement -----------------------------
(***************************************************************************)
(* The settlement rails a tariff is charged through: the in-memory double  *)
(* entry ledger and subscriptions on it (settlement.rs, subscription.rs),  *)
(* and the adapter that credits payments verified on an external rail      *)
(* (pier-billing-patala).  Callers run concurrently; each step is what one *)
(* of them does between two locks, or between two awaits.                  *)
(***************************************************************************)
EXTENDS Integers, FiniteSets, Functions

CONSTANTS Callers, Accounts, Charges,
          Receipts,     \* payment receipts, as records [reference, amount, ours]
          Presents,     \* Presents[c]: the receipts c presents, and presents again
          MaxCharges    \* bound: the charges and deposits made

(* Amounts are not negative, and a reference is that of one payment.       *)
ASSUME SettleAssumption ==
    /\ IsFiniteSet(Callers) /\ IsFiniteSet(Accounts) /\ Charges \subseteq Nat
    /\ IsFiniteSet(Receipts) /\ \A r \in Receipts : r.amount \in Nat
    /\ \A r, s \in Receipts : r.reference = s.reference => r = s

VARIABLES account, house, charging, made,     \* InMemoryLedger
          local, credited, presenting,       \* PatalaSettlement
          raised, spent                       \* history: credits per reference, charges

settleVars == <<account, house, charging, made, local, credited, presenting, raised, spent>>

None == [who |-> "none", amount |-> 0]
NoReceipt == [reference |-> "none", amount |-> 0, ours |-> FALSE]
Quiet == [stage |-> "idle", who |-> "none", receipt |-> NoReceipt]
References == {r.reference : r \in Receipts}

SettleInit == /\ account = [a \in Accounts |-> 0] /\ house = 0 /\ made = 0
              /\ charging = [c \in Callers |-> None]
              /\ local = [a \in Accounts |-> 0] /\ credited = {}
              /\ presenting = [c \in Callers |-> Quiet]
              /\ raised = [r \in References |-> 0] /\ spent = [a \in Accounts |-> 0]

Patala == <<local, credited, presenting, raised, spent>>
InMemory == <<account, house, charging, made>>

-----------------------------------------------------------------------------
(* InMemoryLedger::deposit holds both locks.  charge lets the balances go  *)
(* before it takes the house account.  Subscription::charge is a charge of *)
(* a fixed amount, whether or not the subscription is active.              *)
deposit(a, n) == /\ made < MaxCharges /\ made' = made + 1
                 /\ account' = [account EXCEPT ![a] = @ + n]
                 /\ house' = house - n
                 /\ UNCHANGED charging /\ UNCHANGED Patala

Enough(a, n) == account[a] >= n

charge(c, a, n) == /\ charging[c] = None /\ made < MaxCharges /\ made' = made + 1
                   /\ Enough(a, n)
                   /\ account' = [account EXCEPT ![a] = @ - n]
                   /\ charging' = [charging EXCEPT ![c] = [who |-> a, amount |-> n]]
                   /\ UNCHANGED house /\ UNCHANGED Patala

charge_house_Skip(c) == /\ charging[c] # None
                   /\ charging' = [charging EXCEPT ![c] = None]
                   /\ UNCHANGED <<house, account, made>> /\ UNCHANGED Patala
charge_house(c) == /\ charging[c] # None
                   /\ house' = house + charging[c].amount
                   /\ charging' = [charging EXCEPT ![c] = None]
                   /\ UNCHANGED <<account, made>> /\ UNCHANGED Patala

-----------------------------------------------------------------------------
(* PatalaSettlement::credit_from_receipt: the currency and the references  *)
(* already credited, then the rail is asked, and then the balance rises    *)
(* and the reference is marked.                                            *)
To(c, s) == presenting' = [presenting EXCEPT ![c].stage = s]

credit_from_receipt(c, a, r) ==
    /\ presenting[c].stage = "idle" /\ r \in Presents[c] /\ r.ours
    /\ r.reference \notin credited
    /\ presenting' = [presenting EXCEPT ![c] = [stage |-> "verify", who |-> a, receipt |-> r]]
    /\ UNCHANGED <<local, credited, raised, spent>> /\ UNCHANGED InMemory

(* External: PaymentRail::verify says yes, no, or fails.                   *)
verify(c) == /\ presenting[c].stage = "verify"
             /\ \/ To(c, "credit")
                \/ presenting' = [presenting EXCEPT ![c] = Quiet]
             /\ UNCHANGED <<local, credited, raised, spent>> /\ UNCHANGED InMemory

raise(c) == LET p == presenting[c]
            IN  /\ p.stage = "credit" /\ To(c, "mark")
                /\ local' = [local EXCEPT ![p.who] = @ + p.receipt.amount]
                /\ raised' = [raised EXCEPT ![p.receipt.reference] = @ + 1]
                /\ UNCHANGED <<credited, spent>> /\ UNCHANGED InMemory

mark_credited(c) == /\ presenting[c].stage = "mark"
                    /\ credited' = credited \cup {presenting[c].receipt.reference}
                    /\ presenting' = [presenting EXCEPT ![c] = Quiet]
                    /\ UNCHANGED <<local, raised, spent>> /\ UNCHANGED InMemory

Sufficient(a, n) == local[a] >= n
patala_charge(a, n) == /\ Sufficient(a, n)
                       /\ local' = [local EXCEPT ![a] = @ - n]
                       /\ spent' = [spent EXCEPT ![a] = @ + n]
                       /\ UNCHANGED <<credited, presenting, raised>> /\ UNCHANGED InMemory

PatalaNext == \/ \E c \in Callers : \/ \E a \in Accounts, r \in Receipts : credit_from_receipt(c, a, r)
                                    \/ verify(c) \/ raise(c) \/ mark_credited(c)
              \/ \E a \in Accounts, n \in Charges : patala_charge(a, n)
InMemoryNext == \/ \E a \in Accounts, n \in Charges :
                     deposit(a, n) \/ \E c \in Callers : charge(c, a, n)
                \/ \E c \in Callers : charge_house(c)

-----------------------------------------------------------------------------
(* Type correctness; no charge overdraws an account.                       *)
SettleTypeOK == /\ \A a \in Accounts : account[a] \in Nat /\ local[a] \in Nat
                /\ house \in Int /\ credited \subseteq References
                /\ \A r \in References : raised[r] \in Nat

(* The books balance: with what a charge has taken and not yet booked, the *)
(* accounts and the house net to zero at every moment (InMemoryLedger).    *)
BooksBalance ==
    SumFunction(account) + house + SumFunction([c \in Callers |-> charging[c].amount]) = 0

(* A receipt that is presented again after any answer, an error included,  *)
(* never raises a balance twice (credited_references).                     *)
CreditedOnce == \A r \in References : raised[r] <= 1

(* Credit is backed by payments the rail confirmed: what the accounts hold *)
(* and what was charged is what confirmed receipts brought.                *)
Payment(r) == CHOOSE x \in Receipts : x.reference = r
CreditBacked == SumFunction([a \in Accounts |-> local[a] + spent[a]])
                  = SumFunction([r \in References |-> raised[r] * Payment(r).amount])
=============================================================================
