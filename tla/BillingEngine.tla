---------------------------- MODULE BillingEngine ----------------------------
(***************************************************************************)
(* SimEngine (sim.rs): billing events applied one at a time, each usage    *)
(* event metered (meter.rs), priced by the current tariff (tariff.rs),     *)
(* debited from the prepaid account (prepaid.rs) and receipted             *)
(* (receipt.rs).                                                           *)
(***************************************************************************)
EXTENDS Tariff, Sequences, SequencesExt

CONSTANTS Schedules, Kinds, Units, TopUps, EngineRefs, Refunds,
          Currency,      \* of the ledger
          Threshold,     \* low_balance_threshold
          MaxReceipts    \* bound: the receipts issued

(* Counts, credit and prices are u64.                                      *)
ASSUME EngineAssumption ==
    /\ Units \subseteq 0..U64 /\ TopUps \subseteq 0..U64 /\ Refunds \subseteq 0..U64
    /\ \A s \in Schedules, k \in Kinds : /\ free(s, k) \in 0..U64
                                         /\ k \in DOMAIN s.prices => s.prices[k] \in 0..U64

VARIABLES schedule,
          meter,        \* units recorded and not yet reset, by kind
          balance, seen,            \* the payer's account
          receipts, next_sequence,  \* ReceiptLog
          outcome,      \* what the last event answered
          funded, returned,  \* history: credit put in and handed back,
          used               \* and the units of the events that were paid, by kind

engineVars == <<schedule, meter, balance, seen, receipts, next_sequence, outcome,
                funded, returned, used>>

NoUsage == [k \in {} |-> 0]
EngineInit == /\ schedule \in Schedules /\ meter = NoUsage
              /\ balance = 0 /\ seen = {}
              /\ receipts = <<>> /\ next_sequence = 0
              /\ outcome = "none" /\ funded = 0 /\ returned = 0
              /\ used = [k \in Kinds |-> 0]

(* InMemoryMeter::record and reset.                                        *)
record(m, k, units) ==
    [x \in DOMAIN m \cup {k} |-> IF x # k THEN m[x]
                                 ELSE plus(IF k \in DOMAIN m THEN m[k] ELSE 0, units)]
reset_Kept(m) == m
reset(m) == NoUsage

(* CreditAccount::state, raised after a debit or a refund.                 *)
state(b) == CASE b = 0 -> "exhausted"
              [] b > 0 /\ b <= Threshold -> "low"
              [] OTHER -> "ok"

TopUp(a, r) ==
    /\ balance' = IF r \in seen THEN balance ELSE plus(balance, a)
    /\ funded' = IF r \in seen THEN funded ELSE funded + a
    /\ seen' = seen \cup {r} /\ outcome' = "topped_up"
    /\ UNCHANGED <<schedule, meter, receipts, next_sequence, returned, used>>

(* ReceiptLog::issue_for_bill: a receipt per line, numbered as it goes.    *)
BilledOperation(item, n) == [kind |-> item.kind, metered |-> item.metered,
                             amount |-> item.amount, sequence |-> n]
issue_for_bill(bill) ==
    LET items == SetToSeq(bill.items)
    IN  [i \in DOMAIN items |-> BilledOperation(items[i], next_sequence + i - 1)]

(* debit_and_receipt: the currency, the balance, and only then a receipt.  *)
Debitable(bill) == bill.ok /\ bill.currency = Currency /\ balance >= bill.amount
debit_and_receipt_Unpaid(bill) ==
    /\ Len(receipts) + Cardinality(bill.items) <= MaxReceipts
    /\ receipts' = receipts \o issue_for_bill(bill)
    /\ next_sequence' = next_sequence + Cardinality(bill.items)
    /\ IF Debitable(bill) THEN balance' = balance - bill.amount /\ outcome' = state(balance')
       ELSE UNCHANGED balance /\ outcome' = "failed"
debit_and_receipt(bill) ==
    \/ /\ Debitable(bill)
       /\ Len(receipts) + Cardinality(bill.items) <= MaxReceipts
       /\ balance' = balance - bill.amount
       /\ receipts' = receipts \o issue_for_bill(bill)
       /\ next_sequence' = next_sequence + Cardinality(bill.items)
       /\ outcome' = state(balance')
    \/ /\ ~Debitable(bill)
       /\ outcome' = "failed"
       /\ UNCHANGED <<balance, receipts, next_sequence>>

MeteredUsage(k, units) ==
    /\ meter' = reset(record(meter, k, units))
    /\ debit_and_receipt(evaluate(schedule, record(meter, k, units)))
    /\ used' = IF outcome' = "failed" THEN used ELSE [used EXCEPT ![k] = @ + units]
    /\ UNCHANGED <<schedule, seen, funded, returned>>

TariffChange(s) == /\ schedule' = s /\ outcome' = "tariff_changed"
                   /\ UNCHANGED <<meter, balance, seen, receipts, next_sequence, funded, returned, used>>

Refund(a) == /\ IF a <= balance
                THEN /\ balance' = balance - a /\ returned' = returned + a
                     /\ outcome' = state(balance')
                ELSE outcome' = "failed" /\ UNCHANGED <<balance, returned>>
             /\ UNCHANGED <<schedule, meter, seen, receipts, next_sequence, funded, used>>

(* MonthlyCharge goes to the settlement rail and leaves the ledger alone.  *)
MonthlyCharge == /\ outcome' \in {"charged", "charge_failed"}
                 /\ UNCHANGED <<schedule, meter, balance, seen, receipts, next_sequence,
                                funded, returned, used>>

EngineNext == \/ \E a \in TopUps, r \in EngineRefs : TopUp(a, r)
              \/ \E k \in Kinds, u \in Units : MeteredUsage(k, u)
              \/ \E s \in Schedules : TariffChange(s)
              \/ \E a \in Refunds : Refund(a)
              \/ MonthlyCharge

-----------------------------------------------------------------------------
Receipted == SumFunction([i \in DOMAIN receipts |-> receipts[i].amount])

(* Type correctness of the engine.                                         *)
EngineTypeOK == /\ schedule \in Schedules /\ balance \in 0..U64
                /\ DOMAIN meter \subseteq Kinds
                /\ seen \subseteq EngineRefs
                /\ outcome \in {"none", "topped_up", "ok", "low", "exhausted", "failed",
                                "tariff_changed", "charged", "charge_failed"}

(* Over tariff changes, refunds, replayed top-ups and failed debits, every *)
(* unit of credit that left the account is on a receipt or was refunded,   *)
(* and there is no receipt for usage that was not paid: receipts and       *)
(* refunds account for the balance (exactly, until a balance saturates).   *)
ReceiptsAccount ==
    /\ balance + Receipted + returned <= funded
    /\ funded <= U64 => balance + Receipted + returned = funded

(* Receipts are numbered from zero without gaps or repeats, whatever       *)
(* failed between them.                                                    *)
ReceiptsNumbered == /\ next_sequence = Len(receipts)
                    /\ \A i \in DOMAIN receipts : receipts[i].sequence = i - 1

(* Usage is billed once: the receipts of a kind add up to the units of the *)
(* events that were paid, so units an earlier event failed to pay for, or  *)
(* paid for, are not billed with a later one (MeteredUsage: record, reset, *)
(* evaluate).                                                              *)
UsageBilledOnce ==
    \A k \in Kinds :
        SumFunction([i \in DOMAIN receipts |-> IF receipts[i].kind = k THEN receipts[i].metered ELSE 0])
          = used[k]

(* Receipts, refunds and balance account for one another, receipts are     *)
(* numbered without gaps, and usage is billed once (sim.rs, receipt.rs).   *)
EngineAccounts == EngineTypeOK /\ ReceiptsAccount /\ ReceiptsNumbered /\ UsageBilledOnce
=============================================================================
