----------------------------- MODULE MCBilling -----------------------------
(***************************************************************************)
(* pier-billing, for TLC: the prepaid ledger under concurrent callers, the *)
(* settlement rails, the billing engine, the signed objects on the wire,   *)
(* the arithmetic of tariffs and prices, and the operator's API of         *)
(* pier-admin that signs tariffs and issues receipts.  The parts share no  *)
(* state; a behaviour moves one of them.                                   *)
(***************************************************************************)
EXTENDS PrepaidLedger, Settlement, BillingEngine, SignedObjects, AdminApi

VARIABLES part,
          sample    \* the case the tariff part looks at

Kind == {"relay", "gateway"}
MCSchedules == [prices : {[relay |-> 1], [relay |-> 2, gateway |-> 1]},
                free_allowance : {[relay |-> 1]}, currency : {"usd", "eur"}]
MCReceipts == {[reference |-> "x", amount |-> 2, ours |-> TRUE],
               [reference |-> "y", amount |-> 1, ours |-> TRUE],
               [reference |-> "z", amount |-> 1, ours |-> FALSE]}
MCPresents == [c \in Callers |-> IF c = "c1" THEN {r \in MCReceipts : r.reference # "y"}
                                 ELSE {r \in MCReceipts : r.reference = "y"}]

MCDeadline == [soon |-> 0]

(* The tariff part: usage a schedule bills, raw counts put in batches, and *)
(* the prices recommended for a hosting profile (with room for its sums).  *)
Counts == 0..U64
Pricing == INSTANCE Tariff WITH U64 <- 10000000
PriceLists == {[relay |-> 0], [relay |-> 1], [relay |-> 2, gateway |-> 3]}
Allowances == {[relay |-> 2], [gateway |-> 1, relay |-> 0]}
Profiles == [base : {0, 1, 500, 999}, bandwidth : {0, 2}, premium : {0, 501}]
Samples == [prices : PriceLists, free_allowance : Allowances,
            usage : [Kind -> Counts], batch : 1..3, profile : Profiles]
Schedule == [prices |-> sample.prices, free_allowance |-> sample.free_allowance, currency |-> "usd"]
Look == sample' = [sample EXCEPT !.usage = [relay |-> @.gateway, gateway |-> @.relay]]

(* The operator's process: started well or badly, for a relay or a gateway,  *)
(* with requests that touch the descriptor or the bills.                   *)
MCEnvironments ==
    [token : {"secret", "blank"}, kind : {"relay", "bad"}, class : {Absent, 0},
     level : {Absent, 0, Bad}, seed : {"absent", "bad"}]
    \cup [token : {"secret"}, kind : {"gateway"}, class : {Absent}, level : {Absent}, seed : {"absent"}]
MCVisibilities == {<<0, 0>>, <<0, 2>>, <<2, 0>>}
MCAdSchedules == {s \in MCSchedules : s.currency = "usd"}
MCAgendas == {{"put_descriptor", "get_descriptor", "rotate_keys"},
              {"put_tariff", "run_billing", "rotate_keys"}}
StillAdmin == AdminInit /\ token = NoToken /\ agenda = CHOOSE a \in Agendas : TRUE

NoSample == CHOOSE s \in Samples : s.batch = 1
MCInit == /\ part \in {"prepaid", "memory", "patala", "engine", "objects", "admin", "tariff"}
          /\ LedgerInit /\ SettleInit /\ ObjectsInit
          /\ IF part = "engine" THEN EngineInit ELSE EngineInit /\ schedule = CHOOSE s \in Schedules : TRUE
          /\ IF part = "admin" THEN AdminInit /\ (visibility = <<2, 2>> => "get_descriptor" \in agenda)
                               ELSE StillAdmin
          /\ IF part = "tariff" THEN sample \in Samples ELSE sample = NoSample

MCNext == /\ UNCHANGED part
          /\ \/ part = "prepaid" /\ LedgerNext /\ UNCHANGED <<settleVars, engineVars, objectVars, adminVars, sample>>
             \/ part = "memory" /\ InMemoryNext /\ UNCHANGED <<ledgerVars, engineVars, objectVars, adminVars, sample>>
             \/ part = "patala" /\ PatalaNext /\ UNCHANGED <<ledgerVars, engineVars, objectVars, adminVars, sample>>
             \/ part = "engine" /\ EngineNext /\ UNCHANGED <<ledgerVars, settleVars, objectVars, adminVars, sample>>
             \/ part = "objects" /\ ObjectsNext /\ UNCHANGED <<ledgerVars, settleVars, engineVars, adminVars, sample>>
             \/ part = "admin" /\ AdminNext /\ UNCHANGED <<ledgerVars, settleVars, engineVars, objectVars, sample>>
             \/ part = "tariff" /\ Look /\ UNCHANGED <<ledgerVars, settleVars, engineVars, objectVars, adminVars>>

MCSpec == MCInit /\ [][MCNext]_<<part, sample, ledgerVars, settleVars, engineVars, objectVars, adminVars>>

(* Two callers that present the same receipts, at the same time or not.    *)
SharedPresents == [c \in Callers |-> MCReceipts]
RaceSpec == MCSpec /\ part = "patala"

-----------------------------------------------------------------------------
(* A schedule and a billed operation mean on the far side what they meant  *)
(* on this one: no kind takes the price, the allowance or the charge of    *)
(* another (the tags, to_cv and from_cv of the two payloads).              *)
PricesSurvive ==
    (part = "objects" /\ wire = Nothing) =>
    \A priced, allowed \in SUBSET ResourceKinds, k \in ResourceKinds, period \in {0, 60} :
        LET s == [currency |-> "usd", prices |-> [j \in priced |-> wire_tag(j) + 10],
                  free_allowance |-> [j \in allowed |-> wire_tag(j) + 20], period_seconds |-> period]
            o == [payer |-> "p", kind |-> k, metered_units |-> 3, billed_units |-> 2, amount |-> 1,
                  currency |-> "usd", sequence |-> 7]
        IN  from_cbor(to_cbor(s)) = s /\ operation_from_cv(operation_to_cv(o)) = o

(* A bill is the sum, over the metered kinds, of the units beyond the free *)
(* ones at their price, exactly or at u64::MAX, and there is none when a   *)
(* kind has no price (TariffSchedule::evaluate).                           *)
BillExact ==
    part = "tariff" =>
    LET bill == evaluate(Schedule, sample.usage)
        due(k) == (IF sample.usage[k] > free(Schedule, k) THEN sample.usage[k] - free(Schedule, k) ELSE 0)
                    * sample.prices[k]
        exact == SumFunction([k \in Kind |-> due(k)])
    IN  IF Kind \subseteq DOMAIN sample.prices
        THEN bill.ok /\ bill.amount = (IF exact > U64 THEN U64 ELSE exact)
        ELSE ~bill.ok

(* Raw usage is rounded up to whole batches: they hold it, and one batch   *)
(* fewer does not (billing_units), as long as the sum stays below MAX.     *)
RoundsUp ==
    part = "tariff" =>
    LET raw == sample.usage["relay"]
        units == billing_units(raw, sample.batch)
    IN  raw + sample.batch - 1 <= U64 =>
            units * sample.batch >= raw /\ (units > 0 => (units - 1) * sample.batch < raw)

(* A recommended price covers what it was computed from: at the assumed    *)
(* volume it brings in the marked-up fixed cost, and the marked-up cost of *)
(* the bandwidth of each unit besides (recommended_tariff).                *)
PricingRecovers ==
    part = "tariff" =>
    \A k \in {"relay", "reachability", "gateway", "compute"} :
        LET p == sample.profile
            bandwidth == k \in {"relay", "reachability"}
            volume == IF bandwidth THEN Assumed.bandwidth ELSE Assumed[k]
            price == Pricing!recommended_tariff(k, p)
        IN  /\ price > 0
            /\ price * volume * 100 >=
                 Markup * (Pricing!fixed_cost(k, p) + (IF bandwidth THEN volume * p.bandwidth ELSE 0))

(* The books: the records of the prepaid ledger are numbered and explain   *)
(* its balances, the accounts of the in-memory rail balance, and the       *)
(* patala rail credits a receipt once, backed by a payment (prepaid.rs,    *)
(* settlement.rs, pier-billing-patala).                                    *)
BooksSound == /\ LedgerTypeOK /\ RecordsSound /\ BalanceExplained
              /\ SettleTypeOK /\ BooksBalance /\ CreditedOnce /\ CreditBacked

(* What is accepted was signed as it stands, what was signed is accepted   *)
(* until it expires, and prices mean the same on both sides                *)
(* (descriptor.rs, tariff.rs, receipt.rs).                                 *)
ObjectsSound == AcceptedWasSigned /\ SignedIsAccepted /\ PricesSurvive

(* Bills are exact, usage rounds up to whole batches, and a recommended    *)
(* price recovers its cost (tariff.rs, pricing.rs).                        *)
TariffExact == BillExact /\ RoundsUp /\ PricingRecovers
=============================================================================
