------------------------------- MODULE Tariff -------------------------------
(***************************************************************************)
(* pier-billing's tariffs as functions: the bill a schedule makes of       *)
(* metered usage (tariff.rs), and the cost-plus schedules an operator is   *)
(* recommended (pricing.rs).  Arithmetic is u64 and saturates at U64.      *)
(***************************************************************************)
EXTENDS Naturals, FiniteSets, FiniteSetsExt, Folds

CONSTANT U64     \* u64::MAX
ASSUME TariffAssumption == U64 \in Nat

plus(a, b) == IF a + b > U64 THEN U64 ELSE a + b
times(a, b) == IF a * b > U64 THEN U64 ELSE a * b
minus(a, b) == IF a > b THEN a - b ELSE 0

(* A schedule prices kinds and grants free units; a kind without a price   *)
(* cannot be billed, and one without an allowance has none.                *)
free(s, k) == IF k \in DOMAIN s.free_allowance THEN s.free_allowance[k] ELSE 0

line_item_NoFree(s, k, units) ==
    [kind |-> k, metered |-> units, billed |-> units, amount |-> times(units, s.prices[k])]
line_item(s, k, units) ==
    LET billed == minus(units, free(s, k))
    IN  [kind |-> k, metered |-> units, billed |-> billed, amount |-> times(billed, s.prices[k])]

(* TariffSchedule::evaluate: every kind is priced, or no bill.             *)
evaluate(s, usage) ==
    IF DOMAIN usage \subseteq DOMAIN s.prices
    THEN LET items == {line_item(s, k, usage[k]) : k \in DOMAIN usage}
         IN  [ok |-> TRUE, currency |-> s.currency, items |-> items,
              amount |-> FoldSet(LAMBDA i, sum : plus(sum, i.amount), 0, items)]
    ELSE [ok |-> FALSE, currency |-> s.currency, items |-> {}, amount |-> 0]

-----------------------------------------------------------------------------
ceil_div_Floor(a, b) == IF b = 0 THEN 0 ELSE a \div b
ceil_div(a, b) == IF b = 0 THEN 0 ELSE plus(a, b - 1) \div b

(* Raw usage in billing units of a batch: GiB, or thousands.               *)
billing_units(raw, batch) == ceil_div(raw, batch)

(* The monthly volume a fixed cost is spread over, in batches.             *)
Assumed == [bandwidth |-> 500, gateway |-> 200, compute |-> 500]
Markup == 200

markup(cost) == ceil_div(times(cost, Markup), 100)
atLeast1(n) == IF n = 0 THEN 1 ELSE n

(* bandwidth_schedule (relay, media relay; with the premium, reachability  *)
(* adapter), gateway_schedule and compute_schedule.                        *)
fixed_cost(kind, p) == IF kind \in {"reachability", "gateway"} THEN plus(p.base, p.premium) ELSE p.base
bandwidth_schedule(kind, p) ==
    atLeast1(markup(plus(p.bandwidth, ceil_div(fixed_cost(kind, p), Assumed.bandwidth))))
gateway_schedule(p) == atLeast1(markup(ceil_div(fixed_cost("gateway", p), Assumed.gateway)))
compute_schedule(p) == atLeast1(markup(ceil_div(fixed_cost("compute", p), Assumed.compute)))

recommended_tariff(kind, p) == CASE kind \in {"relay", "reachability"} -> bandwidth_schedule(kind, p)
                                 [] kind = "gateway" -> gateway_schedule(p)
                                 [] OTHER -> compute_schedule(p)
=============================================================================
