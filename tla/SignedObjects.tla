---------------------------- MODULE SignedObjects ----------------------------
(***************************************************************************)
(* The signed objects coordinators publish: descriptors, tariffs and usage *)
(* receipts (pier-economics descriptor.rs, kinds.rs, visibility.rs), and   *)
(* the schedules and billed operations inside them (tariff.rs, receipt.rs, *)
(* meter.rs of pier-billing).  A CBOR map is a function from the keys that *)
(* are there to values; "d.k" is key k of the map under key d.  A          *)
(* signature is a name, and signed says what was signed under it.          *)
(***************************************************************************)
EXTENDS Naturals, FiniteSets, Sequences

CONSTANTS Keys, Payloads,        \* identity keys; opaque schedules, operations, policies
          Expiries,              \* valid_until values, as strings; "none" is no expiry
          Deadline,              \* Deadline[e]: the last moment of e
          SigNames, MaxNow       \* bounds: signatures that are made, and the clock

ASSUME ObjectsAssumption == /\ "none" \notin DOMAIN Deadline /\ Expiries \ {"none"} \subseteq DOMAIN Deadline
                            /\ \A e \in DOMAIN Deadline : Deadline[e] \in Nat

VARIABLES signed, wire, altered, now, verdict
objectVars == <<signed, wire, altered, now, verdict>>

(* CoordinatorKind and ContentVisibility, as they are spelled on the wire. *)
CoordinatorKinds == {"gateway", "relay", "media-relay", "reachability-adapter", "infra-service",
                     "indexer", "labeler", "matcher", "arbiter", "oracle", "custodial-escrow"}
VisibilityClasses == {"blind", "blind-routing", "terminating"}
AssuranceLevels == {"structural", "attested", "declared"}
Suite == "0x01"

(* The domain tag each type is signed under.                               *)
DS_Shared == [descriptor |-> "descriptor", tariff |-> "payload", receipt |-> "payload"]
DS == [descriptor |-> "DMTAP-COORD-v0/descriptor", tariff |-> "DMTAP-COORD-v0/tariff",
       receipt |-> "DMTAP-COORD-v0/usage-receipt"]

With(f, key, v) == [k \in DOMAIN f \cup {key} |-> IF k \in DOMAIN f THEN f[k] ELSE v]
Without(f, keys) == [k \in DOMAIN f \ keys |-> f[k]]

(* The signing bodies: everything but the signature; no expiry, no key 4.  *)
receipt_body(ik, operation) ==
    [k \in {"1", "2", "3"} |-> CASE k = "1" -> Suite [] k = "2" -> ik [] k = "3" -> operation]
tariff_body(ik, schedule, expiry) ==
    IF expiry = "none" THEN receipt_body(ik, schedule) ELSE With(receipt_body(ik, schedule), "4", expiry)
Optional(f, k) == IF k \in DOMAIN f THEN f[k] ELSE "none"

(* A tariff inside a descriptor lies under key 6, with its own signature.  *)
Nested == [k \in {"1", "2", "3", "4", "5"} |-> CASE k = "1" -> "6.1" [] k = "2" -> "6.2"
                                             [] k = "3" -> "6.3" [] k = "4" -> "6.4" [] k = "5" -> "6.5"]
NestedKeys == {"6.1", "6.2", "6.3", "6.4", "6.5"}
under6(t) == [n \in {Nested[k] : k \in DOMAIN t} |-> t[CHOOSE k \in DOMAIN t : Nested[k] = n]]
NoTariff == [k \in {} |-> ""]

descriptor_body(ik, kind, class, level, policy, t) ==
    [k \in {"1", "2", "3", "4.1", "4.2", "5"} \cup DOMAIN under6(t) |->
       CASE k = "1" -> Suite [] k = "2" -> kind [] k = "3" -> ik [] k = "4.1" -> class
         [] k = "4.2" -> level [] k = "5" -> policy [] OTHER -> under6(t)[k]]

-----------------------------------------------------------------------------
(* Decoding: the keys that must be there, the ones that may, nothing else, *)
(* and every value one the type knows.                                     *)
tariff_from_cv(f) == /\ {"1", "2", "3", "5"} \subseteq DOMAIN f
                     /\ DOMAIN f \subseteq {"1", "2", "3", "4", "5"}
                     /\ f["1"] = Suite /\ ("4" \in DOMAIN f => f["4"] \in DOMAIN Deadline)
visibility_from_cv(f) == f["4.1"] \in VisibilityClasses /\ f["4.2"] \in AssuranceLevels
inner(f) == [k \in {k \in DOMAIN Nested : Nested[k] \in DOMAIN f} |-> f[Nested[k]]]
from_cv(f) ==
    /\ {"1", "2", "3", "4.1", "4.2", "5"} \subseteq DOMAIN f
    /\ DOMAIN f \subseteq {"1", "2", "3", "4.1", "4.2", "5"} \cup NestedKeys
    /\ f["1"] = Suite
    /\ f["2"] \in CoordinatorKinds /\ visibility_from_cv(f)
    /\ DOMAIN f \cap NestedKeys # {} => tariff_from_cv(inner(f))

(* External: kotva_core's sign_domain and verify_domain.                   *)
verify_domain(ik, what, body, sig) ==
    sig \in DOMAIN signed /\ signed[sig].ik = ik /\ signed[sig].ds = DS[what] /\ signed[sig].body = body

tariff_covered(f) == tariff_body(f["2"], f["3"], Optional(f, "4"))

(* SignedDescriptor::from_det_cbor, Tariff::verify, UsageReceipt::verify.  *)
expired(e) == e # "none" /\ now > Deadline[e]
from_det_cbor(f) == /\ "7" \in DOMAIN f
                    /\ from_cv(Without(f, {"7"}))
                    /\ verify_domain(f["3"], "descriptor", Without(f, {"7"}), f["7"])
tariff_verify(f) == /\ tariff_from_cv(f)
                    /\ verify_domain(f["2"], "tariff", tariff_covered(f), f["5"])
                    /\ ~expired(Optional(f, "4"))
receipt_verify(f) == /\ DOMAIN f = {"1", "2", "3", "5"} /\ f["1"] = Suite
                     /\ verify_domain(f["2"], "receipt", receipt_body(f["2"], f["3"]), f["5"])
Accepts(w) == CASE w.what = "descriptor" -> from_det_cbor(w.f)
                [] w.what = "tariff" -> tariff_verify(w.f)
                [] w.what = "receipt" -> receipt_verify(w.f)

-----------------------------------------------------------------------------
Nothing == [what |-> "none", f |-> NoTariff]
ObjectsInit == signed = NoTariff /\ wire = Nothing /\ altered = FALSE /\ now = 0 /\ verdict = "none"

Publish(what, ik, body, at) ==
    /\ SigNames \ DOMAIN signed # {}
    /\ LET s == CHOOSE s \in SigNames : s \notin DOMAIN signed
       IN  /\ signed' = With(signed, s, [ik |-> ik, ds |-> DS[what], what |-> what, body |-> body])
           /\ wire' = [what |-> what, f |-> With(body, at, s)]
    /\ altered' = FALSE /\ verdict' = "none" /\ UNCHANGED now

sign_receipt(k, p) == Publish("receipt", k, receipt_body(k, p), "5")
sign_with_validity(k, p, e) == Publish("tariff", k, tariff_body(k, p, e), "5")
sign_descriptor(k, kind, class, level, p) ==
    \/ Publish("descriptor", k, descriptor_body(k, kind, class, level, p, NoTariff), "7")
    \/ /\ wire.what = "tariff" /\ ~altered      \* with the tariff just signed
       /\ Publish("descriptor", k, descriptor_body(k, kind, class, level, p, wire.f), "7")

(* On the way: a value changed, a key lost, one added, a signature from    *)
(* another object, or an object taken for one of another type.             *)
Alter == /\ wire.what # "none" /\ ~altered /\ altered' = TRUE /\ verdict' = "none"
         /\ \/ \E k \in DOMAIN wire.f, v \in Payloads \cup Keys \cup Expiries \cup SigNames
                                             \cup {"0x02", "arbiter", "attested"} :
                 v # wire.f[k] /\ wire' = [wire EXCEPT !.f[k] = v]
            \/ \E k \in DOMAIN wire.f : wire' = [wire EXCEPT !.f = Without(@, {k})]
            \/ \E k \in {"4", "6.2", "9"} \ DOMAIN wire.f, v \in Expiries :
                 wire' = [wire EXCEPT !.f = With(@, k, v)]
            \/ \E w \in DOMAIN DS \ {wire.what} : wire' = [wire EXCEPT !.what = w]
         /\ UNCHANGED <<signed, now>>

Read == /\ wire.what # "none" /\ verdict' = (IF Accepts(wire) THEN "accepted" ELSE "refused")
        /\ UNCHANGED <<signed, wire, altered, now>>
Passes == now < MaxNow /\ now' = now + 1 /\ verdict' = "none" /\ UNCHANGED <<signed, wire, altered>>

ObjectsNext == \/ Alter \/ Read \/ Passes
               \/ \E k \in Keys, p \in Payloads : \/ sign_receipt(k, p)
                                                  \/ \E e \in Expiries : sign_with_validity(k, p, e)
                                                  \/ sign_descriptor(k, "relay", "blind", "structural", p)

-----------------------------------------------------------------------------
(* ResourceKind's tags, the maps keyed by them, and the payloads that      *)
(* hold one: a schedule, its period optional, and a billed operation.      *)
ResourceKinds == {"BytesForwarded", "Connections", "Messages", "ComputeSeconds"}
wire_tag(k) == CASE k = "BytesForwarded" -> 1 [] k = "Connections" -> 2
                 [] k = "Messages" -> 3 [] k = "ComputeSeconds" -> 4
from_wire_tag(t) == CASE t = 1 -> "BytesForwarded" [] t = 2 -> "Connections"
                      [] t = 3 -> "Messages" [] t = 4 -> "ComputeSeconds" [] OTHER -> "unknown"

price_map(m) == [t \in {wire_tag(k) : k \in DOMAIN m} |-> m[CHOOSE k \in DOMAIN m : wire_tag(k) = t]]
resource_price_map(w) ==
    [k \in {from_wire_tag(t) : t \in DOMAIN w} |-> w[CHOOSE t \in DOMAIN w : from_wire_tag(t) = k]]

to_cbor(s) ==
    LET required == <<s.currency, price_map(s.prices), price_map(s.free_allowance)>>
    IN  IF s.period_seconds = 0 THEN required ELSE Append(required, s.period_seconds)
from_cbor(f) == [currency |-> f[1], prices |-> resource_price_map(f[2]),
                 free_allowance |-> resource_price_map(f[3]),
                 period_seconds |-> IF 4 \in DOMAIN f THEN f[4] ELSE 0]

operation_to_cv(o) == <<o.payer, wire_tag(o.kind), o.metered_units, o.billed_units,
                        o.amount, o.currency, o.sequence>>
operation_from_cv(f) == [payer |-> f[1], kind |-> from_wire_tag(f[2]),
                         metered_units |-> f[3], billed_units |-> f[4], amount |-> f[5],
                         currency |-> f[6], sequence |-> f[7]]

(* Only what was signed is accepted: an object that reads well names a key *)
(* that signed exactly these fields as this type, whatever happened to it  *)
(* on the way (verify, the domain tags, the fields each signature covers). *)
Body(w) == Without(w.f, {IF w.what = "descriptor" THEN "7" ELSE "5"})
AcceptedWasSigned ==
    verdict = "accepted" =>
        \E s \in DOMAIN signed :
            /\ signed[s].body = Body(wire)
            /\ signed[s].ik = wire.f[IF wire.what = "descriptor" THEN "3" ELSE "2"]
            /\ signed[s].what = wire.what

(* What was signed and not altered is accepted until it expires, not       *)
(* longer: encoding loses nothing decoding wants (to_cv, from_cv).         *)
SignedIsAccepted ==
    (wire.what # "none" /\ ~altered /\ verdict # "none") =>
        (verdict = "accepted" <=>
            (wire.what = "tariff" => LET e == Optional(wire.f, "4") IN e # "none" => now <= Deadline[e]))
=============================================================================
