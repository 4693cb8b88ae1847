------------------------------- MODULE Bridge -------------------------------
(***************************************************************************)
(* The path of a bridged message and what proves it (pier-gateway          *)
(* provenance.rs, wrap_attest_and_stamp of inbound.rs): legacy mail enters *)
(* at a gateway that strips the trust claims of its head and attests the   *)
(* rest; further gateways bridge it for a self-hosted domain they are      *)
(* authorized for, each adding an attestation and metering the relay; the  *)
(* carriers between them may change what they carry; the recipient keeps   *)
(* the attestations that verify and assembles the provenance record.       *)
(***************************************************************************)
EXTENDS Naturals, Sequences, FiniteSets

-----------------------------------------------------------------------------
(* Provenance: one GatewayAttestation per gateway a message passed.        *)

DISC_LEGACY_BRIDGE == 1

\* GatewayAttestation::sign; a seq of 0 is not encoded.
gateway_sign(key, domain, digest, from, at, seq) ==
    LET body == [disc |-> DISC_LEGACY_BRIDGE, domain |-> domain, at |-> at,
                 digest |-> digest, from |-> from, seq |-> seq]
    IN  [body |-> body, sig |-> <<key, "gateway-attest", body>>]

\* The digest is signed but not compared.
gateway_verify_AnyBytes(att, domain, published, digest) ==
    IF att.body.disc # DISC_LEGACY_BRIDGE THEN "Invalid"
    ELSE IF att.body.domain # domain THEN "KeyUntrusted"
    ELSE IF att.sig # <<published, "gateway-attest", att.body>> THEN "Invalid"
    ELSE "Ok"

\* GatewayAttestation::verify.
gateway_verify(att, domain, published, digest) ==
    IF att.body.disc # DISC_LEGACY_BRIDGE THEN "Invalid"
    ELSE IF att.body.domain # domain THEN "KeyUntrusted"
    ELSE IF att.body.digest # digest THEN "Invalid"
    ELSE IF published = "nokey" THEN "KeyUntrusted"
    ELSE IF att.sig # <<published, "gateway-attest", att.body>> THEN "Invalid"
    ELSE "Ok"

\* Bridge::bridge: the hop number is the length of the chain, in one byte.
hop_seq(prior) == Len(prior) % 256

\* ProvenanceRecord::assemble and from_det_cbor: the origin says whether the
\* chain is empty, and a record where the two disagree is not decoded.
assemble(chain) == [origin |-> IF chain = <<>> THEN "PureMesh"
                               ELSE "GatewayTouched",
                    gateways |-> chain]
from_det_cbor(rec) == rec.origin = "PureMesh" <=> rec.gateways = <<>>

-----------------------------------------------------------------------------
CONSTANTS Gateways,        \* a gateway's domain names it; its key is <<"key", g>>
          Bodies,          \* what a legacy sender writes
          Claims,          \* trust headers it may put in front, and in the body
          HostDomains,     \* self-hosted domains, as spelled
          Folded,            \* their lower-case form
          Entries,         \* Entries[g][d]: the account of domain d at g, if it has one
          KeyRegistered,   \* the gateways in key-registered mode; the others are open
          MaxHops, MaxTampers   \* bounds of the model: hops and bills, changes on the way

ASSUME BridgeAssumption == "carrier" \notin Gateways /\ MaxHops \in Nat

VARIABLES message,   \* in transit: [content, chain], or as the sender wrote it
          place,     \* where it is
          meter,     \* the MeterEvents of all gateways
          signed_by, \* history: <<gateway, digest, where>> of every attestation
          written,   \* history: what the sender wrote
          tampers,
          last,      \* the outcome of the last bridge
          record     \* what the recipient assembled
bridgeVars == <<message, place, meter, signed_by, written, tampers, last, record>>

Key(g) == <<"key", g>>
Published == [g \in Gateways |-> Key(g)]

(* A digest stands for the exact bytes: two messages share one only when   *)
(* head and body are the same.                                             *)
msg_digest(content) == content

(* The claims of the head go; the body is carried as it is, whatever lines *)
(* of it look like.                                                        *)
strip_trust_boundary_headers(content) == [content EXCEPT !.head = {}]

NoRecord == [origin |-> "none", gateways |-> <<>>]
BridgeInit == /\ \E b \in Bodies, h, look \in SUBSET Claims :
                     message = [content |-> [body |-> b, head |-> h, look |-> look], chain |-> <<>>]
              /\ written = message.content /\ place = "legacy" /\ meter = <<>> /\ signed_by = {} /\ tampers = 0
              /\ last = "none" /\ record = NoRecord

(* StaticGatewayAuthz and IdentityRegistry, authorize: an open gateway     *)
(* lets every domain through on an account of its own.                     *)
Entry(g, d) == IF Folded[d] \in DOMAIN Entries[g] THEN Entries[g][Folded[d]] ELSE "denied"
Account(g, d) == IF g \in KeyRegistered THEN Entry(g, d) ELSE "public"

(* wrap_attest_and_stamp: one hop, number 0, over the stripped bytes.      *)
stamped_Raw(g) ==
    LET c == message.content
    IN  [content |-> c, att |-> gateway_sign(Key(g), g, msg_digest(c), "sender", 0, 0)]
stamped(g) ==
    LET c == strip_trust_boundary_headers(message.content)
    IN  [content |-> c, att |-> gateway_sign(Key(g), g, msg_digest(c), "sender", 0, 0)]
wrap_attest_and_stamp(g) ==
    /\ place = "legacy" /\ place' = "mesh"
    /\ message' = [content |-> stamped(g).content, chain |-> <<stamped(g).att>>]
    /\ signed_by' = signed_by \cup {<<g, stamped(g).att.body.digest, "entry">>}
    /\ UNCHANGED <<meter, written, tampers, last, record>>

chain_append(prior, hop) == Append(prior, hop)
Event(g, direction, d, account) == [gateway |-> g, direction |-> direction, account |-> account,
                                    domain |-> d, digest |-> msg_digest(message.content)]

(* Bridge::bridge: authorize, attest, meter, in this order; a refusal does *)
(* neither of the two.                                                     *)
Metered(events, account, e) == IF account = "denied" THEN events ELSE Append(events, e)
bridge(g, direction, d) ==
    LET account == Account(g, d)
        att == gateway_sign(Key(g), g, msg_digest(message.content), "sender", 0, hop_seq(message.chain))
    IN  /\ place = "mesh" /\ Len(message.chain) <= MaxHops /\ Len(meter) < MaxHops
        /\ meter' = Metered(meter, account, Event(g, direction, d, account))
        /\ IF account = "denied"
           THEN last' = "NotAuthorized" /\ UNCHANGED <<message, signed_by>>
           ELSE /\ last' = "bridged"
                /\ message' = [message EXCEPT !.chain = chain_append(@, att)]
                /\ signed_by' = signed_by \cup {<<g, att.body.digest, "bridge">>}
        /\ UNCHANGED <<place, written, tampers, record>>

(* External: a carrier on the way may rewrite the message, lose or reorder *)
(* attestations, or forge one with a key of its own.                       *)
Drop(chain, i) == [k \in 1..(Len(chain) - 1) |-> IF k < i THEN chain[k] ELSE chain[k + 1]]
Tamper ==
    /\ place = "mesh" /\ tampers < MaxTampers /\ tampers' = tampers + 1
    /\ \/ \E b \in Bodies : b # message.content.body /\ message' = [message EXCEPT !.content.body = b]
       \/ \E h \in SUBSET Claims : h # message.content.head /\ message' = [message EXCEPT !.content.head = h]
       \/ \E i \in DOMAIN message.chain : message' = [message EXCEPT !.chain = Drop(@, i)]
       \/ /\ Len(message.chain) <= MaxHops
          /\ \E g \in Gateways :
                 message' = [message EXCEPT !.chain = Append(@,
                    gateway_sign(<<"key", "carrier">>, g, msg_digest(message.content), "sender", 0, 0))]
    /\ UNCHANGED <<place, meter, signed_by, written, last, record>>

(* The recipient's node: the hops that verify over the bytes it got, in    *)
(* their order.                                                            *)
Verifies(att) == gateway_verify(att, att.body.domain, Published[att.body.domain],
                                msg_digest(message.content)) = "Ok"
InOrder(I) == {kept \in [1..Cardinality(I) -> I] : \A i, j \in DOMAIN kept : i < j => kept[i] < kept[j]}
receive == /\ place = "mesh" /\ place' = "recipient"
           /\ \E kept \in InOrder({i \in DOMAIN message.chain : Verifies(message.chain[i])}) :
                  record' = assemble([k \in DOMAIN kept |-> message.chain[kept[k]]])
           /\ UNCHANGED <<message, meter, signed_by, written, tampers, last>>

BridgeNext == \/ \E g \in Gateways : \/ wrap_attest_and_stamp(g)
                                     \/ \E dir \in {"Inbound", "Outbound"}, d \in HostDomains : bridge(g, dir, d)
              \/ Tamper \/ receive

BridgeSpec == BridgeInit /\ [][BridgeNext]_bridgeVars

-----------------------------------------------------------------------------
(* A hop of a provenance record happened: the gateway it names signed the  *)
(* very bytes the recipient has (GatewayAttestation::verify binds domain,  *)
(* key and digest), and a record without hops is the one that says so.     *)
HopsAreReal ==
    place = "recipient" =>
        /\ \A i \in DOMAIN record.gateways :
               \E where \in {"entry", "bridge"} :
                   <<record.gateways[i].body.domain, msg_digest(message.content), where>> \in signed_by
        /\ from_det_cbor(record)

(* The bill can be audited: every metered relay is of a message its        *)
(* gateway attested, on the account that authorized it, and every hop of a *)
(* record past the first was metered once per crossing (Bridge::bridge).   *)
BillAudits ==
    /\ \A i \in DOMAIN meter : /\ <<meter[i].gateway, meter[i].digest, "bridge">> \in signed_by
                               /\ meter[i].account = Account(meter[i].gateway, meter[i].domain)
    /\ place = "recipient" =>
           \A g \in Gateways :
               LET hops == {i \in DOMAIN record.gateways :
                                record.gateways[i].body.domain = g /\ record.gateways[i].body.seq > 0}
                   bills == {i \in DOMAIN meter : meter[i].gateway = g
                                                    /\ meter[i].digest = msg_digest(message.content)}
               IN  Cardinality(hops) <= Cardinality(bills)

(* No gateway vouches for a verdict the legacy sender wrote: what the      *)
(* entry gateway attests has no trust claim in its head, and the body is   *)
(* the sender's, lookalikes included (strip before you sign).              *)
NothingLaundered ==
    \A s \in signed_by : s[3] = "entry" => /\ s[2].head = {}
                                          /\ s[2].body = written.body /\ s[2].look = written.look

(* What the recipient keeps is true: the hops happened, the bills match    *)
(* them, and no claim of the legacy sender has become one of a gateway     *)
(* (provenance.rs).                                                        *)
ProvenanceSound == HopsAreReal /\ BillAudits /\ NothingLaundered
=============================================================================
