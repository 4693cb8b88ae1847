--------------------------- MODULE InboundPolicy ---------------------------
(***************************************************************************)
(* The gates the inbound gateway puts on the SPF, DKIM and DMARC verdicts  *)
(* (inbound.rs): 0 lets the message through, any other number is the SMTP  *)
(* reply.  enforce tells whether the policy is Enforce or Annotate.  And   *)
(* the attestation of the MOTE it makes of one it accepts (attestation.rs): *)
(* a signature names the key, the domain separator and the signed fields,  *)
(* and is assumed unforgeable.                                             *)
(***************************************************************************)
EXTENDS Naturals

spf_gate(enforce, result) ==
    IF ~enforce THEN 0
    ELSE IF result = "Fail" THEN 550
    ELSE IF result = "TempError" THEN 451 ELSE 0

dkim_gate(enforce, verdict) == IF enforce /\ verdict.v = "Fail" THEN 550 ELSE 0

dmarc_gate(enforce, verdict) == IF enforce /\ verdict = "reject" THEN 550 ELSE 0

\* AttestationKey::attest.
attest(key, domain, mote, from, rcpt, at) ==
    LET body == [domain |-> domain, key |-> key, at |-> at, from |-> from,
                 rcpt |-> rcpt, mote |-> mote]
    IN  [body |-> body, sig |-> <<key, "gateway-attestation", body>>]

\* Attestation::verify, in the order of its checks; "nokey" is the key of a
\* domain that publishes none.
attestation_verify(att, domain, published, mote) ==
    IF att.body.domain # domain THEN "WrongDomain"
    ELSE IF att.body.mote # mote THEN "MoteMismatch"
    ELSE IF published = "nokey" THEN "NoPublishedKey"
    ELSE IF published # att.body.key THEN "KeyMismatch"
    ELSE IF att.sig # <<published, "gateway-attestation", att.body>>
    THEN "BadSignature" ELSE "Ok"
=============================================================================
