------------------------- MODULE MCInboundGateway --------------------------
(***************************************************************************)
(* Two connections of a cold peer and one of a peer on the allow list;     *)
(* recipients with and without an attestation key; an empty message fails  *)
(* DMARC.                                                                  *)
(***************************************************************************)
EXTENDS InboundGateway

MCPeer == [c \in Conns |-> IF c = "c3" THEN "ip2" ELSE "ip1"]
MCDomainOf == [r \in Rcpts |-> IF r = "r3" THEN "unkeyed" ELSE "dom"]
MCAttestKey == [d \in {"dom", "unkeyed"} |-> IF d = "dom" THEN "kdom"
                                             ELSE "nokey"]
MCSpf(ip, from) == IF from = "bad" THEN "Fail" ELSE "Pass"
MCDkim(msg) == [v |-> IF msg = <<>> THEN "None" ELSE "Pass"]
MCDmarc(msg, spf, from) ==
    IF msg = <<>> THEN "reject" ELSE "pass"
=============================================================================
