---------------------------- MODULE MCCredentials ----------------------------
(***************************************************************************)
(* Who may have a tunnel, and for how long, for TLC: the relay with its    *)
(* revocations and sweeps, the entitlement gate and the token store.  The  *)
(* gate and the store refuse a connection in TunnelServer as a free choice *)
(* and share no state with it, so each is explored while the others have   *)
(* not begun: part says which.                                             *)
(*                                                                         *)
(* relay: two agents; the name of one can be revoked, the token of the     *)
(*   other expires.                                                        *)
(* gate: a connection and a public request consult the gate over and over. *)
(* store: two handshakes with one credential that claim different names.   *)
(***************************************************************************)
EXTENDS TunnelServer, EntitlementGate, CPTokenStore

CONSTANTS c1, c3, n1, n2, t1, t2, a1, a2, g1, g2, h1, h2

VARIABLE part

MCName    == [c \in Conns |-> IF c = c3 THEN n2 ELSE n1]
MCToken   == [c \in Conns |-> IF c = c3 THEN t2 ELSE t1]
MCAccount == [c \in Conns |-> IF c = c3 THEN a2 ELSE a1]
MCGrants  == {<<t1, n1>>, <<t2, n2>>}
MCTarget  == [r \in Requests |-> n1]
MCKinds == {[c \in Callers |-> IF c = g1 THEN "connect" ELSE "continue"]}
MCClaim == [c \in Handshakes |-> IF c = h1 THEN n1 ELSE n2]

MCInit ==
    /\ part \in {"relay", "gate", "store"}
    /\ Init
    /\ GateInit /\ (part # "gate" => cp = "over")
    /\ StoreInit /\ (part # "store" => cpNames = {})

MCNext ==
    /\ UNCHANGED part
    /\ \/ part = "relay" /\ Next /\ UNCHANGED <<gateVars, storeVars>>
       \/ part = "gate" /\ GateNext /\ UNCHANGED <<vars, storeVars>>
       \/ part = "store" /\ StoreNext /\ UNCHANGED <<vars, gateVars>>

\* Nothing fair is enabled in a relay that has not begun.
MCSpec == MCInit /\ [][MCNext]_<<part, vars, gateVars, storeVars>> /\ Fairness
=============================================================================
