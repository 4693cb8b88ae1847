---------------------------- MODULE MCTunnelServer ----------------------------
(* Connections c1 and c2 are the same agent, connecting and reconnecting; c3   *)
(* is another.  A run takes some of them, so that what it is about (the        *)
(* registry and its requests, revocation, a drain) meets in every order.       *)
EXTENDS TunnelServer, TLC

CONSTANTS c1, c2, c3, n1, n2, t1, t2, a1, a2, r1, r2

MCName    == [c \in Conns |-> IF c = c3 THEN n2 ELSE n1]
MCToken   == [c \in Conns |-> IF c \in {c1, c2} THEN t1 ELSE t2]
MCAccount == [c \in Conns |-> IF c \in {c1, c2} THEN a1 ELSE a2]
MCGrants  == {<<t1, n1>>, <<t2, n2>>}
MCTarget  == [r \in Requests |-> n1]
MCSymmetry == Permutations({c1, c2}) \cup Permutations({r1, r2})
=============================================================================
