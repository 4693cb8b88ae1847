---------------------------- MODULE MCRelayClients ----------------------------
(***************************************************************************)
(* The two clients of a relay, for TLC: the agent's supervisor and the     *)
(* rendezvous queues.  They share no state, so each is explored while the  *)
(* other has not begun: part says which.                                   *)
(*                                                                         *)
(* agent: two loops, a predecessor and its successor or the loops of two   *)
(*   Starts, and two relays to migrate between.                            *)
(* rendezvous: messages m1 and m2 are for the mailbox of k1, m3 is for     *)
(*   that of k2, and there is room for one recipient.  Two connections     *)
(*   poll k1, so that one ends while the other waits.                      *)
(***************************************************************************)
EXTENDS AgentTunnel, Rendezvous

CONSTANTS l1, l2, p1, p2, m1, m2, m3, k1, k2, w1, w2

VARIABLE part

MCTo   == [m \in Msgs |-> IF m = m3 THEN k2 ELSE k1]
MCIn   == [m \in Msgs |-> "mailbox"]
MCSize == [m \in Msgs |-> IF m = m2 THEN 2 ELSE 1]
MCPollKey   == [p \in Pollers |-> k1]
MCPollQueue == [p \in Pollers |-> "mailbox"]

MCInit == part \in {"agent", "rendezvous"} /\ Init /\ RdvInit
MCNext ==
    /\ UNCHANGED part
    /\ \/ part = "agent" /\ Next /\ UNCHANGED rdvVars
       \/ part = "rendezvous" /\ RdvNext /\ UNCHANGED vars

\* Nothing fair is enabled in a part that has not begun.
MCSpec == MCInit /\ [][MCNext]_<<part, vars, rdvVars>> /\ Fairness /\ RdvFairness

(* A cancelled supervise loop ends, and a stored deposit wakes the         *)
(* registered polls of its key (superviseFrom, notifier).                  *)
ClientsLive == CancelledEnds /\ DepositWakes
=============================================================================
