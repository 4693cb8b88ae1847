------------------------------ MODULE MCReach ------------------------------
(***************************************************************************)
(* The reachability adapter, for TLC: handshakes with silent and replaying *)
(* peers; registration and routing of boxes that are already               *)
(* authenticated; and the search for the server name.                      *)
(***************************************************************************)
EXTENDS ReachAdapter

VARIABLE part

MCKey == [c1 |-> "k1", c2 |-> "k1", c3 |-> "k2"]
(* In the auth part the peers compete for one name under either key.       *)
MCAnnounces == [ik : Iks, name : {"a"}, services : {{}}]
MCLower == [a |-> "a", A |-> "a", b |-> "b"]

Entries == [host : BOOLEAN, whole : BOOLEAN, name : {"x"}] \cup [host : {TRUE}, whole : {TRUE}, name : {"y", "empty_sni"}]
Lists(S) == UNION {[1..n -> S] : n \in 0..2}
NoNames == <<>>
Exts == [sni : {FALSE}, whole : BOOLEAN, names : {NoNames}]
          \cup [sni : {TRUE}, whole : {TRUE}, names : Lists(Entries)]
          \cup [sni : {TRUE}, whole : {FALSE}, names : {NoNames}]
Plain == [handshake |-> TRUE, len |-> 3, body |-> "whole", exts |-> <<>>]
MCHellos == {[Plain EXCEPT !.exts = x] : x \in {<<>>} \cup {<<e>> : e \in Exts}
                                          \cup {<<e, f>> : e, f \in Exts}}
            \cup {[Plain EXCEPT !.handshake = h, !.len = l, !.body = b] :
                   h \in BOOLEAN, l \in 0..(MaxRecord + 1), b \in {"whole", "no_extensions", "cut", "other_type"}}

Idle == CHOOSE h \in Hellos : TRUE

(* Boxes past their handshake, each under its own key; the second may come *)
(* back with another spelling of its name or without the service.          *)
Box(c, n, s) == [Fresh EXCEPT !.stage = "authenticated", !.ik = Key[c], !.name = n, !.services = s]
Authenticated ==
    \E b \in {Box("c2", "A", {"web"}), Box("c2", "a", {})} :
        hs = [c1 |-> Box("c1", "a", {"web"}), c2 |-> b, c3 |-> Box("c3", "a", {"web"})]
Closed == client = [k \in Clients |-> [Visitor("a") EXCEPT !.stage = "closed"]]

MCInit ==
    /\ part \in {"auth", "route", "sni"}
    /\ IF part = "route" THEN /\ Authenticated
                              /\ pending = {} /\ order = <<>> /\ issued = 0 /\ seen = {}
       ELSE AuthInit
    /\ IF part = "route" THEN ReachInit /\ client["v"].host = "a" /\ client["w"].host = "A"
       ELSE /\ tunnels = [n \in {} |-> 0] /\ next_generation = 0
            /\ gen = [c \in Conns |-> 0] /\ driver = [c \in Conns |-> "none"]
            /\ opens = [c \in Conns |-> <<>>] /\ Closed
    /\ IF part = "sni" THEN SniInit ELSE hello = Idle /\ have = 0 /\ verdict = "reading"

MCNext ==
    /\ UNCHANGED part
    /\ \/ part = "auth" /\ AuthNext /\ UNCHANGED <<reachVars, sniVars>>
       \/ part = "route" /\ ReachNext /\ UNCHANGED sniVars
       \/ part = "sni" /\ SniNext /\ UNCHANGED <<authVars, reachVars>>

MCSpec == MCInit /\ [][MCNext]_<<part, authVars, reachVars, sniVars>>
            /\ ReachFairness
============================================================================
