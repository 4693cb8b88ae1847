---------------------------- MODULE ReachAdapter ----------------------------
(***************************************************************************)
(* The reachability adapter (tunnel.rs, ingress.rs): authenticated boxes   *)
(* register the name they serve, a driver task runs each box's yamux       *)
(* session, and public connections are routed by the name in their         *)
(* ClientHello onto a stream of the box's tunnel.                          *)
(***************************************************************************)
EXTENDS Naturals, Sequences, SequencesExt

(***************************************************************************)
(* The key handshake on a box's control connection (pier-reachability-     *)
(* adapter auth.rs): announce, challenge, response, and the nonces the     *)
(* adapter has issued.  A peer signs with the key it holds, whatever key   *)
(* it claims, or sends a response that was seen before.                    *)
(***************************************************************************)

CONSTANTS Conns, Iks, Names, Services,
          Announces,    \* what peers announce: records [ik, name, services]
          Key,          \* Key[c]: the identity key the peer of c really holds
          MaxPending    \* MAX_PENDING_NONCES

ASSUME AuthAssumption ==
    /\ Key \in [Conns -> Iks] /\ MaxPending \in Nat \ {0}
    /\ Announces \subseteq [ik : Iks, name : Names, services : SUBSET Services]

VARIABLES hs,           \* each connection's handshake
          pending, order,    \* NonceRegistry
          issued,       \* nonces drawn so far (external: getrandom never repeats)
          seen          \* responses that have crossed the wire

authVars == <<hs, pending, order, issued, seen>>

NoSig == [ik |-> "none", nonce |-> 0, name |-> "none"]
Fresh == [stage |-> "new", ik |-> "none", name |-> "none", services |-> {}, nonce |-> 0, sig |-> NoSig]

AuthInit == /\ hs = [c \in Conns |-> Fresh]
            /\ pending = {} /\ order = <<>> /\ issued = 0 /\ seen = {}

Advance(c, s) == hs' = [hs EXCEPT ![c].stage = s]

(* read_announce: the claimed key, the name and the services.              *)
read_announce(c, a) ==
    /\ hs[c].stage = "new"
    /\ hs' = [hs EXCEPT ![c] = [Fresh EXCEPT !.stage = "announced", !.ik = a.ik,
                                             !.name = a.name, !.services = a.services]]
    /\ UNCHANGED <<pending, order, issued, seen>>

(* NonceRegistry::issue: at the cap the oldest issued nonce goes.  consume *)
(* takes a nonce out of pending and leaves it in order.                    *)
Evicted == IF Len(order) >= MaxPending THEN {Head(order)} ELSE {}
Kept == IF Len(order) >= MaxPending THEN Tail(order) ELSE order

issue(c) == /\ hs[c].stage = "announced"
            /\ issued' = issued + 1
            /\ pending' = (pending \ Evicted) \cup {issued + 1}
            /\ order' = Append(Kept, issued + 1)
            /\ hs' = [hs EXCEPT ![c].stage = "challenged", ![c].nonce = issued + 1]
            /\ UNCHANGED seen

(* The peer answers the challenge with its own signature, as               *)
(* authenticate_as_box does, or with one that was sent earlier.            *)
sign_domain(c) == [ik |-> Key[c], nonce |-> hs[c].nonce, name |-> hs[c].name]
authenticate_as_box(c) ==
    /\ hs[c].stage = "challenged"
    /\ \E sig \in seen \cup {sign_domain(c)} :
         hs' = [hs EXCEPT ![c].stage = "answered", ![c].sig = sig] /\ seen' = seen \cup {sig}
    /\ UNCHANGED <<pending, order, issued>>

consume(c) == /\ hs[c].stage = "answered"
              /\ Advance(c, IF hs[c].nonce \in pending THEN "consumed" ELSE "refused")
              /\ pending' = pending \ {hs[c].nonce}
              /\ UNCHANGED <<order, issued, seen>>

(* verify_domain over the nonce and the name, under the claimed key.       *)
Verifies_AnyNonce(c) == hs[c].sig.ik = hs[c].ik /\ hs[c].sig.name = hs[c].name
Verifies(c) == hs[c].sig = [ik |-> hs[c].ik, nonce |-> hs[c].nonce, name |-> hs[c].name]

verify_domain(c) == /\ hs[c].stage = "consumed"
                    /\ Advance(c, IF Verifies(c) THEN "authenticated" ELSE "refused")
                    /\ UNCHANGED <<pending, order, issued, seen>>

(* The connection ends, or a frame is malformed, before it is through.     *)
Handshaking == {"new", "announced", "challenged"}
handshake_fails(c) == /\ hs[c].stage \in Handshaking /\ Advance(c, "refused")
                      /\ UNCHANGED <<pending, order, issued, seen>>

AuthNext == \E c \in Conns :
    \/ \E a \in Announces : read_announce(c, a)
    \/ issue(c) \/ authenticate_as_box(c) \/ consume(c) \/ verify_domain(c) \/ handshake_fails(c)

-----------------------------------------------------------------------------
Through == {"authenticated", "spawned", "registered", "unregistered"}

(* Type correctness of the handshakes.                                     *)
AuthTypeOK ==
    \A c \in Conns : /\ hs[c].stage \in Handshaking \cup Through \cup {"answered", "consumed", "refused"}
                     /\ hs[c].nonce \in 0..issued

(* Whoever gets through holds the key it claimed: a response sent before,  *)
(* on this connection or another, does not pass again, even for the same   *)
(* name (the nonce is in the signed bytes).                                *)
AuthSound == \A c \in Conns : hs[c].stage \in Through => hs[c].ik = Key[c]

(* The nonces that are awaited are among the last MaxPending issued: slow  *)
(* or silent peers cannot make the adapter's memory grow.                  *)
NoncesBounded == /\ Len(order) <= MaxPending
                 /\ pending \subseteq ToSet(order)
-----------------------------------------------------------------------------
CONSTANTS Clients, Hosts, Service, NoConn,
          Lower,        \* to_ascii_lowercase, on Hosts and Names
          HelloLen, StreamLen   \* bytes of the ClientHello, and of all a client sends

ASSUME LenAssumption == HelloLen \in Nat /\ StreamLen \in Nat

VARIABLES tunnels, next_generation,   \* TunnelRegistry
          gen,          \* the generation each connection's guard was given
          driver,       \* the task of each connection: none, running, ended
          opens,        \* per connection: the opens asked for and not answered
          client

reachVars == <<tunnels, next_generation, gen, driver, opens, client>>

Visitor(h) == [stage |-> "peek", host |-> h, buf |-> 0, target |-> NoConn,
               services |-> {}, box |-> <<>>]
ReachInit == /\ tunnels = [n \in {} |-> 0] /\ next_generation = 0
             /\ gen = [c \in Conns |-> 0] /\ driver = [c \in Conns |-> "none"]
             /\ opens = [c \in Conns |-> <<>>]
             /\ client \in [Clients -> {Visitor(h) : h \in Hosts}]

-----------------------------------------------------------------------------
(* accept_box_connection: the driver starts before the name is registered. *)
spawn(c) == /\ hs[c].stage = "authenticated" /\ Advance(c, "spawned")
            /\ driver' = [driver EXCEPT ![c] = "running"]
            /\ UNCHANGED <<tunnels, next_generation, gen, opens, client>>
            /\ UNCHANGED <<pending, order, issued, seen>>

(* TunnelRegistry::register: refused when the name is another key's, else  *)
(* a new generation that replaces what was there.                          *)
Ours(c) == hs[c].name \in DOMAIN tunnels => tunnels[hs[c].name].owner = hs[c].ik

Entry(c) == [conn |-> c, services |-> hs[c].services, owner |-> hs[c].ik,
             generation |-> next_generation]
register(c) ==
    /\ hs[c].stage = "spawned"
    /\ \/ /\ Ours(c) /\ Advance(c, "registered")
          /\ tunnels' = [n \in DOMAIN tunnels \cup {hs[c].name} |->
                          IF n = hs[c].name THEN Entry(c) ELSE tunnels[n]]
          /\ gen' = [gen EXCEPT ![c] = next_generation]
          /\ next_generation' = next_generation + 1
       \/ /\ ~Ours(c) /\ Advance(c, "refused")
          /\ UNCHANGED <<tunnels, gen, next_generation>>
    /\ UNCHANGED <<driver, opens, client, pending, order, issued, seen>>

(* The guard goes once the driver has ended, and then deregister removes   *)
(* the name if it is still at the guard's generation.                      *)
Mine_Any(c) == hs[c].name \in DOMAIN tunnels
Mine_Latest(c) == hs[c].name \in DOMAIN tunnels /\ gen[c] = next_generation
Mine(c) == hs[c].name \in DOMAIN tunnels /\ tunnels[hs[c].name].generation = gen[c]

deregister(c) ==
    /\ hs[c].stage = "registered" /\ driver[c] = "ended" /\ Advance(c, "unregistered")
    /\ tunnels' = IF Mine(c) THEN [n \in DOMAIN tunnels \ {hs[c].name} |-> tunnels[n]] ELSE tunnels
    /\ UNCHANGED <<next_generation, gen, driver, opens, client, pending, order, issued, seen>>

-----------------------------------------------------------------------------
Put(k, s) == client' = [client EXCEPT ![k].stage = s]
fail_closed(k) == Put(k, "closed")
Registry == <<tunnels, next_generation, gen>>

(* drive: opens are answered in order, with a stream or an error; when the *)
(* connection ends every open still waiting is answered Closed, the ones   *)
(* in the channel by dropping it.                                          *)
poll_new_outbound(c) ==
    /\ driver[c] = "running" /\ opens[c] # <<>>
    /\ opens' = [opens EXCEPT ![c] = Tail(@)]
    /\ Put(Head(opens[c]), "replay") \/ fail_closed(Head(opens[c]))
    /\ UNCHANGED <<driver>> /\ UNCHANGED Registry /\ UNCHANGED authVars

connection_ends(c) ==
    /\ driver[c] = "running"
    /\ driver' = [driver EXCEPT ![c] = "ended"]
    /\ opens' = [opens EXCEPT ![c] = <<>>]
    /\ client' = [k \in Clients |-> IF k \in ToSet(opens[c]) THEN [client[k] EXCEPT !.stage = "closed"]
                                    ELSE client[k]]
    /\ UNCHANGED Registry /\ UNCHANGED authVars

-----------------------------------------------------------------------------
(* handle_ingress_connection, await by await.                              *)
Ingress == UNCHANGED <<driver>> /\ UNCHANGED Registry /\ UNCHANGED authVars

(* peek_client_hello reads until the hello is whole, and may read past it. *)
peek_client_hello(k) ==
    /\ client[k].stage = "peek" /\ client[k].buf < HelloLen
    /\ \/ \E n \in 1..2 : /\ client[k].buf + n <= StreamLen
                          /\ client' = [client EXCEPT ![k].buf = @ + n]
       \/ fail_closed(k)
    /\ UNCHANGED opens /\ Ingress

service_allowed(services) == Service \in services

lookup(k) ==
    LET n == Lower[client[k].host]
    IN  /\ client[k].stage = "peek" /\ client[k].buf >= HelloLen
        /\ IF n \in DOMAIN tunnels /\ service_allowed(tunnels[n].services)
           THEN client' = [client EXCEPT ![k].stage = "open", ![k].target = tunnels[n].conn,
                                         ![k].services = tunnels[n].services]
           ELSE fail_closed(k)
        /\ UNCHANGED opens /\ Ingress

open_stream_Late(k) ==
    LET c == client[k].target
    IN  /\ client[k].stage = "open"
        /\ driver[c] = "running" /\ Put(k, "wait") /\ opens' = [opens EXCEPT ![c] = Append(@, k)]
        /\ Ingress
open_stream(k) ==
    LET c == client[k].target
    IN  /\ client[k].stage = "open"
        /\ \/ driver[c] = "running" /\ Put(k, "wait") /\ opens' = [opens EXCEPT ![c] = Append(@, k)]
           \/ driver[c] = "ended" /\ fail_closed(k) /\ UNCHANGED opens
        /\ Ingress

(* The buffered bytes go to the box first, all of them.                    *)
Replayed_Hello(k) == [i \in 1..HelloLen |-> i]
Replayed(k) == [i \in 1..client[k].buf |-> i]

replay(k) == /\ client[k].stage = "replay"
             /\ \/ /\ driver[client[k].target] = "running"
                   /\ client' = [client EXCEPT ![k].stage = "splice", ![k].box = Replayed(k)]
                \/ driver[client[k].target] = "ended" /\ fail_closed(k)
             /\ UNCHANGED opens /\ Ingress

(* copy_bidirectional: what the client sends next, until either side ends. *)
copy_bidirectional(k) ==
    /\ client[k].stage = "splice" /\ driver[client[k].target] = "running"
    /\ client[k].buf < StreamLen
    /\ client' = [client EXCEPT ![k].buf = @ + 1, ![k].box = Append(@, client[k].buf + 1)]
    /\ UNCHANGED opens /\ Ingress
splice_ends(k) == /\ client[k].stage = "splice" /\ fail_closed(k)
                  /\ UNCHANGED opens /\ Ingress

ReachNext ==
    \/ AuthNext /\ UNCHANGED reachVars
    \/ \E c \in Conns : \/ spawn(c) \/ register(c) \/ deregister(c)
                        \/ poll_new_outbound(c) \/ connection_ends(c)
    \/ \E k \in Clients : \/ peek_client_hello(k) \/ lookup(k) \/ open_stream(k)
                          \/ replay(k) \/ copy_bidirectional(k) \/ splice_ends(k)

AdapterSpec == AuthInit /\ ReachInit /\ [][ReachNext]_<<authVars, reachVars>>

(* The tasks run; peers may stay silent and connections may last forever.  *)
ReachFairness ==
    /\ \A c \in Conns : WF_<<authVars, reachVars>>(deregister(c))
    /\ \A k \in Clients : /\ WF_<<authVars, reachVars>>(open_stream(k))
                          /\ WF_<<authVars, reachVars>>(replay(k))
                          /\ WF_<<authVars, reachVars>>(splice_ends(k)
                                                        /\ driver[client[k].target] = "ended")

-----------------------------------------------------------------------------
(* Type correctness of the registry, the drivers and the clients.          *)
ReachTypeOK ==
    /\ DOMAIN tunnels \subseteq Names
    /\ \A n \in DOMAIN tunnels : tunnels[n].conn \in Conns /\ tunnels[n].generation < next_generation
    /\ \A c \in Conns : driver[c] \in {"none", "running", "ended"}
    /\ \A k \in Clients : /\ client[k].stage \in {"peek", "open", "wait", "replay", "splice", "closed"}
                          /\ client[k].stage = "wait" <=> \E c \in Conns : k \in ToSet(opens[c])

(* A box that is up keeps the name it registered until it registers it     *)
(* again itself: neither another key nor the late clean-up of one of its   *)
(* earlier connections takes the name away (register, deregister).         *)
Superseded(c) == \E d \in Conns : /\ hs[d].stage \in {"registered", "unregistered"}
                                  /\ hs[d].name = hs[c].name /\ hs[d].ik = hs[c].ik
                                  /\ gen[d] > gen[c]
LiveKeepsName ==
    \A c \in Conns : (hs[c].stage = "registered" /\ driver[c] = "running" /\ ~Superseded(c))
                       => /\ hs[c].name \in DOMAIN tunnels
                          /\ tunnels[hs[c].name].conn = c

(* A public connection is carried only by a box that registered its name,  *)
(* offered this service and proved its key, however registrations changed  *)
(* while it was being routed (lookup, open_stream).                        *)
RoutedToOwner ==
    \A k \in Clients : client[k].stage \in {"open", "wait", "replay", "splice"} =>
        LET c == client[k].target
        IN  /\ hs[c].stage \in Through /\ hs[c].ik = Key[c]
            /\ hs[c].name = Lower[client[k].host]
            /\ Service \in hs[c].services

(* The box sees what the client sent from the first byte, none lost or     *)
(* repeated between the buffered hello and the splice.                     *)
StreamFaithful ==
    \A k \in Clients : client[k].stage = "splice" => client[k].box = [i \in 1..client[k].buf |-> i]

(* The name of a box whose connection ended does not stay with it.         *)
NameFreed ==
    \A c \in Conns : (driver[c] = "ended" /\ hs[c].stage = "registered")
                       ~> (\A n \in DOMAIN tunnels : tunnels[n].conn # c)

(* Nobody waits on a tunnel that is gone: a public connection routed to it *)
(* is closed, whether its open was queued, answered or still to be made.   *)
NobodyWaits ==
    \A k \in Clients, c \in Conns :
        (client[k].target = c /\ driver[c] = "ended") ~> (client[k].stage = "closed")

-----------------------------------------------------------------------------
(***************************************************************************)
(* Finding the server name in a TLS ClientHello that arrives in pieces     *)
(* (pier-reachability-adapter sni.rs).  A hello is its record header and,  *)
(* in order, what the cursor meets inside: whole says that a declared      *)
(* length fits in what is left.                                            *)
(***************************************************************************)

CONSTANTS Hellos,
          Header,         \* bytes of the record header (5)
          MaxRecord,      \* the largest record length accepted (0x4000)
          MaxHello,       \* MAX_CLIENT_HELLO_BYTES
          Chunk           \* the most one read returns (1024)

(* What a hello holds; a host name is none of the parser's error values.   *)
Errors == {"incomplete", "not_handshake", "malformed", "no_sni"}
IsList(s) == Len(s) \in Nat /\ DOMAIN s = 1..Len(s)
IsEntry(n) == n.host \in BOOLEAN /\ n.whole \in BOOLEAN /\ n.name \notin Errors
IsExtension(e) == /\ e.sni \in BOOLEAN /\ e.whole \in BOOLEAN
                  /\ IsList(e.names) /\ \A i \in DOMAIN e.names : IsEntry(e.names[i])
ASSUME SniAssumption ==
    /\ Header \in Nat /\ MaxRecord \in Nat /\ MaxHello \in Nat /\ Chunk \in Nat
    /\ \A h \in Hellos : /\ h.handshake \in BOOLEAN /\ h.len \in Nat
                          /\ IsList(h.exts) /\ \A i \in DOMAIN h.exts : IsExtension(h.exts[i])

VARIABLES hello,    \* what the client is sending
          have,     \* bytes read so far
          verdict   \* what peek_client_hello returned

sniVars == <<hello, have, verdict>>

(* The first element of a list that ends the walk: one that does not fit,  *)
(* or one of the wanted type.                                              *)
Stops(s, wanted) == wanted \cup {i \in DOMAIN s : ~s[i].whole}
First(S) == CHOOSE i \in S : \A j \in S : i <= j

(* parse_server_name_extension and the walk of parse_client_hello_body.    *)
server_name(names) ==
    LET stops == Stops(names, {i \in DOMAIN names : names[i].host})
        e == names[First(stops)]
    IN  CASE stops = {} -> "no_sni"
          [] stops # {} /\ ~e.whole -> "malformed"
          [] stops # {} /\ e.whole -> e.name

sni_extension_Last(exts) ==
    LET stops == Stops(exts, {i \in DOMAIN exts : exts[i].sni})
        e == exts[CHOOSE i \in stops : \A j \in stops : i >= j]
    IN  CASE stops = {} -> "no_sni"
          [] stops # {} /\ ~e.whole -> "malformed"
          [] stops # {} /\ e.whole -> server_name(e.names)
sni_extension(exts) ==
    LET stops == Stops(exts, {i \in DOMAIN exts : exts[i].sni})
        e == exts[First(stops)]
    IN  CASE stops = {} -> "no_sni"
          [] stops # {} /\ ~e.whole -> "malformed"
          [] stops # {} /\ e.whole -> server_name(e.names)

(* The handshake type, a body within this record, and the fixed fields;    *)
(* a body that stops after them has no extensions.                         *)
parse_client_hello_body(h) ==
    CASE h.body # "whole" -> IF h.body = "no_extensions" THEN "no_sni" ELSE "malformed"
      [] OTHER -> sni_extension(h.exts)

try_parse_Header(h, n) ==
    CASE n < Header -> "incomplete"
      [] n >= Header /\ ~h.handshake -> "not_handshake"
      [] n >= Header /\ h.handshake /\ (h.len = 0 \/ h.len > MaxRecord) -> "malformed"
      [] OTHER -> IF n < h.len THEN "incomplete" ELSE IF n < Header + h.len THEN "malformed" ELSE parse_client_hello_body(h)
try_parse(h, n) ==
    CASE n < Header -> "incomplete"
      [] n >= Header /\ ~h.handshake -> "not_handshake"
      [] n >= Header /\ h.handshake /\ (h.len = 0 \/ h.len > MaxRecord) -> "malformed"
      [] OTHER -> IF n < Header + h.len THEN "incomplete" ELSE parse_client_hello_body(h)

(* peek_client_hello: parse what there is, give up at the cap or at the    *)
(* end of the stream, else read on.  A read may bring any number of bytes. *)
Give(v) == verdict' = v /\ UNCHANGED have
peek(eof) ==
    /\ verdict = "reading" /\ UNCHANGED hello
    /\ \/ try_parse(hello, have) # "incomplete" /\ Give(try_parse(hello, have))
       \/ try_parse(hello, have) = "incomplete" /\ have >= MaxHello /\ Give("too_large")
       \/ /\ try_parse(hello, have) = "incomplete" /\ have < MaxHello
          /\ \/ eof /\ Give("eof")
             \/ \E n \in 1..Chunk : have' = have + n /\ UNCHANGED verdict

SniInit == hello \in Hellos /\ have = 0 /\ verdict = "reading"
SniNext == \E eof \in BOOLEAN : peek(eof)
SniSpec == SniInit /\ [][SniNext]_sniVars

-----------------------------------------------------------------------------
(* What the whole hello says, read at once.                                *)
Whole(h) == try_parse(h, Header + h.len)

(* How the bytes are cut into reads does not change the answer: it is the  *)
(* whole hello's, unless the stream ended first, or the hello is longer    *)
(* than the cap (the last Header bytes of the lengths a record may have).  *)
CutsDoNotMatter ==
    verdict \notin {"reading", "eof"} =>
        \/ verdict = Whole(hello)
        \/ verdict = "too_large" /\ Header + hello.len > MaxHello

(* A name comes from the first server_name extension and its first host    *)
(* name, and everything the parser walked past before it was well formed.  *)
NameIsFirst ==
    \A e \in DOMAIN hello.exts :
        (/\ verdict \notin {"reading", "eof", "too_large", "not_handshake", "malformed", "no_sni"}
         /\ hello.exts[e].sni /\ \A d \in 1..(e - 1) : ~hello.exts[d].sni) =>
            /\ \A d \in 1..e : hello.exts[d].whole
            /\ \E i \in DOMAIN hello.exts[e].names :
                 /\ hello.exts[e].names[i].host /\ hello.exts[e].names[i].name = verdict
                 /\ \A j \in 1..(i - 1) : ~hello.exts[e].names[j].host /\ hello.exts[e].names[j].whole

(* Only the holder of a key passes the handshake, by a fresh nonce, and    *)
(* silent peers do not fill the table (auth.rs).                           *)
BoxesAuthentic == AuthTypeOK /\ AuthSound /\ NoncesBounded

(* A live box keeps its name, and a public connection reaches a box that   *)
(* registered the name it asked for, with its bytes in order from the      *)
(* first (tunnel.rs, ingress.rs).                                          *)
RoutingSafe == ReachTypeOK /\ LiveKeepsName /\ RoutedToOwner /\ StreamFaithful

(* The name found in a hello is its first host name, however the hello was *)
(* cut into reads (sni.rs).                                                *)
HelloRead == CutsDoNotMatter /\ NameIsFirst

(* The name of a box that is gone becomes free, and no client waits for a  *)
(* tunnel that is gone (TunnelGuard, the driver).                          *)
AdapterMovesOn == NameFreed /\ NobodyWaits
=============================================================================
