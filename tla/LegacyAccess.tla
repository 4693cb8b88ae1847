---------------------------- MODULE LegacyAccess ----------------------------
(***************************************************************************)
(* The TLS surfaces of the gateway that serve one client per thread: IMAP, *)
(* POP3 and SMTP submission (imap_access.rs, pop3_access.rs,               *)
(* smtp_submission.rs over legacy_net.rs) and the admin HTTPS server       *)
(* (admin.rs).  Each accept loop takes a slot of its ConnLimiter and       *)
(* spawns a detached handler.  A handler reads lines through a buffer,     *)
(* feeds them to a protocol session, writes the reply, and upgrades the    *)
(* stream in place when STARTTLS is accepted.                              *)
(*                                                                         *)
(* The client is arbitrary: it sends plaintext lines, a TLS hello or lines *)
(* under TLS, in any order and without waiting.  The protocol session      *)
(* (crate kotva_mail) is external: it is modelled by what the drivers rely *)
(* on, that it authenticates only when it believes the transport is TLS,   *)
(* takes mail only from an authenticated client, and believes in TLS from  *)
(* the moment it accepts STARTTLS.                                         *)
(***************************************************************************)
EXTENDS Naturals, Sequences, FiniteSets

CONSTANTS Conns,       \* the connections, each used once
          Clients,     \* ways the clients may behave: for each connection the
                       \* surfaces it dials, how far ahead it sends, and its
                       \* script: the items each thing it sends is taken from
          Implicit,    \* the surfaces that speak TLS from the first byte
          MaxConns,    \* the limit of each ConnLimiter
          Native, Foreign    \* recipients in a native domain and elsewhere

Surfaces == {"imap", "pop3", "smtp", "admin"}
Rcpts == Native \cup Foreign

(* What a client sends: the layer it travels on, and what the line says.   *)
Item == [layer : {"plain", "tls"}, verb : {"hello", "STARTTLS", "AUTH", "MAIL", "DATA", ".", "QUIT"},
         rcpts : SUBSET Rcpts]

ASSUME AccessAssumption ==
    /\ MaxConns \in [Surfaces -> Nat \ {0}]
    /\ "admin" \in Implicit /\ Implicit \subseteq Surfaces
    /\ Native \cap Foreign = {} /\ IsFiniteSet(Conns)
    /\ Clients \subseteq [Conns -> [surfaces : SUBSET Surfaces, ahead : Nat, script : Seq(SUBSET Item)]]

VARIABLES client,    \* how each client behaves, with the rest of its script
          conn,      \* the handler of each connection
          wire,      \* what the client sent that nobody has read
          active,    \* ConnLimiter::active of each surface
          spool_seq, \* SpoolSink::seq
          spool,     \* the files of the spool directory, by name
          handed,    \* what the sink was given, and what became of it
          acked,     \* the messages a client was told 250 for
          exited

accVars == <<client, conn, wire, active, spool_seq, spool, handed, acked, exited>>

(* The session's own state: what it believes of the transport, whether the *)
(* client is authenticated (and the layer its credentials came over), the  *)
(* envelope and whether it is inside DATA.                                 *)
NewSession(s) == [tls |-> s \in Implicit, user |-> "none", rcpts |-> {}, data |-> FALSE]

Idle == [surface |-> "none", stage |-> "none", transport |-> "plain", secured |-> FALSE,
         buf |-> <<>>, sess |-> NewSession("none"), upgrade |-> FALSE, quit |-> FALSE,
         ok |-> FALSE, todo |-> {}, env |-> {}, msg |-> 0, n |-> 0]

AccInit == /\ client \in Clients
           /\ conn = [c \in Conns |-> Idle]
           /\ wire = [c \in Conns |-> <<>>]
           /\ active = [s \in Surfaces |-> 0]
           /\ spool_seq = 0 /\ spool = <<>> /\ handed = {} /\ acked = {}
           /\ exited = FALSE

Closed == [Idle EXCEPT !.stage = "closed"]

Live(c) == conn[c].stage \notin {"none", "closed"}
Msgs == ({h.msg : h \in handed} \cup {conn[c].msg : c \in Conns}) \ {0}

-----------------------------------------------------------------------------
(* The client: any item it has left, as far ahead as it likes to pipeline. *)
Send(c) ==
    /\ ~exited /\ Live(c)
    /\ Len(wire[c]) + Len(conn[c].buf) < client[c].ahead
    /\ client[c].script # <<>>
    /\ \E i \in Head(client[c].script) : wire' = [wire EXCEPT ![c] = Append(@, i)]
    /\ client' = [client EXCEPT ![c].script = Tail(@)]
    /\ UNCHANGED <<conn, active, spool_seq, spool, handed, acked, exited>>

-----------------------------------------------------------------------------
(* serve_until: over the limit the socket is dropped; otherwise a handler  *)
(* starts, holding a guard.  On a blocking-mode error the guard goes too.  *)
try_acquire(s) == active[s] < MaxConns[s]

Opened(s) == [Idle EXCEPT !.surface = s, !.sess = NewSession(s),
                          !.stage = IF s \in Implicit THEN "handshake" ELSE "read",
                          !.upgrade = s \in Implicit]

accept(c, s) ==
    /\ ~exited /\ conn[c].stage = "none" /\ s \in client[c].surfaces
    /\ \/ /\ try_acquire(s)
          /\ conn' = [conn EXCEPT ![c] = Opened(s)]
          /\ active' = [active EXCEPT ![s] = @ + 1]
       \/ /\ conn' = [conn EXCEPT ![c] = Closed]
          /\ UNCHANGED active
    /\ UNCHANGED <<client, wire, spool_seq, spool, handed, acked, exited>>

imap_serve_until(c) == accept(c, "imap")
pop3_serve_until(c) == accept(c, "pop3")
submission_serve_until(c) == accept(c, "smtp")
admin_serve_until(c) == accept(c, "admin")

(* A handler returns, with or without an error: its guard is dropped.      *)
Return(c) == /\ conn' = [conn EXCEPT ![c] = Closed]
             /\ active' = [active EXCEPT ![conn[c].surface] = @ - 1]
             /\ wire' = [wire EXCEPT ![c] = <<>>]
             /\ UNCHANGED <<client, spool_seq, spool, handed, acked, exited>>

Become(c, r) == conn' = [conn EXCEPT ![c] = r]

(* The handshake, at the start or in place of a plaintext stream: the next *)
(* bytes on the socket must be a client hello.  Anything else is an error. *)
handshake(c) ==
    /\ ~exited /\ conn[c].stage = "handshake" /\ wire[c] # <<>>
    /\ \/ /\ Head(wire[c]).verb = "hello"
          /\ Become(c, [conn[c] EXCEPT !.stage = "read", !.transport = "tls",
                                       !.secured = TRUE, !.upgrade = FALSE])
          /\ wire' = [wire EXCEPT ![c] = Tail(@)]
          /\ UNCHANGED <<client, active, spool_seq, spool, handed, acked, exited>>
       \/ Return(c)

(* The buffered reader takes what is there, in one or several lines.  A    *)
(* record that is not TLS breaks a TLS stream.                             *)
Readable(c, k) ==
    conn[c].transport = "tls" => \A i \in 1..k : wire[c][i].layer = "tls"

fill_buf(c) ==
    /\ ~exited /\ conn[c].stage = "read" /\ conn[c].buf = <<>> /\ wire[c] # <<>>
    /\ \/ \E k \in 1..Len(wire[c]) :
            /\ Readable(c, k)
            /\ Become(c, [conn[c] EXCEPT !.buf = SubSeq(wire[c], 1, k)])
            /\ wire' = [wire EXCEPT ![c] = SubSeq(@, k + 1, Len(@))]
            /\ UNCHANGED <<client, active, spool_seq, spool, handed, acked, exited>>
       \/ ~Readable(c, 1) /\ Return(c)

(* End of file, a read error, or the read timeout of a silent client.      *)
read_ends_NoTimeout(c) ==
    /\ ~exited /\ conn[c].stage = "read"
    /\ conn[c].buf = <<>> /\ wire[c] = <<>>
    /\ Return(c)
read_ends(c) ==
    /\ ~exited /\ conn[c].stage \in {"read", "handshake"}
    /\ conn[c].buf = <<>> /\ wire[c] = <<>>
    /\ Return(c)

(* The external session: what it answers to a line, and its next state.    *)
Session(p, s, l) ==
    CASE s.data -> [ok |-> l.verb = ".", s |-> [s EXCEPT !.data = l.verb # "."]]
      [] l.verb = "STARTTLS" /\ ~s.data ->
           [ok |-> ~s.tls, s |-> IF s.tls THEN s ELSE [NewSession("none") EXCEPT !.tls = TRUE]]
      [] l.verb = "AUTH" /\ ~s.data ->
           [ok |-> s.tls, s |-> IF s.tls THEN [s EXCEPT !.user = l.layer] ELSE s]
      [] l.verb = "MAIL" /\ ~s.data /\ p = "smtp" ->
           [ok |-> s.user # "none",
            s |-> IF s.user # "none" THEN [s EXCEPT !.rcpts = l.rcpts] ELSE s]
      [] l.verb = "DATA" /\ ~s.data ->
           [ok |-> s.rcpts # {}, s |-> [s EXCEPT !.data = s.rcpts # {}]]
      [] OTHER -> [ok |-> FALSE, s |-> s]

(* One line is fed.  Whether it asks for TLS is read off its text first.   *)
(* The line that ends a message hands it to the sink, one recipient at a   *)
(* time, before the reply is written.                                      *)
Completes(c, l) == conn[c].sess.data /\ l.verb = "."
Feed(c, l, quit) ==
    LET r == Session(conn[c].surface, conn[c].sess, l)
        rcpts == IF Completes(c, l) THEN conn[c].sess.rcpts ELSE {}
    IN  /\ Become(c, [conn[c] EXCEPT
             !.buf = Tail(@), !.ok = r.ok, !.quit = quit,
             !.sess = IF Completes(c, l) THEN [r.s EXCEPT !.rcpts = {}] ELSE r.s,
             !.upgrade = ~conn[c].secured /\ l.verb = "STARTTLS",
             !.todo = rcpts, !.env = rcpts,
             !.msg = IF Completes(c, l) THEN Cardinality(Msgs) + 1 ELSE 0,
             !.stage = IF Completes(c, l) THEN "route" ELSE "reply"])
        /\ UNCHANGED <<client, wire, active, spool_seq, spool, handed, acked, exited>>

Reading(c, S) == ~exited /\ conn[c].stage = "read" /\ conn[c].buf # <<>> /\ conn[c].surface \in S

(* serve_line_session: a line whose text is QUIT ends the session, inside  *)
(* DATA too.  IMAP ends when the session has logged out.                   *)
serve_line_session(c) == /\ Reading(c, {"pop3", "smtp"})
                         /\ Feed(c, Head(conn[c].buf), Head(conn[c].buf).verb = "QUIT")

imap_command(c) == /\ Reading(c, {"imap"})
                   /\ Feed(c, Head(conn[c].buf), Head(conn[c].buf).verb = "QUIT")

-----------------------------------------------------------------------------
(* SpoolSink::deliver: the name of the file takes the next value of seq.   *)
fetch_add_Racy == [n |-> spool_seq, seq |-> IF \E d \in Conns : conn[d].stage = "write" THEN spool_seq ELSE spool_seq + 1]
fetch_add == [n |-> spool_seq, seq |-> spool_seq + 1]

route_one(c) ==
    /\ ~exited /\ conn[c].stage = "route" /\ conn[c].todo # {}
    /\ Become(c, [conn[c] EXCEPT !.stage = "write", !.n = fetch_add.n])
    /\ spool_seq' = fetch_add.seq
    /\ UNCHANGED <<client, wire, active, spool, handed, acked, exited>>

is_native(r) == r \in Native
Destination(r) == IF is_native(r) THEN "native" ELSE "legacy"

deliver(c) ==
    /\ ~exited /\ conn[c].stage = "write"
    /\ \E r \in conn[c].todo, ok \in BOOLEAN :
         LET name == <<conn[c].n, Destination(r)>>
             file == [msg |-> conn[c].msg, rcpt |-> r, destination |-> Destination(r)]
         IN  /\ spool' = IF ok THEN [x \in DOMAIN spool \cup {name} |->
                                       IF x = name THEN file ELSE spool[x]]
                         ELSE spool
             /\ handed' = handed \cup {[msg |-> conn[c].msg, rcpt |-> r,
                                        destination |-> Destination(r), ok |-> ok]}
             /\ Become(c, [conn[c] EXCEPT !.stage = "route", !.todo = @ \ {r}])
    /\ UNCHANGED <<client, wire, active, spool_seq, acked, exited>>

route_pending(c) == conn[c].todo = {}

(* The reply is written, and a failed write ends the handler.  Then the    *)
(* upgrade: with anything left in the buffer the connection is dropped,    *)
(* otherwise the stream is taken and the handshake begins.  Then QUIT.     *)
Pipelined_Ignored(c) == FALSE
Pipelined(c) == conn[c].buf # <<>>

reply(c) ==
    /\ ~exited
    /\ conn[c].stage = "reply" \/ (conn[c].stage = "route" /\ route_pending(c))
    /\ \/ /\ acked' = acked \cup {m \in {[msg |-> conn[c].msg, rcpts |-> conn[c].env]} : m.msg # 0}
          /\ ~conn[c].quit
          /\ Become(c, [conn[c] EXCEPT !.msg = 0, !.env = {}, !.n = 0, !.ok = FALSE,
                         !.stage = IF conn[c].upgrade /\ conn[c].ok THEN "upgrade" ELSE "read",
                         !.upgrade = @ /\ conn[c].ok])
          /\ UNCHANGED <<client, wire, active, spool_seq, spool, handed, exited>>
       \/ Return(c)

Upgrade(c, S) ==
    /\ ~exited /\ conn[c].stage = "upgrade" /\ conn[c].surface \in S
    /\ \/ Pipelined(c) /\ Return(c)
       \/ /\ ~Pipelined(c)
          /\ Become(c, [conn[c] EXCEPT !.stage = "handshake", !.transport = "taken"])
          /\ UNCHANGED <<client, wire, active, spool_seq, spool, handed, acked, exited>>

upgrade(c) == Upgrade(c, {"pop3", "smtp"})
imap_upgrade(c) == Upgrade(c, {"imap"})

(* admin.rs handle_connection: one request and its answer, then the end.   *)
handle_request(c) ==
    /\ Reading(c, {"admin"})
    /\ Return(c)

-----------------------------------------------------------------------------
(* A signal: the accept loops return, serve joins them and the process     *)
(* ends; handlers are detached threads and die where they are.             *)
exit == /\ ~exited /\ exited' = TRUE
        /\ conn' = [c \in Conns |-> Closed]
        /\ wire' = [c \in Conns |-> <<>>]
        /\ active' = [s \in Surfaces |-> 0]
        /\ UNCHANGED <<client, spool_seq, spool, handed, acked>>

Accept(c) == \/ imap_serve_until(c) \/ pop3_serve_until(c)
             \/ submission_serve_until(c) \/ admin_serve_until(c)
Handler(c) == \/ handshake(c) \/ fill_buf(c) \/ read_ends(c)
              \/ serve_line_session(c) \/ imap_command(c) \/ handle_request(c)
              \/ route_one(c) \/ deliver(c) \/ reply(c) \/ upgrade(c) \/ imap_upgrade(c)

AccNext == \/ \E c \in Conns : Send(c) \/ Accept(c) \/ Handler(c)
           \/ exit

AccSpec == AccInit /\ [][AccNext]_accVars

(* A handler is never stuck: its reads time out and its writes return.     *)
AccFairness == \A c \in Conns : WF_accVars(Handler(c))

-----------------------------------------------------------------------------
(* Type correctness of the handlers and the spool.                         *)
AccTypeOK ==
    /\ \A c \in Conns :
         /\ conn[c].stage \in {"none", "handshake", "read", "reply", "route", "write",
                               "upgrade", "closed"}
         /\ conn[c].transport \in {"plain", "tls", "taken"}
         /\ conn[c].buf \in Seq(Item) /\ wire[c] \in Seq(Item)
         /\ conn[c].todo \subseteq Rcpts /\ conn[c].env \subseteq Rcpts
    /\ \A s \in Surfaces : active[s] \in 0..MaxConns[s]
    /\ spool_seq \in Nat /\ exited \in BOOLEAN

(* No app-password is taken from bytes that crossed the network in the     *)
(* clear: a session that believes in TLS is never fed a line that was sent *)
(* before the handshake, however the client pipelines around STARTTLS      *)
(* (legacy_net.rs, imap_access.rs).                                        *)
NothingFromTheClear ==
    \A c \in Conns :
        /\ conn[c].sess.user # "plain"
        /\ conn[c].stage = "read" /\ conn[c].sess.tls =>
             /\ conn[c].transport = "tls" /\ conn[c].secured
             /\ \A i \in DOMAIN conn[c].buf : conn[c].buf[i].layer = "tls"

(* A client that was told 250 sent a message the sink was given for every  *)
(* one of its recipients, whatever other sessions did meanwhile and        *)
(* wherever a shutdown cut a handler short (SmtpLine::route_pending).      *)
AckedWasHanded ==
    \A m \in acked : {h.rcpt : h \in {g \in handed : g.msg = m.msg}} = m.rcpts

(* No file of the spool is written over another one: every copy that was   *)
(* written is still there (SpoolSink::deliver, its shared counter).        *)
SpoolKeepsAll ==
    \A h \in handed : h.ok =>
        \E x \in DOMAIN spool : spool[x].msg = h.msg /\ spool[x].rcpt = h.rcpt

(* A surface's slots are those of its running handlers, whichever way they *)
(* end, and never more than the limit (ConnLimiter, ConnGuard).            *)
SlotsBalanced ==
    \A s \in Surfaces :
        /\ active[s] = Cardinality({c \in Conns : Live(c) /\ conn[c].surface = s})
        /\ active[s] <= MaxConns[s]

(* A client that falls silent, at any point of its session or in the       *)
(* middle of a handshake, is let go, so its slot comes back                *)
(* (LEGACY_IO_TIMEOUT, IMAP_IO_TIMEOUT, ADMIN_IO_TIMEOUT).                 *)
HandlersEnd == \A c \in Conns : Live(c) ~> ~Live(c)

(* Sessions of the TLS surfaces: nothing from the clear in an              *)
(* authenticated session, every acknowledged submission handed to the      *)
(* spool and kept there, slots accounted for (legacy_net.rs,               *)
(* smtp_submission.rs, net.rs).                                            *)
SessionsKept == /\ AccTypeOK /\ NothingFromTheClear /\ AckedWasHanded
                /\ SpoolKeepsAll /\ SlotsBalanced
=============================================================================
