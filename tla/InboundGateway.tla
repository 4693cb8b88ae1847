--------------------------- MODULE InboundGateway --------------------------
(***************************************************************************)
(* The inbound MX of pier-gateway: the listener and its connection slots   *)
(* (inbound_tcp.rs, net.rs), one SMTP session per connection, the          *)
(* ColdSenderGate they share, and the acceptance of a message: verdicts,   *)
(* wrapping and attestation, delivery into the mesh (inbound.rs, mesh.rs). *)
(*                                                                         *)
(* A reverse path is the text after MAIL FROM:, a pair <<form, sender>>    *)
(* whose form tells whether the address stands between angle brackets.  A  *)
(* line of a message is an opaque value that counts one towards the size   *)
(* cap.  A MOTE is named by the connection and the number of the message   *)
(* on it.                                                                  *)
(***************************************************************************)
EXTENDS Integers, Sequences, FiniteSets, InboundPolicy

CONSTANTS Conns, IPs, Peer,          \* the connections and where they are from
          Forms, Senders, Rcpts, Lines,
          BlockedIPs, BlockedSenders, KnownIPs, KnownSenders,
          Directory,                 \* the recipients with a key
          DomainOf, AttestKey,       \* a recipient's domain, a domain's key
          SpfResult(_, _),           \* the verdict on a peer and a sender
          DkimVerdict(_),            \* the verdict on a message
          DmarcVerdict(_, _, _),     \* the verdict on message, SPF and sender
          SpfEnforce, DkimEnforce, DmarcEnforce, TlsOffered,
          RateLimit, RateWindow, MinRetry, GreyTtl,
          MaxConns, MaxTransaction, MaxLines,
          MaxClock, MaxMsgs          \* bounds of the model

\* The verdicts of SPF.
SpfResults == {"Pass", "Fail", "SoftFail", "Neutral", "None", "TempError",
               "PermError"}

ASSUME InboundAssumption ==
    /\ IsFiniteSet(Conns)
    /\ Peer \in [Conns -> IPs]
    /\ \A ip \in IPs, x \in Senders : SpfResult(ip, x) \in SpfResults
    /\ {RateLimit, RateWindow, MinRetry, GreyTtl, MaxConns, MaxTransaction,
        MaxLines, MaxClock, MaxMsgs} \subseteq Nat

VARIABLES clock, grey, accepts, active, shutdown, conn, durable,
          tries, cold, acked

vars == <<clock, grey, accepts, active, shutdown, conn, durable, tries, cold,
          acked>>

Paths == Forms \X Senders
NoPath == <<"", "">>
NoRcpt == "norcpt"
Unseen == -1

\* MxSession::new: the fields of a session, then those of its connection.
\* sent is a history, the lines of this DATA; plain tells that a part of the
\* envelope was given before STARTTLS.
NewSession == [phase |-> "Command", from |-> NoPath, rcpt |-> NoRcpt,
               data |-> <<>>, over |-> FALSE, spf |-> "unset",
               sent |-> <<>>, plain |-> FALSE]
\* The transaction has no deadline.
NewConn_NoDeadline(deadline, secured, n) ==
    [st |-> "open", secured |-> secured, n |-> n, deadline |-> MaxClock + 1,
     s |-> NewSession]
NewConn(deadline, secured, n) == [st |-> "open", secured |-> secured, n |-> n,
                                  deadline |-> deadline, s |-> NewSession]
NoConn == [NewConn(0, FALSE, 0) EXCEPT !.st = "none"]

Init == /\ clock = 0
        /\ grey = [k \in IPs \X Paths |-> Unseen]
        /\ accepts = [i \in IPs |-> {}]
        /\ active = 0
        /\ shutdown = FALSE
        /\ conn = [c \in Conns |-> NoConn]
        /\ durable = {}
        /\ tries = {} /\ cold = <<>> /\ acked = {}

UnchangedGate == UNCHANGED <<grey, accepts, tries, cold>>
UnchangedStore == UNCHANGED <<durable, acked>>

-----------------------------------------------------------------------------
(* ColdSenderGate::check, run under the lock of the shared state.          *)

is_known(ip, path) == ip \in KnownIPs \/ path \in {"bare"} \X KnownSenders
is_blocked(ip, path) == ip \in BlockedIPs \/ path \in {"bare"} \X BlockedSenders

\* The sender's first try is remembered for GreyTtl and must age MinRetry.
Since(ip, path) == clock - grey[<<ip, path>>]
IsCold(ip, path) == grey[<<ip, path>>] = Unseen \/ Since(ip, path) > GreyTtl

\* The accepts of a peer that are still inside the rate window: the times of a
\* list that nobody reads in order, numbered so that equal times count apart.
Hits(ip) == {a \in accepts[ip] : a.t >= clock - RateWindow}

\* The window is emptied on every check.
check_Forgetful(ip, path) ==
    IF is_blocked(ip, path) THEN [code |-> 554, why |-> "blocked"]
    ELSE IF is_known(ip, path) THEN [code |-> 0, why |-> "known"]
    ELSE IF IsCold(ip, path) THEN [code |-> 451, why |-> "greylisted"]
    ELSE IF Since(ip, path) < MinRetry THEN [code |-> 451, why |-> "early"]
    ELSE [code |-> 0, why |-> "cold"]

\* A sender seen before is not asked to wait.
check_Eager(ip, path) ==
    IF is_blocked(ip, path) THEN [code |-> 554, why |-> "blocked"]
    ELSE IF is_known(ip, path) THEN [code |-> 0, why |-> "known"]
    ELSE IF Cardinality(Hits(ip)) >= RateLimit
    THEN [code |-> 451, why |-> "rate"]
    ELSE IF grey[<<ip, path>>] = Unseen
    THEN [code |-> 451, why |-> "greylisted"]
    ELSE [code |-> 0, why |-> "cold"]

check(ip, path) ==
    IF is_blocked(ip, path) THEN [code |-> 554, why |-> "blocked"]
    ELSE IF is_known(ip, path) THEN [code |-> 0, why |-> "known"]
    ELSE IF Cardinality(Hits(ip)) >= RateLimit
    THEN [code |-> 451, why |-> "rate"]
    ELSE IF IsCold(ip, path) THEN [code |-> 451, why |-> "greylisted"]
    ELSE IF Since(ip, path) < MinRetry THEN [code |-> 451, why |-> "early"]
    ELSE [code |-> 0, why |-> "cold"]

\* What check leaves in the shared state, and the histories of what it said.
GateEffect(ip, path, why) ==
    /\ accepts' = CASE why \in {"blocked", "known"} -> accepts
                    [] why = "cold" ->
                         [accepts EXCEPT ![ip] =
                             Hits(ip) \cup {[n |-> Len(cold) + 1, t |-> clock]}]
                    [] OTHER -> [accepts EXCEPT ![ip] = Hits(ip)]
    /\ grey' = IF why = "greylisted" THEN [grey EXCEPT ![<<ip, path>>] = clock]
               ELSE grey
    /\ tries' = IF why = "greylisted" THEN tries \cup {<<ip, path, clock>>}
                ELSE tries
    /\ cold' = IF why = "cold"
               THEN Append(cold, [ip |-> ip, path |-> path, t |-> clock])
               ELSE cold

-----------------------------------------------------------------------------
(* The listener.                                                           *)

Busy(c) == conn[c].st \in {"open", "delivering"}
\* The handler of c runs and the next line arrives in time.
Reads(c, phase) == /\ conn[c].st = "open"
                   /\ conn[c].s.phase = phase
                   /\ clock < conn[c].deadline
SetSession(c, s) == conn' = [conn EXCEPT ![c].s = s]

\* ConnLimiter::try_acquire: a slot is free.
try_acquire == active < MaxConns

\* MxListener::serve_until: take the connection if a slot is free, drop it
\* otherwise.  (The clock's bound leaves room for its deadline.)
Connect(c) ==
    /\ conn[c].st = "none"
    /\ ~shutdown
    /\ clock + MaxTransaction <= MaxClock
    /\ IF try_acquire
       THEN /\ active' = active + 1
            /\ conn' = [conn EXCEPT ![c] =
                           NewConn(clock + MaxTransaction, FALSE, 0)]
       ELSE /\ conn' = [conn EXCEPT ![c].st = "closed"]
            /\ UNCHANGED active
    /\ UnchangedGate /\ UnchangedStore /\ UNCHANGED <<clock, shutdown>>

\* handle_connection returns: the guard of the slot is dropped.
Close(c) ==
    /\ conn' = [conn EXCEPT ![c] = [NoConn EXCEPT !.st = "closed"]]
    /\ active' = active - 1
    /\ UnchangedGate /\ UnchangedStore /\ UNCHANGED <<clock, shutdown>>

\* QUIT, the peer closing (between lines or inside one), an overlong line, a
\* failed write or a read that times out.
Quit(c) == conn[c].st = "open" /\ Close(c)

\* The deadline of the transaction has passed: a line that arrives is answered
\* 421, and if none does the read times out.
Late(c) == conn[c].st = "open" /\ clock >= conn[c].deadline /\ Close(c)

Stop == /\ ~shutdown
        /\ shutdown' = TRUE
        /\ UnchangedGate /\ UnchangedStore /\ UNCHANGED <<clock, active, conn>>

Tick == /\ clock < MaxClock
        /\ clock' = clock + 1
        /\ UnchangedGate /\ UnchangedStore
        /\ UNCHANGED <<active, shutdown, conn>>

-----------------------------------------------------------------------------
(* The session.                                                            *)

\* The session survives the TLS handshake.
AfterTls_Keep(s) == s
AfterTls(s) == NewSession

\* STARTTLS: the connection is upgraded and the session starts over.
StartTls(c) ==
    /\ Reads(c, "Command")
    /\ TlsOffered /\ ~conn[c].secured
    /\ conn' = [conn EXCEPT ![c].secured = TRUE, ![c].s = AfterTls(@)]
    /\ UnchangedGate /\ UnchangedStore /\ UNCHANGED <<clock, active, shutdown>>

reset_transaction(s) == NewSession

\* RSET.
Rset(c) ==
    /\ Reads(c, "Command")
    /\ SetSession(c, reset_transaction(conn[c].s))
    /\ UnchangedGate /\ UnchangedStore /\ UNCHANGED <<clock, active, shutdown>>

\* MAIL: the gate, then SPF; a refusal leaves the session as it was.
cmd_mail(c, path) ==
    LET ip == Peer[c]
        g == check(ip, path)
        spf == SpfResult(ip, path[2])
        s == conn[c].s
    IN  /\ Reads(c, "Command")
        /\ GateEffect(ip, path, g.why)
        /\ SetSession(c, IF g.code # 0 \/ spf_gate(SpfEnforce, spf) # 0 THEN s
                         ELSE [s EXCEPT !.from = path, !.spf = spf,
                                        !.plain = @ \/ ~conn[c].secured])
        /\ UnchangedStore /\ UNCHANGED <<clock, active, shutdown>>

\* rcpt_acceptable: 0 or the refusal.
rcpt_acceptable(r) ==
    IF r \notin Directory THEN 550
    ELSE IF AttestKey[DomainOf[r]] = "nokey" THEN 451 ELSE 0

\* RCPT: the session keeps one recipient, the last one accepted.
cmd_rcpt(c, r) ==
    LET s == conn[c].s
    IN  /\ Reads(c, "Command")
        /\ SetSession(c, IF s.from = NoPath \/ rcpt_acceptable(r) # 0 THEN s
                         ELSE [s EXCEPT !.rcpt = r,
                                        !.plain = @ \/ ~conn[c].secured])
        /\ UnchangedGate /\ UnchangedStore
        /\ UNCHANGED <<clock, active, shutdown>>

\* DATA, once there is an envelope.
cmd_data(c) ==
    /\ Reads(c, "Command")
    /\ conn[c].s.from # NoPath /\ conn[c].s.rcpt # NoRcpt
    /\ conn[c].n < MaxMsgs
    /\ SetSession(c, [conn[c].s EXCEPT !.phase = "Data"])
    /\ UnchangedGate /\ UnchangedStore /\ UNCHANGED <<clock, active, shutdown>>

\* A line of the message: past the cap everything is dropped, and stays so.
store_line(s, l) ==
    IF s.over THEN s
    ELSE IF Len(s.data) + 1 > MaxLines
    THEN [s EXCEPT !.over = TRUE, !.data = <<>>]
    ELSE [s EXCEPT !.data = Append(@, l)]

feed_data(c, l) ==
    /\ Reads(c, "Data")
    /\ Len(conn[c].s.sent) <= MaxLines + 1
    /\ SetSession(c, [store_line(conn[c].s, l) EXCEPT !.sent = Append(@, l)])
    /\ UnchangedGate /\ UnchangedStore /\ UNCHANGED <<clock, active, shutdown>>

-----------------------------------------------------------------------------
(* The end of DATA: accept_message_with_spf.                               *)

\* The gates, then wrap_and_attest; 0 means that there is a MOTE to deliver.
Refusal(s) ==
    LET dkim == DkimVerdict(s.data)
        dmarc == DmarcVerdict(s.data, s.spf, s.from[2])
    IN  IF s.over THEN 552
        ELSE IF dkim_gate(DkimEnforce, dkim) # 0 THEN 550
        ELSE IF dmarc_gate(DmarcEnforce, dmarc) # 0 THEN 550
        ELSE rcpt_acceptable(s.rcpt)

\* wrap_and_attest: the sealed MOTE and its attestation, dated when the
\* connection was accepted.
wrap_and_attest(c, s) ==
    LET id == <<c, conn[c].n + 1>>
        domain == DomainOf[s.rcpt]
        now == conn[c].deadline - MaxTransaction
    IN  [id |-> id, rcpt |-> s.rcpt, data |-> s.data,
         att |-> attest(AttestKey[domain], domain, id, s.from, s.rcpt, now)]

\* The dot: refused, or handed to the mesh while the handler waits.
EndOfData(c) ==
    LET s == conn[c].s
    IN  /\ Reads(c, "Data")
        /\ conn' = IF Refusal(s) # 0
                   THEN [conn EXCEPT ![c].s = reset_transaction(@)]
                   ELSE [conn EXCEPT ![c].st = "delivering",
                                     ![c].s.phase = "Command"]
        /\ UnchangedGate /\ UnchangedStore
        /\ UNCHANGED <<clock, active, shutdown>>

\* HttpMeshDelivery::deliver: a 2xx answer of the ingest is a durable ack;
\* any other answer, or none, is not one, though the MOTE may be stored.
DeliveryOutcomes == {"acked", "stored_no_answer", "not_stored"}

\* Handing the MOTE over counts as an acknowledgement.
Ok250_HandOff(outcome) == TRUE
Ok250(outcome) == outcome = "acked"

Deliver(c, outcome) ==
    LET s == conn[c].s
        mote == wrap_and_attest(c, s)
    IN  /\ conn[c].st = "delivering"
        /\ durable' = IF outcome = "not_stored" THEN durable
                      ELSE durable \cup {mote}
        /\ acked' = IF Ok250(outcome)
                    THEN acked \cup {[id |-> mote.id, from |-> s.from,
                                      rcpt |-> s.rcpt, sent |-> s.sent]}
                    ELSE acked
        /\ conn' = [conn EXCEPT ![c].st = "open", ![c].n = @ + 1,
                                ![c].s = reset_transaction(@)]
        /\ UnchangedGate /\ UNCHANGED <<clock, active, shutdown>>

Next == \/ Tick \/ Stop
        \/ \E c \in Conns :
             \/ Connect(c) \/ Quit(c) \/ Late(c)
             \/ StartTls(c) \/ Rset(c) \/ cmd_data(c) \/ EndOfData(c)
             \/ \E p \in Paths : cmd_mail(c, p)
             \/ \E r \in Rcpts : cmd_rcpt(c, r)
             \/ \E l \in Lines : feed_data(c, l)
             \/ \E o \in DeliveryOutcomes : Deliver(c, o)

Spec == Init /\ [][Next]_vars

\* The clock advances, a connection past its deadline ends with its next line
\* or its read timeout, and the post to the mesh has timeouts of its own.
Fairness == /\ WF_vars(Tick)
            /\ \A c \in Conns : /\ WF_vars(Late(c))
                                /\ WF_vars(\E o \in DeliveryOutcomes :
                                              Deliver(c, o))

FairSpec == Spec /\ Fairness

-----------------------------------------------------------------------------
(* Properties.                                                             *)

Sessions == [phase : {"Command", "Data"}, from : Paths \cup {NoPath},
             rcpt : Rcpts \cup {NoRcpt}, data : Seq(Lines), over : BOOLEAN,
             spf : SpfResults \cup {"unset"},
             sent : Seq(Lines), plain : BOOLEAN]

TypeOK == /\ clock \in 0..MaxClock
          /\ grey \in [IPs \X Paths -> Int]
          /\ accepts \in [IPs -> SUBSET [n : Nat, t : Nat]]
          /\ active \in Nat
          /\ shutdown \in BOOLEAN
          /\ conn \in [Conns -> [st : {"none", "open", "delivering", "closed"},
                                 secured : BOOLEAN, n : Nat, deadline : Nat,
                                 s : Sessions]]

\* inbound.rs, the silent-loss rule: a message answered 250 is stored by the
\* recipient the session kept, whole, under an attestation of the recipient's
\* domain that binds this MOTE and this envelope.
AckedIsDurable ==
    \A a \in acked :
        \E m \in durable :
            /\ m.id = a.id /\ m.rcpt = a.rcpt /\ m.data = a.sent
            /\ m.att.body.from = a.from /\ m.att.body.rcpt = a.rcpt
            /\ attestation_verify(m.att, DomainOf[a.rcpt],
                                  AttestKey[DomainOf[a.rcpt]], m.id) = "Ok"

\* ColdSenderGate: over all connections of a peer, the cold senders let in
\* during any window number at most RateLimit.
RateHolds ==
    \A i \in DOMAIN cold :
        Cardinality({j \in 1..i : /\ cold[j].ip = cold[i].ip
                                  /\ cold[j].t >= cold[i].t - RateWindow})
            <= RateLimit

\* ColdSenderGate: a cold sender that gets in was turned away before, from the
\* same peer under the same path, at least MinRetry and at most GreyTtl ago.
GreylistHolds ==
    \A i \in DOMAIN cold :
        \E t \in 0..cold[i].t :
            /\ <<cold[i].ip, cold[i].path, t>> \in tries
            /\ cold[i].t - t \in MinRetry..GreyTtl

\* net.rs, ConnLimiter: the slots in use are those of the running handlers,
\* however they end, and never more than the limit.
SlotsBalanced == /\ active = Cardinality({c \in Conns : Busy(c)})
                 /\ active <= MaxConns

\* inbound_tcp.rs: nothing of the envelope that was given in plaintext is
\* used after STARTTLS.
TlsForgets == \A c \in Conns : conn[c].secured => ~conn[c].s.plain

\* inbound_tcp.rs, MX_MAX_TRANSACTION: every connection ends and gives its
\* slot back.
SlotReturns == \A c \in Conns : Busy(c) ~> conn[c].st = "closed"

(* A session is safe: 250 means a durable message, the one that was sent;  *)
(* what was said in plaintext is forgotten at STARTTLS; busy connections   *)
(* and slots agree (accept_message, the STARTTLS branch and ConnGuard).    *)
MailSafe == TypeOK /\ AckedIsDurable /\ TlsForgets /\ SlotsBalanced

(* ColdSenderGate over all connections: nobody exceeds the rate of a       *)
(* window, nobody gets past the greylist before its time.                  *)
ColdGateHolds == RateHolds /\ GreylistHolds
=============================================================================
