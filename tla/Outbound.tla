------------------------------ MODULE Outbound -----------------------------
(***************************************************************************)
(* The outbound leg of pier-gateway: OutboundGateway::send_authenticated   *)
(* (outbound.rs) with the OutboundSenderGuard its callers share            *)
(* (outbound_guard.rs), the destination's MTA-STS policy and MX hosts      *)
(* (mta_sts.rs, mx.rs) and the SMTP client session with one of them        *)
(* (outbound_tcp.rs).  Each request runs in a thread of its own; what the  *)
(* network answers is chosen at every step.                                *)
(***************************************************************************)
EXTENDS Integers, Sequences, FiniteSets

(***************************************************************************)
(* The destination of an outbound message: the MTA-STS policy (mta_sts.rs) *)
(* and the MX candidates (mx.rs).  A host name is its sequence of labels,  *)
(* a pattern such a sequence whose first label may be "*", a policy text   *)
(* the sequence of its key/value lines.                                    *)
(***************************************************************************)

NoPolicy == [mode |-> "none", mx |-> {}]

Values(lines, key) == SelectSeq(lines, LAMBDA l : l.k = key)
LastOf(lines, key) == LET vs == Values(lines, key)
                      IN  IF vs = <<>> THEN "missing" ELSE vs[Len(vs)].v

\* parse_policy: any fault makes the text unusable; the last of a repeated key
\* counts, and every mx line does.
parse_policy(lines) ==
    LET mode == LastOf(lines, "mode")
        mxs == Values(lines, "mx")
        mx == {mxs[i].v : i \in DOMAIN mxs}
        modes == {"enforce", "testing", "none"}
    IN  IF \/ \E i \in DOMAIN lines : \/ lines[i].k = "malformed"
                                      \/ /\ lines[i].k = "mode"
                                         /\ lines[i].v \notin modes
           \/ LastOf(lines, "version") # "STSv1"
           \/ mode = "missing"
           \/ mode # "none" /\ mx = {}
        THEN [ok |-> FALSE, policy |-> NoPolicy]
        ELSE [ok |-> TRUE, policy |-> [mode |-> mode, mx |-> mx]]

\* MtaStsTlsPolicy::resolve on what DNS and HTTPS answered: a policy that is
\* not signalled, not fetched or not parsed is no policy.
sts_resolve(answer) ==
    IF answer.signaled /\ answer.fetched
    THEN parse_policy(answer.text).policy ELSE NoPolicy

requirement_for(answer) == sts_resolve(answer).mode = "enforce"
allowed_mx_patterns(answer) ==
    LET p == sts_resolve(answer) IN IF p.mode = "enforce" THEN p.mx ELSE {}

\* The wildcard stands for any number of labels.
mx_pattern_matches_Deep(pattern, host) ==
    IF pattern[1] = "*"
    THEN /\ Len(host) >= Len(pattern)
         /\ SubSeq(host, Len(host) - Len(pattern) + 2, Len(host))
              = Tail(pattern)
    ELSE pattern = host

\* The wildcard stands for exactly one label.
mx_pattern_matches(pattern, host) ==
    IF pattern[1] = "*"
    THEN Len(host) = Len(pattern) /\ Tail(host) = Tail(pattern)
    ELSE pattern = host

any_pattern_matches(patterns, host) ==
    \E p \in patterns : mx_pattern_matches(p, host)

\* DnsMxResolver::resolve_mx: the domain itself when DNS fails or lists none.
resolve_mx(domain, answer) ==
    IF answer.ok /\ answer.hosts # <<>> THEN answer.hosts
    ELSE <<[pref |-> 0, host |-> domain]>>

Eligible(hosts, patterns) ==
    {i \in DOMAIN hosts : \/ patterns = {}
                          \/ any_pattern_matches(patterns, hosts[i].host)}

\* The first eligible host in the order of preference, the listed order
\* breaking ties.
dial_host(hosts, eligible) ==
    LET best == CHOOSE i \in eligible :
                   \A j \in eligible : \/ hosts[i].pref < hosts[j].pref
                                       \/ hosts[i].pref = hosts[j].pref /\ i <= j
    IN  hosts[best].host
-----------------------------------------------------------------------------
CONSTANTS Reqs,          \* the requests
          Request,       \* what each asks: account, ik, from, dest, flags
          Registered,    \* the accounts of the guard
          Owner,         \* the identity the directory lists for an address
          Delegated,     \* the addresses whose domain has a DKIM key
          StsAnswers, MxAnswers, CapSets,   \* what the network may answer
          DataReplies,   \* what a peer may answer to DATA
          ForbiddenHosts,\* hosts that resolve to private addresses only
          RateLimit, RateWindow, VolumeCap, VolumeWindow,
          BackoffBase, BackoffMaxShift,
          MaxClock       \* bound of the model

ASSUME OutboundAssumption ==
    /\ Request \in [Reqs -> [account : STRING, ik : STRING, from : STRING,
                             dest : Seq(STRING), renders : BOOLEAN,
                             utf8 : BOOLEAN, eightbit : BOOLEAN]]
    /\ {RateLimit, RateWindow, VolumeCap, VolumeWindow, BackoffBase,
        BackoffMaxShift, MaxClock} \subseteq Nat
    /\ BackoffBase > 0
    /\ \A k \in 0..BackoffMaxShift : 2^k \in Nat \ {0}
    /\ DataReplies \subseteq {"354", "2xx", "4xx", "5xx", "eof"}
    /\ \A a \in MxAnswers :
          a.hosts \in Seq([pref : Nat, host : Seq(STRING)])

Accounts == {Request[r].account : r \in Reqs}

\* sender is the guard's state; log, struck and wire are histories: the sends
\* the guard let through, the failures it was told of, and what each request
\* put on the network.
VARIABLES clock, sender, req, log, struck, wire

vars == <<clock, sender, req, log, struck, wire>>

NewReq == [pc |-> "new", required |-> FALSE, patterns |-> {}, host |-> <<>>,
           tls |-> FALSE, caps |-> {}, report |-> "none"]

Init == /\ clock = 0
        /\ sender = [a \in Accounts |-> [rate |-> {}, volume |-> {},
                                         strikes |-> 0, until |-> 0]]
        /\ req = [r \in Reqs |-> NewReq]
        /\ log = <<>>
        /\ struck = {}
        /\ wire = {}

-----------------------------------------------------------------------------
(* OutboundSenderGuard.                                                    *)

is_authenticated(account) == account # "" /\ account \in Registered

\* The hits a window still holds.  Hits are the times of a list whose order
\* only shows in the delay a throttled caller is told; they are numbered so
\* that equal times count apart.
Window(hits, width) == {h \in hits : h.t >= clock - width}
Hit == [n |-> Len(log) + 1, t |-> clock]

\* The burst limit is forgotten.
authorize_send_Burst(account) ==
    LET s == sender[account]
        volume == Window(s.volume, VolumeWindow)
    IN  IF ~is_authenticated(account) THEN [v |-> "Refuse", s |-> s]
        ELSE IF clock < s.until THEN [v |-> "Throttle", s |-> s]
        ELSE IF Cardinality(volume) >= VolumeCap
        THEN [v |-> "Refuse", s |-> [s EXCEPT !.volume = volume]]
        ELSE [v |-> "Allow", s |-> [s EXCEPT !.volume = volume \cup {Hit}]]

\* authorize_send: authentication, backoff, volume cap, rate limit.
authorize_send(account) ==
    LET s == sender[account]
        volume == Window(s.volume, VolumeWindow)
        rate == Window(s.rate, RateWindow)
    IN  IF ~is_authenticated(account) THEN [v |-> "Refuse", s |-> s]
        ELSE IF clock < s.until THEN [v |-> "Throttle", s |-> s]
        ELSE IF Cardinality(volume) >= VolumeCap
        THEN [v |-> "Refuse", s |-> [s EXCEPT !.volume = volume]]
        ELSE IF Cardinality(rate) >= RateLimit
        THEN [v |-> "Throttle",
              s |-> [s EXCEPT !.volume = volume, !.rate = rate]]
        ELSE [v |-> "Allow",
              s |-> [s EXCEPT !.volume = volume \cup {Hit},
                              !.rate = rate \cup {Hit}]]

\* report_outcome: a delivery takes a strike back, a failure adds one and arms
\* a backoff that doubles with the strikes.
report_outcome(s, delivered) ==
    LET shift == IF s.strikes > BackoffMaxShift THEN BackoffMaxShift
                 ELSE s.strikes
    IN  IF delivered THEN [s EXCEPT !.strikes = IF @ > 0 THEN @ - 1 ELSE 0]
        ELSE [s EXCEPT !.strikes = @ + 1,
                       !.until = clock + BackoffBase * 2^shift]

-----------------------------------------------------------------------------
(* OutboundGateway.                                                        *)

Step(r, pc, next) == req[r].pc = pc /\ req' = [req EXCEPT ![r] = next]
Go(r, pc) == [req[r] EXCEPT !.pc = pc]
\* The session is over and what it knew is dropped.
Report(r, what) == [NewReq EXCEPT !.pc = "report", !.report = what]

\* DirectoryClaimAuthz::may_claim.
may_claim(ik, from) == Owner[from] = ik

\* translate_and_sign: the From domain has a key, the fields render.
translate_and_sign(q) == q.from \in Delegated /\ q.renders

\* send_authenticated up to the first network step.
send_authenticated(r) ==
    LET q == Request[r]
        g == authorize_send(q.account)
    IN  /\ Step(r, "new",
                IF g.v # "Allow" \/ ~may_claim(q.ik, q.from)
                THEN [Go(r, "done") EXCEPT !.report = "Blocked"]
                ELSE IF ~translate_and_sign(q) \/ q.dest = <<>>
                THEN Report(r, "Failed")
                ELSE Go(r, "policy"))
        /\ sender' = [sender EXCEPT ![q.account] = g.s]
        /\ log' = IF g.v = "Allow"
                  THEN Append(log, [account |-> q.account, t |-> clock])
                  ELSE log
        /\ UNCHANGED <<clock, struck, wire>>

UnchangedAll == UNCHANGED <<clock, sender, log, struck, wire>>

\* send asks the policy twice, and each time it is fetched anew.
send_requirement(r, answer) ==
    /\ Step(r, "policy", [Go(r, "patterns") EXCEPT
                             !.required = requirement_for(answer)])
    /\ UnchangedAll

send_patterns(r, answer) ==
    /\ Step(r, "patterns", [Go(r, "mx") EXCEPT
                               !.patterns = allowed_mx_patterns(answer)])
    /\ UnchangedAll

send_mx(r, answer) ==
    LET hosts == resolve_mx(Request[r].dest, answer)
        eligible == Eligible(hosts, req[r].patterns)
    IN  /\ Step(r, "mx", IF eligible = {} THEN Report(r, "Failed")
                         ELSE [Go(r, "dial") EXCEPT
                                  !.host = dial_host(hosts, eligible)])
        /\ UnchangedAll

-----------------------------------------------------------------------------
(* SmtpTcpTransport::try_run.                                              *)

Replies == {"2xx", "4xx", "5xx", "eof"}

\* classify, and expect_2xx where the session goes on after a 2xx.
classify(code) == CASE code = "2xx" -> "Delivered"
                    [] code \in {"4xx", "eof"} -> "Deferred"
                    [] OTHER -> "Failed"
\* A transient reply starts the session over.
Expect2xx_Retry(r, code, next) ==
    CASE code = "2xx" -> next
      [] code = "4xx" -> Go(r, "dial")
      [] OTHER -> Report(r, classify(code))
Expect2xx(r, code, next) ==
    IF code = "2xx" THEN next ELSE Report(r, classify(code))

\* dial_addr refuses private addresses; then the connection and the greeting.
dial_addr(r, code) ==
    /\ Step(r, "dial", IF req[r].host \in ForbiddenHosts
                       THEN Report(r, "Deferred")
                       ELSE Expect2xx(r, code, Go(r, "ehlo")))
    /\ UnchangedAll

\* ehlo: any reply but a 2xx is permanent, a lost connection is not.
EhloFails(r, code) == Report(r, IF code = "eof" THEN "Deferred" ELSE "Failed")

\* The session goes on in the clear when TLS is not on offer.
AfterEhlo_Clear(r, caps) ==
    IF "STARTTLS" \in caps THEN [Go(r, "starttls") EXCEPT !.caps = caps]
    ELSE [Go(r, "envelope") EXCEPT !.caps = caps]

AfterEhlo(r, caps) ==
    IF "STARTTLS" \in caps THEN [Go(r, "starttls") EXCEPT !.caps = caps]
    ELSE IF req[r].required THEN Report(r, "Failed")
    ELSE [Go(r, "envelope") EXCEPT !.caps = caps]

ehlo(r, code, caps) ==
    /\ Step(r, "ehlo", IF code = "2xx" THEN AfterEhlo(r, caps)
                       ELSE EhloFails(r, code))
    /\ UnchangedAll

\* STARTTLS and the handshake, which checks the certificate of the host.
starttls(r, code, valid) ==
    /\ Step(r, "starttls",
            IF code = "eof" THEN Report(r, "Deferred")
            ELSE IF code # "2xx" \/ ~valid THEN Report(r, "Failed")
            ELSE [Go(r, "ehlo2") EXCEPT !.tls = TRUE])
    /\ UnchangedAll

\* EHLO again: its capabilities replace those read in the clear.
ehlo_again(r, code, caps) ==
    /\ Step(r, "ehlo2", IF code # "2xx" THEN EhloFails(r, code)
                        ELSE [Go(r, "envelope") EXCEPT !.caps = caps])
    /\ UnchangedAll

\* The message is sent as it is whatever the peer advertised.
CapsMissing(q, caps) == \/ q.utf8 /\ "SMTPUTF8" \notin caps
                        \/ q.eightbit /\ "8BITMIME" \notin caps

\* MAIL and RCPT; the worse of their replies decides.
envelope(r, code) ==
    /\ Step(r, "envelope",
            IF CapsMissing(Request[r], req[r].caps) THEN Report(r, "Failed")
            ELSE Expect2xx(r, code, Go(r, "data")))
    /\ UnchangedAll

\* DATA: anything but a 354 is the outcome of the send.
cmd_data(r, code) ==
    /\ Step(r, "data", IF code = "354" THEN Go(r, "body")
                       ELSE Report(r, classify(code)))
    /\ UnchangedAll

\* A message whose last reply is lost counts as failed.
FinalReport_Pessimist(code) == IF code = "eof" THEN "Failed" ELSE classify(code)
FinalReport(code) == classify(code)

\* The message and the dot.  The peer takes it, answers and is heard; or the
\* answer is lost after it took it.
send_body(r, code, took) ==
    /\ code = "2xx" => took
    /\ code \in {"4xx", "5xx"} => ~took
    /\ Step(r, "body", Report(r, FinalReport(code)))
    /\ wire' = wire \cup {[r |-> r, host |-> req[r].host, tls |-> req[r].tls,
                           caps |-> req[r].caps, took |-> took,
                           required |-> req[r].required,
                           patterns |-> req[r].patterns]}
    /\ UNCHANGED <<clock, sender, log, struck>>

\* The end of send_authenticated: a delivery or a failure is told to the
\* guard, a deferral is not.
report(r) ==
    LET a == Request[r].account
        what == req[r].report
    IN  /\ Step(r, "report", Go(r, "done"))
        /\ sender' = IF what = "Deferred" THEN sender
                     ELSE [sender EXCEPT
                              ![a] = report_outcome(@, what = "Delivered")]
        /\ struck' = IF what = "Failed"
                     THEN struck \cup {[account |-> a, t |-> clock,
                                        n |-> Len(log)]}
                     ELSE struck
        /\ UNCHANGED <<clock, log, wire>>

Tick == clock < MaxClock /\ clock' = clock + 1
        /\ UNCHANGED <<sender, req, log, struck, wire>>

\* What the thread of r does next.
Run(r) ==
    \/ send_authenticated(r)
    \/ \E a \in StsAnswers : send_requirement(r, a) \/ send_patterns(r, a)
    \/ \E a \in MxAnswers : send_mx(r, a)
    \/ \E code \in Replies :
         \/ dial_addr(r, code) \/ envelope(r, code)
         \/ \E caps \in CapSets : ehlo(r, code, caps) \/ ehlo_again(r, code, caps)
         \/ \E valid \in BOOLEAN : starttls(r, code, valid)
         \/ \E took \in BOOLEAN : send_body(r, code, took)
    \/ \E code \in DataReplies : cmd_data(r, code)
    \/ report(r)

Next == Tick \/ \E r \in Reqs : Run(r)

Spec == Init /\ [][Next]_vars

\* Every network step has a timeout.
FairSpec == Spec /\ \A r \in Reqs : WF_vars(Run(r))

-----------------------------------------------------------------------------
(* Properties.                                                             *)

Hits == [n : Nat, t : Nat]

TypeOK ==
    /\ clock \in 0..MaxClock
    /\ sender \in [Accounts -> [rate : SUBSET Hits, volume : SUBSET Hits,
                                strikes : Nat, until : Nat]]
    /\ \A r \in Reqs :
         /\ req[r].pc \in {"new", "policy", "patterns", "mx", "dial", "ehlo",
                           "starttls", "ehlo2", "envelope", "data", "body", "report", "done"}
         /\ req[r].report \in {"none", "Blocked", "Delivered", "Deferred",
                               "Failed"}

\* outbound.rs: whatever leaves the gateway comes from a registered account,
\* under an address its identity owns, to a host the patterns in force allow,
\* encrypted when the policy asked for it, and asks no more of the peer than
\* it advertised on the channel in use.
SentAsAllowed ==
    \A w \in wire :
        LET q == Request[w.r] IN
        /\ q.account \in Registered
        /\ Owner[q.from] = q.ik /\ q.from \in Delegated
        /\ w.patterns # {} =>
             \E p \in w.patterns :
                 \/ p = w.host
                 \/ /\ p[1] = "*" /\ Tail(p) = Tail(w.host)
        /\ w.required => w.tls
        /\ "STARTTLS" \in w.caps => w.tls
        /\ q.utf8 => "SMTPUTF8" \in w.caps
        /\ q.eightbit => "8BITMIME" \in w.caps
        /\ w.host \notin ForbiddenHosts

\* outbound_tcp.rs: a delivery was taken by the peer and a failure was not;
\* only a deferral leaves it open, so a retry after a failure never duplicates.
OutcomeHonest ==
    \A r \in Reqs :
        LET taken == \E w \in wire : w.r = r /\ w.took IN
        /\ req[r].report = "Delivered" => taken
        /\ req[r].report \in {"Failed", "Blocked"} => ~taken

\* outbound_guard.rs: over all threads of an account, at most VolumeCap sends
\* start within a volume window, and at most RateLimit within a rate window.
VolumeHolds ==
    \A i \in DOMAIN log :
        LET Within(width) == {j \in 1..i : /\ log[j].account = log[i].account
                                           /\ log[j].t >= log[i].t - width}
        IN  /\ Cardinality(Within(VolumeWindow)) <= VolumeCap
            /\ Cardinality(Within(RateWindow)) <= RateLimit

\* outbound_guard.rs: once a failure is reported, whatever the other threads
\* of the account report, no send of the account starts for BackoffBase.
BackoffHolds ==
    \A f \in struck : \A i \in DOMAIN log :
        i > f.n /\ log[i].account = f.account => log[i].t >= f.t + BackoffBase

\* outbound.rs: every request ends with a report.
EveryRequestEnds == \A r \in Reqs : <>(req[r].pc = "done")

(* What leaves is authorised, encrypted and addressed as the policy in     *)
(* force asks, within the volume of the account and outside its backoff,   *)
(* over all threads (send_authenticated, try_run, OutboundSenderGuard).    *)
SentSafely == TypeOK /\ SentAsAllowed /\ VolumeHolds /\ BackoffHolds
=============================================================================
