---------------------------- MODULE EntitlementGate ----------------------------
(***************************************************************************)
(* The relay's entitlement gate (gate.go): a cache of what the control     *)
(* plane says of an account, consulted when an agent connects (fail        *)
(* closed), on every public request of a live tunnel (fail open) and by    *)
(* the revocation sweep, all at once.  An entry never looks at another     *)
(* account's, so the model has one account.                                *)
(*                                                                         *)
(* Time is relative: the entry keeps what is left of its TTL, a read how   *)
(* long it has been out.  A read ends within Timeout, refresh's context    *)
(* deadline.                                                               *)
(***************************************************************************)
EXTENDS Integers

CONSTANTS Callers,       \* goroutines that consult the gate
          Kinds,         \* what the callers may be: see kind
          Statuses,      \* what the control plane may say of the account
          GateTTL,       \* entitlementGate.ttl
          GateTimeout    \* refresh's 8 s

ASSUME GateAssumption ==
    /\ Kinds \subseteq [Callers -> {"connect", "continue", "sweep"}]
    /\ Statuses \subseteq {"ok", "denied", "over", "revoked"}
    /\ GateTTL \in Nat \ {0} /\ GateTimeout \in Nat

VARIABLES
    kind,       \* kind[c]: "connect", "continue" or "sweep", for good
    cp,         \* the account's state at the control plane
    entry,      \* cache[account]
    gpc,        \* where each caller is
    gans,       \* the control plane's answer to a caller's read
    gage,       \* how long the read has been out
    verdict,    \* a caller's last answer: TRUE keeps or admits the tunnel
    report,     \* a usage report answered "over quota" and not yet applied
    saw,        \* whether a revoke was in the cache when a caller began
    sinceOk     \* time since the control plane last allowed the account

gateVars == <<kind, cp, entry, gpc, gans, gage, verdict, report, saw, sinceOk>>

GateMaxAge == GateTTL + GateTimeout

-----------------------------------------------------------------------------
\* The zero gateDecision: what Go reads from a key that is not there.
NoEntry == [present |-> FALSE, allowed |-> FALSE, overQuota |-> FALSE,
            revoked |-> FALSE, left |-> -1]

GateInit ==
    /\ kind \in Kinds
    /\ cp \in Statuses
    /\ entry = NoEntry
    /\ gpc = [c \in Callers |-> "idle"]
    /\ gans = [c \in Callers |-> "none"]
    /\ gage = [c \in Callers |-> 0]
    /\ verdict = [c \in Callers |-> FALSE]
    /\ report = FALSE
    /\ saw = [c \in Callers |-> FALSE]
    /\ sinceOk = IF cp = "ok" THEN 0 ELSE GateMaxAge + 1

\* d.allowed && !d.overQuota && !d.revoked; the sweep only asks for d.revoked.
Permits(c, d) == IF kind[c] = "sweep" THEN ~d.revoked
                 ELSE d.allowed /\ ~d.overQuota /\ ~d.revoked

answer(c, v) ==
    /\ gpc' = [gpc EXCEPT ![c] = "idle"]
    /\ gans' = [gans EXCEPT ![c] = "none"]
    /\ gage' = [gage EXCEPT ![c] = 0]
    /\ verdict' = [verdict EXCEPT ![c] = v]

gateGoto(c, to) == gpc' = [gpc EXCEPT ![c] = to] /\ UNCHANGED <<gans, gage, verdict>>

-----------------------------------------------------------------------------
\* allowConnect, allowContinue or definitivelyRevoked is called.  The last two
\* look for a revoke first, in an entry of any age.
call(c) ==
    /\ gpc[c] = "idle"
    /\ gateGoto(c, IF kind[c] = "connect" THEN "lookup" ELSE "stale")
    /\ saw' = [saw EXCEPT ![c] = entry.revoked]
    /\ UNCHANGED <<kind, cp, entry, report, sinceOk>>

stale(c) ==
    /\ gpc[c] = "stale"
    /\ IF entry.present /\ entry.revoked THEN answer(c, FALSE) ELSE gateGoto(c, "lookup")
    /\ UNCHANGED <<kind, cp, entry, report, saw, sinceOk>>

\* Mutant: an expired entry is as good as a fresh one.
Fresh_NeverExpires == entry.present

\* lookup's test of an entry.
Fresh == entry.present /\ entry.left >= 0

\* Mutant: a hit renews the entry.
gateLookup_Renews(c) ==
    /\ gpc[c] = "lookup"
    /\ IF Fresh THEN answer(c, Permits(c, entry)) ELSE gateGoto(c, "reading")
    /\ entry' = [entry EXCEPT !.left = IF Fresh THEN GateTTL ELSE @]
    /\ UNCHANGED <<kind, cp, report, saw, sinceOk>>

gateLookup(c) ==
    /\ gpc[c] = "lookup"
    /\ IF Fresh THEN answer(c, Permits(c, entry)) ELSE gateGoto(c, "reading")
    /\ UNCHANGED <<kind, cp, entry, report, saw, sinceOk>>

\* The control plane answers refresh's read; the answer is on its way.
EntitlementForAccount(c) ==
    /\ gpc[c] = "reading"
    /\ gpc' = [gpc EXCEPT ![c] = "answered"]
    /\ gans' = [gans EXCEPT ![c] = cp]
    /\ UNCHANGED <<kind, cp, entry, gage, verdict, report, saw, sinceOk>>

\* The read fails, or its deadline passes, also with the answer on its way.
readFails(c) ==
    /\ gpc[c] \in {"reading", "answered"}
    /\ gateGoto(c, "failed")
    /\ UNCHANGED <<kind, cp, entry, report, saw, sinceOk>>

\* Mutant: a clean read overwrites the entry, whatever it was.
Decision_Unrevokes(a) ==
    IF a = "revoked"
    THEN [entry EXCEPT !.present = TRUE, !.revoked = TRUE, !.allowed = FALSE, !.left = GateTTL]
    ELSE [present |-> TRUE, allowed |-> a \in {"ok", "over"}, overQuota |-> a = "over",
          revoked |-> FALSE, left |-> GateTTL]

\* The entry refresh writes for an answer: a revoke is sticky.
Decision(a) ==
    IF a = "revoked"
    THEN [entry EXCEPT !.present = TRUE, !.revoked = TRUE, !.allowed = FALSE, !.left = GateTTL]
    ELSE [present |-> TRUE, allowed |-> a \in {"ok", "over"} /\ ~entry.revoked,
          overQuota |-> a = "over", revoked |-> entry.revoked, left |-> GateTTL]

\* The answer arrives: refresh writes the entry, and the caller decides by it.
refresh(c) ==
    /\ gpc[c] = "answered"
    /\ entry' = Decision(gans[c])
    /\ answer(c, gans[c] # "revoked" /\ Permits(c, Decision(gans[c])))
    /\ UNCHANGED <<kind, cp, report, saw, sinceOk>>

\* Mutant: a failed read at connect falls back on the last decision, too.
readFailed_OpenAtConnect(c) ==
    /\ gpc[c] = "failed"
    /\ answer(c, kind[c] = "sweep" \/ ~entry.present \/ Permits(c, entry))
    /\ UNCHANGED <<kind, cp, entry, report, saw, sinceOk>>

\* A failed read: a connect is refused, a sweep cuts nothing, and a live tunnel goes
\* on by the last decision there is.
readFailed(c) ==
    /\ gpc[c] = "failed"
    /\ answer(c, /\ kind[c] # "connect"
                 /\ kind[c] = "sweep" \/ ~entry.present \/ Permits(c, entry))
    /\ UNCHANGED <<kind, cp, entry, report, saw, sinceOk>>

-----------------------------------------------------------------------------
\* The account changes at the control plane.
cpChanges(s) ==
    /\ s \in Statuses \ {cp}
    /\ cp' = s
    /\ sinceOk' = IF s = "ok" THEN 0 ELSE sinceOk
    /\ UNCHANGED <<kind, entry, gpc, gans, gage, verdict, report, saw>>

\* A usage report is answered, with the account among those over quota.
overQuotaAnswer ==
    /\ ~report /\ cp = "over"
    /\ report' = TRUE
    /\ UNCHANGED <<kind, cp, entry, gpc, gans, gage, verdict, saw, sinceOk>>

\* flushOnce applies that answer.
markOverQuota ==
    /\ report /\ report' = FALSE
    /\ entry' = [present |-> TRUE, overQuota |-> TRUE,
                 allowed |-> entry.allowed, revoked |-> entry.revoked,
                 left |-> IF entry.left < 0 THEN GateTTL ELSE entry.left]
    /\ UNCHANGED <<kind, cp, gpc, gans, gage, verdict, saw, sinceOk>>

gateTick ==
    /\ \A c \in Callers : gpc[c] \in {"reading", "answered"} => gage[c] < GateTimeout
    /\ gage' = [c \in Callers |-> IF gpc[c] \in {"reading", "answered"} THEN gage[c] + 1 ELSE 0]
    /\ entry' = [entry EXCEPT !.left = IF @ < 0 THEN @ ELSE @ - 1]
    /\ sinceOk' = IF cp = "ok" \/ sinceOk > GateMaxAge THEN sinceOk ELSE sinceOk + 1
    /\ UNCHANGED <<kind, cp, gpc, gans, verdict, report, saw>>

-----------------------------------------------------------------------------
callerStep(c) == stale(c) \/ gateLookup(c) \/ readFails(c) \/ refresh(c) \/ readFailed(c)

GateNext ==
    \/ \E c \in Callers : \/ call(c) \/ stale(c) \/ gateLookup(c) \/ EntitlementForAccount(c)
                          \/ readFails(c) \/ refresh(c) \/ readFailed(c)
    \/ \E s \in Statuses : cpChanges(s)
    \/ overQuotaAnswer \/ markOverQuota \/ gateTick

GateSpec == GateInit /\ [][GateNext]_gateVars

\* Time passes and calls proceed, a usage report's answer is applied, the sweep's
\* ticker fires, requests keep coming, and the control plane is not unreachable
\* for ever.
GateFairness ==
    /\ WF_gateVars(gateTick) /\ WF_gateVars(markOverQuota)
    /\ \A c \in Callers :
          /\ WF_gateVars(call(c)) /\ WF_gateVars(callerStep(c))
          /\ SF_gateVars(EntitlementForAccount(c)) /\ SF_gateVars(refresh(c))

GateFairSpec == GateSpec /\ GateFairness

-----------------------------------------------------------------------------
(* Properties. *)

\* Every variable has its type; no entry outlives its TTL.
GateTypeOK ==
    /\ kind \in Kinds /\ cp \in Statuses
    /\ entry \in [present : BOOLEAN, allowed : BOOLEAN, overQuota : BOOLEAN,
                  revoked : BOOLEAN, left : -1 .. GateTTL]
    /\ gpc \in [Callers -> {"idle", "stale", "lookup", "reading", "answered", "failed"}]
    /\ gans \in [Callers -> Statuses \cup {"none"}]
    /\ gage \in [Callers -> 0 .. GateTimeout]
    /\ verdict \in [Callers -> BOOLEAN]
    /\ report \in BOOLEAN
    /\ saw \in [Callers -> BOOLEAN]
    /\ sinceOk \in 0 .. GateMaxAge + 1

\* Caller c answers in this step, and lets the tunnel be.
LetsBe(c) == gpc[c] # "idle" /\ gpc'[c] = "idle" /\ verdict'[c]

\* A revoke once observed is final: no call that begins after it was cached is
\* answered "go on", whatever slow clean reads, marks and expiries come in between.
RevokeIsFinal == [][\A c \in Callers : LetsBe(c) => ~saw[c]]_gateVars

\* Failing closed: a connection is admitted only if the control plane allowed the
\* account within the last TTL and the time of one read.
AdmitsRecent == [][\A c \in Callers : kind[c] = "connect" /\ LetsBe(c) => sinceOk <= GateMaxAge]_gateVars

\* A revocation at the control plane reaches the sweep, unless it is taken back.
RevokeReachesSweep ==
    \A c \in Callers :
        cp = "revoked" /\ kind[c] = "sweep"
            ~> (cp # "revoked" \/ (entry.revoked /\ gpc[c] = "idle" /\ ~verdict[c]))

\* An account that is in good standing again is served again, however its denial
\* came into the cache: no entry is refreshed into the future for ever.
StandingRestored ==
    \A c \in Callers : cp = "ok" ~> (cp # "ok" \/ entry.revoked \/ verdict[c])

(* The gate in the long run: a revocation reaches the sweep, and an        *)
(* account in good standing again is served again (gate.go).               *)
GateLive == RevokeReachesSweep /\ StandingRestored

(* The gate never forgets a revoke it has seen, and admits a connection    *)
(* only on a recent answer (refresh, allowConnect).                        *)
GateSound == []GateTypeOK /\ RevokeIsFinal /\ AdmitsRecent
=============================================================================
