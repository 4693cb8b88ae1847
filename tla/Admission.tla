------------------------------ MODULE Admission ----------------------------
(***************************************************************************)
(* The challenge-response admission of pier-gateway (IdentityRegistry,     *)
(* authz.rs).  Senders ask for challenges and answer them from any number  *)
(* of connections; admit takes the lock of the nonce ledger twice, to look *)
(* the challenge up and to spend it, and other connections run in between. *)
(* Answers may be forged, altered, replayed and late.                      *)
(***************************************************************************)
EXTENDS Integers

CONSTANTS Conns,       \* connections, each handling one answer at a time
          Nonces,      \* what the random generator yields, each once
          Applicants,  \* the keys senders hold
          Registered,  \* the keys the registry lists
          OpenMode,    \* AuthzMode::OpenPublic, or KeyRegistered
          TTL, MaxTime \* challenge_ttl_ms, and a bound of the model

ASSUME AdmissionAssumption == TTL \in Nat /\ MaxTime \in Nat

\* minted and admissions are histories: the challenges the gateway handed out
\* and the answers it accepted.
VARIABLES now, issued, conn, minted, admissions

admVars == <<now, issued, conn, minted, admissions>>

NoAnswer == [pc |-> "idle", nonce |-> "none", at |-> 0, key |-> "none",
             signer |-> "none", seen |-> 0]

AdmInit == /\ now = 0
        /\ issued = <<>>
        /\ conn = [c \in Conns |-> NoAnswer]
        /\ minted = {}
        /\ admissions = {}

Keep(S) == [n \in S |-> issued[n]]

\* issue_challenge: what is out of its window is dropped, then the challenge
\* is recorded.
issue_challenge(n) ==
    /\ \A m \in minted : m.nonce # n
    /\ LET kept == {k \in DOMAIN issued : issued[k] >= now - TTL}
       IN  issued' = [k \in kept \cup {n} |-> IF k = n THEN now ELSE issued[k]]
    /\ minted' = minted \cup {[nonce |-> n, at |-> now]}
    /\ UNCHANGED <<now, conn, admissions>>

\* peek_issued_at: the recorded time, else the presented one.
issued_at(n, presented) == IF n \in DOMAIN issued THEN issued[n] ELSE presented

Fresh(at) == now >= at /\ now - at <= TTL

\* identity_for_key and the policy of the mode.
policy(key) == OpenMode \/ key \in Registered

\* admit up to the second lock.  A signature covers the presented challenge.
admit_check(c, n, at, key, signer) ==
    /\ conn[c].pc = "idle"
    /\ Fresh(issued_at(n, at)) /\ signer = key /\ policy(key)
    /\ conn' = [conn EXCEPT ![c] = [pc |-> "checked", nonce |-> n, at |-> at,
                                    key |-> key, signer |-> signer,
                                    seen |-> now]]
    /\ UNCHANGED <<now, issued, minted, admissions>>

\* A failed answer costs the challenge.
admit_refuse_Burn(c, n, at, key, signer) ==
    /\ conn[c].pc = "idle"
    /\ ~(Fresh(issued_at(n, at)) /\ signer = key /\ policy(key))
    /\ issued' = Keep(DOMAIN issued \ {n})
    /\ UNCHANGED <<now, conn, minted, admissions>>

\* ChallengeExpired, BadSignature or UnknownKey.
admit_refuse(c, n, at, key, signer) ==
    /\ conn[c].pc = "idle"
    /\ ~(Fresh(issued_at(n, at)) /\ signer = key /\ policy(key))
    /\ UNCHANGED admVars

Spendable(n, at) == n \in DOMAIN issued /\ issued[n] = at

\* The challenge stays on the ledger.
Spend_Keep(n) == issued
Spend(n) == Keep(DOMAIN issued \ {n})

\* consume_nonce, and the end of admit.
admit_consume(c) ==
    LET a == conn[c] IN
    /\ a.pc = "checked"
    /\ conn' = [conn EXCEPT ![c] = NoAnswer]
    /\ IF Spendable(a.nonce, a.at)
       THEN /\ issued' = Spend(a.nonce)
            /\ admissions' = admissions \cup
                 {[c |-> c, t |-> now, nonce |-> a.nonce, at |-> a.at,
                   key |-> a.key, signer |-> a.signer, seen |-> a.seen]}
       ELSE UNCHANGED <<issued, admissions>>
    /\ UNCHANGED <<now, minted>>

Elapse == now < MaxTime /\ now' = now + 1
          /\ UNCHANGED <<issued, conn, minted, admissions>>

AdmNext ==
    \/ \E n \in Nonces :
         \/ issue_challenge(n)
         \/ \E c \in Conns, at \in 0..MaxTime, key, signer \in Applicants :
              \/ admit_check(c, n, at, key, signer)
              \/ admit_refuse(c, n, at, key, signer)
    \/ \E c \in Conns : admit_consume(c)
    \/ Elapse

AdmSpec == AdmInit /\ [][AdmNext]_admVars

-----------------------------------------------------------------------------
(* Properties.                                                             *)

\* authz.rs: an admission answers a challenge the gateway handed out at the
\* time the answer names, within its window, signed with a key the mode lets
\* in.
AdmissionSound ==
    \A a \in admissions :
        /\ [nonce |-> a.nonce, at |-> a.at] \in minted
        /\ a.seen - a.at \in 0..TTL
        /\ a.signer = a.key /\ (OpenMode \/ a.key \in Registered)

\* authz.rs: a challenge admits once, over all connections.
AdmitsOnce == \A a, b \in admissions : a.nonce = b.nonce => a = b

\* authz.rs: a challenge leaves the ledger by an admission or when it is out
\* of its window; no failed attempt of anyone else takes it from its sender.
NotBurned ==
    [][\A n \in DOMAIN issued \ DOMAIN issued' :
         \/ \E a \in admissions' : a.nonce = n
         \/ now - issued[n] > TTL]_admVars

(* Admissions are sound, and one per challenge, over all connections       *)
(* (admit).                                                                *)
AdmissionSafe == AdmissionSound /\ AdmitsOnce
=============================================================================
