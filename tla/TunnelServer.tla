----------------------------- MODULE TunnelServer -----------------------------
(***************************************************************************)
(* The relay's tunnel registry and everything that races for it:           *)
(* handleControl, one goroutine per agent connection (control.go,          *)
(* admission.go, registry.go); the public proxy, one goroutine per request *)
(* (proxy.go); a drain and its reconnect broadcast (drain.go); and the     *)
(* revocation of credentials with its two sweeps, the operator's and the   *)
(* periodic one (revocation.go, auth.go, server.go).                       *)
(*                                                                         *)
(* A connection is one attempt of an agent to connect; an agent that       *)
(* reconnects is another connection with the same name and token.  Rate    *)
(* limits, saturation, malformed frames and the entitlement gate refuse a  *)
(* connection at any time, so they appear as a free choice to refuse.      *)
(***************************************************************************)
EXTENDS Integers, FiniteSets

CONSTANTS Conns,         \* connection attempts
          Names,         \* tunnel names
          Name,          \* Name[c]: the name connection c registers
          Token,         \* Token[c]: the bearer token it presents
          Account,       \* Account[c]: the account its token is linked to
          Grants,        \* the <<token, name>> pairs of the static store
          Revocable,     \* tokens, names and accounts that may get revoked
          Expirable,     \* tokens whose grant has a TTL
          Requests,      \* public requests
          Target,        \* Target[r]: the tunnel name a request is routed to
          MaxAgents,     \* Config.MaxAgents
          MaxStreams,    \* Config.MaxStreamsPerAgent
          NoConn

ASSUME ServerAssumption ==
    /\ Name \in [Conns -> Names] /\ Target \in [Requests -> Names]
    /\ NoConn \notin Conns
    /\ MaxAgents \in Nat \ {0} /\ MaxStreams \in Nat \ {0}
    /\ IsFiniteSet(Conns) /\ IsFiniteSet(Names) /\ IsFiniteSet(Requests)

VARIABLES
    pc,         \* where each connection's handleControl is
    muxOpen,    \* whether the connection's yamux session is open
    first,      \* the first thing the server wrote to the connection
    byName,     \* registry.byName
    draining,   \* Server.draining
    drainPc,    \* where Drain is
    drainTodo,  \* broadcastReconnect's snapshot, sessions not yet signalled
    signaled,   \* sessions CommandReconnect was written to, or failed on
    revoked,    \* the static revoked-list
    expired,    \* tokens whose grant TTL has elapsed
    adminPc,    \* where RevokeToken/RevokeName/RevokeAccount is
    sweepTodo,  \* the snapshot of the "ticker" and of the "admin" sweep
    rpc,        \* where each public request is
    rsess,      \* the session a request looked up
    streams     \* session.streams

ctrlVars  == <<pc, muxOpen, first, byName>>
drainVars == <<draining, drainPc, drainTodo, signaled>>
revVars   == <<revoked, expired, adminPc, sweepTodo>>
reqVars   == <<rpc, rsess, streams>>
vars      == <<ctrlVars, drainVars, revVars, reqVars>>

-----------------------------------------------------------------------------
Init ==
    /\ pc = [c \in Conns |-> "idle"]
    /\ muxOpen = [c \in Conns |-> FALSE]
    /\ first = [c \in Conns |-> "nothing"]
    /\ byName = [n \in Names |-> NoConn]
    /\ draining = FALSE /\ drainPc = "idle" /\ drainTodo = {} /\ signaled = {}
    /\ revoked = {} /\ expired = {}
    /\ adminPc = "idle"
    /\ sweepTodo = [w \in {"ticker", "admin"} |-> {}]
    /\ rpc = [r \in Requests |-> "idle"]
    /\ rsess = [r \in Requests |-> NoConn]
    /\ streams = [c \in Conns |-> 0]

\* registry.snapshot and registry.count
snapshot == {byName[n] : n \in Names} \ {NoConn}
count    == Cardinality({n \in Names : byName[n] # NoConn})

\* What the server sends on a connection; only the first thing matters.
Send(c, what) == first' = [first EXCEPT ![c] = IF @ = "nothing" THEN what ELSE @]

-----------------------------------------------------------------------------
(* Credentials. *)

\* revokedList.IsRevoked: any of token, name and account is enough.
IsRevoked(c) == {Token[c], Name[c], Account[c]} \cap revoked # {}

\* staticTokenStore.TokenExpired
TokenExpired(c) == Token[c] \in expired

\* revocationSource.revoked, without the entitlement gate's part.
mustCut(c) == IsRevoked(c) \/ TokenExpired(c)

\* staticTokenStore.Authorize
Authorize(c) == <<Token[c], Name[c]>> \in Grants /\ ~TokenExpired(c) /\ ~IsRevoked(c)

\* The relay's clock passes the expiry of a token's grant.
expire(t) ==
    /\ t \in Expirable \ expired
    /\ expired' = expired \cup {t}
    /\ UNCHANGED <<ctrlVars, drainVars, revoked, adminPc, sweepTodo, reqVars>>

-----------------------------------------------------------------------------
(* handleControl. *)

\* Every refusal on the way: an error answer, and the goroutine returns.
refuse(c) ==
    /\ pc' = [pc EXCEPT ![c] = "gone"]
    /\ Send(c, "refusal")
    /\ UNCHANGED <<muxOpen, byName>>

advance(c, to) == pc' = [pc EXCEPT ![c] = to] /\ UNCHANGED <<muxOpen, first, byName>>

\* admitControlConn, the upgrade and readRegister.
admitControlConn(c) ==
    /\ pc[c] = "idle"
    /\ \/ count < MaxAgents /\ ~draining /\ advance(c, "registering")
       \/ refuse(c)
    /\ UNCHANGED <<drainVars, revVars, reqVars>>

\* The draining check after the register frame.
checkDraining(c) ==
    /\ pc[c] = "registering"
    /\ \/ ~draining /\ advance(c, "undrained")
       \/ refuse(c)
    /\ UNCHANGED <<drainVars, revVars, reqVars>>

\* Tokens.Authorize; the account's connect rate, the gate and the direct-endpoint
\* probe follow, and take their time before registry.add.
authorize(c) ==
    /\ pc[c] = "undrained"
    /\ \/ Authorize(c) /\ advance(c, "authorized")
       \/ refuse(c)
    /\ UNCHANGED <<drainVars, revVars, reqVars>>

\* Mutant: registry.add lets a reconnecting agent take the name over.
registryAdmits_Takeover(c) == byName[Name[c]] # NoConn \/ count < MaxAgents

\* registry.add's two conditions, checked under its lock.
registryAdmits(c) == byName[Name[c]] = NoConn /\ count < MaxAgents

\* The yamux session and registry.add: from here on the proxy finds the tunnel.
registryAdd(c) ==
    /\ pc[c] = "authorized"
    /\ \/ /\ registryAdmits(c)
          /\ byName' = [byName EXCEPT ![Name[c]] = c]
          /\ muxOpen' = [muxOpen EXCEPT ![c] = TRUE]
          /\ pc' = [pc EXCEPT ![c] = "added"]
          /\ UNCHANGED first
       \/ refuse(c)
    /\ UNCHANGED <<drainVars, revVars, reqVars>>

\* writeAck, and handleControl waits for the session to end; or the write fails,
\* and the deferred mux.Close runs.
writeAck(c) ==
    /\ pc[c] = "added"
    /\ pc' = [pc EXCEPT ![c] = "serving"]
    /\ \/ muxOpen[c] /\ Send(c, "ack") /\ UNCHANGED muxOpen
       \/ muxOpen' = [muxOpen EXCEPT ![c] = FALSE] /\ UNCHANGED first
    /\ UNCHANGED <<byName, drainVars, revVars, reqVars>>

\* The agent closes the session, or keepalive finds it dead.
peerCloses(c) ==
    /\ muxOpen[c]
    /\ muxOpen' = [muxOpen EXCEPT ![c] = FALSE]
    /\ UNCHANGED <<pc, first, byName, drainVars, revVars, reqVars>>

\* CloseChan unblocks handleControl, whose deferred release leaves the registry.
release(c) ==
    /\ pc[c] = "serving" /\ ~muxOpen[c]
    /\ pc' = [pc EXCEPT ![c] = "gone"]
    /\ byName' = [n \in Names |-> IF n = Name[c] /\ byName[n] = c THEN NoConn ELSE byName[n]]
    /\ UNCHANGED <<muxOpen, first, drainVars, revVars, reqVars>>

-----------------------------------------------------------------------------
(* Drain. *)

\* Drain stops new tunnels ...
drain ==
    /\ drainPc \in {"idle", "done"}
    /\ draining' = TRUE /\ drainPc' = "draining"
    /\ UNCHANGED <<drainTodo, signaled, ctrlVars, revVars, reqVars>>

\* ... takes the sessions to signal ...
broadcastReconnect ==
    /\ drainPc = "draining"
    /\ drainTodo' = snapshot
    /\ drainPc' = "signaling"
    /\ UNCHANGED <<draining, signaled, ctrlVars, revVars, reqVars>>

\* ... writes to each of them; a closed or stuck session gives an error ...
signalReconnect(c) ==
    /\ c \in drainTodo
    /\ drainTodo' = drainTodo \ {c}
    /\ signaled' = signaled \cup {c}
    /\ \/ muxOpen[c] /\ Send(c, "frame")
       \/ UNCHANGED first
    /\ UNCHANGED <<draining, drainPc, pc, muxOpen, byName, revVars, reqVars>>

\* ... and returns when the last one answered.
drainReturns ==
    /\ drainPc = "signaling" /\ drainTodo = {}
    /\ drainPc' = "done"
    /\ UNCHANGED <<draining, drainTodo, signaled, ctrlVars, revVars, reqVars>>

undrain ==
    /\ draining /\ draining' = FALSE
    /\ UNCHANGED <<drainPc, drainTodo, signaled, ctrlVars, revVars, reqVars>>

-----------------------------------------------------------------------------
(* Revocation. *)

\* RevokeToken, RevokeName, RevokeAccount: the list first, then a sweep.
revoke(x) ==
    /\ adminPc = "idle" /\ x \in Revocable \ revoked
    /\ revoked' = revoked \cup {x}
    /\ adminPc' = "sweep"
    /\ UNCHANGED <<expired, sweepTodo, ctrlVars, drainVars, reqVars>>

\* sweepRevoked's snapshot, by the operator's call and by the ticker.
sweepBegin(w) ==
    /\ \/ w = "admin" /\ adminPc = "sweep" /\ adminPc' = "sweeping"
       \/ w = "ticker" /\ sweepTodo["ticker"] = {} /\ UNCHANGED adminPc
    /\ sweepTodo' = [sweepTodo EXCEPT ![w] = snapshot]
    /\ UNCHANGED <<revoked, expired, ctrlVars, drainVars, reqVars>>

\* Mutant: the sweep looks at tokens only.
sweepRevoked_TokensOnly(w, c) ==
    /\ c \in sweepTodo[w]
    /\ sweepTodo' = [sweepTodo EXCEPT ![w] = @ \ {c}]
    /\ muxOpen' = [muxOpen EXCEPT ![c] = @ /\ Token[c] \notin revoked \cup expired]
    /\ UNCHANGED <<revoked, expired, adminPc, pc, first, byName,
                   drainVars, reqVars>>

\* sweepRevoked's loop: the mux of a session to cut is closed.
sweepRevoked(w, c) ==
    /\ c \in sweepTodo[w]
    /\ sweepTodo' = [sweepTodo EXCEPT ![w] = @ \ {c}]
    /\ muxOpen' = [muxOpen EXCEPT ![c] = @ /\ ~mustCut(c)]
    /\ UNCHANGED <<revoked, expired, adminPc, pc, first, byName,
                   drainVars, reqVars>>

revokeReturns ==
    /\ adminPc = "sweeping" /\ sweepTodo["admin"] = {}
    /\ adminPc' = "idle"
    /\ UNCHANGED <<revoked, expired, sweepTodo, ctrlVars, drainVars, reqVars>>

-----------------------------------------------------------------------------
(* The public proxy. *)

\* registry.lookup; an offline tunnel answers 502.
lookup(r) ==
    /\ rpc[r] = "idle"
    /\ byName[Target[r]] # NoConn
    /\ rsess' = [rsess EXCEPT ![r] = byName[Target[r]]]
    /\ rpc' = [rpc EXCEPT ![r] = "found"]
    /\ UNCHANGED <<streams, ctrlVars, drainVars, revVars>>

\* allowContinue refuses, or the stream cap is reached: the request ends.
turnAway(r) ==
    /\ rpc[r] = "found"
    /\ rpc' = [rpc EXCEPT ![r] = "idle"] /\ rsess' = [rsess EXCEPT ![r] = NoConn]
    /\ UNCHANGED <<streams, ctrlVars, drainVars, revVars>>

\* acquireStream
acquireStream(r) ==
    /\ rpc[r] = "found"
    /\ streams[rsess[r]] < MaxStreams
    /\ streams' = [streams EXCEPT ![rsess[r]] = @ + 1]
    /\ rpc' = [rpc EXCEPT ![r] = "acquired"]
    /\ UNCHANGED <<rsess, ctrlVars, drainVars, revVars>>

\* OpenStream and the forwarded request, the first bytes of a yamux stream.
openStream(r) ==
    /\ rpc[r] = "acquired" /\ muxOpen[rsess[r]]
    /\ Send(rsess[r], "frame")
    /\ rpc' = [rpc EXCEPT ![r] = "streaming"]
    /\ UNCHANGED <<rsess, streams, pc, muxOpen, byName, drainVars, revVars>>

\* Mutant: a request whose OpenStream fails does not give its slot back.
releaseStream_LeaksOnError(r) ==
    streams' = [streams EXCEPT ![rsess[r]] = IF rpc[r] = "streaming" THEN @ - 1 ELSE @]

\* The deferred releaseStream.
releaseStream(r) == streams' = [streams EXCEPT ![rsess[r]] = IF @ > 0 THEN @ - 1 ELSE @]

\* The request ends, on whichever path: an OpenStream error, a timeout, its response.
requestEnds(r) ==
    /\ rpc[r] \in {"acquired", "streaming"}
    /\ releaseStream(r)
    /\ rpc' = [rpc EXCEPT ![r] = "idle"] /\ rsess' = [rsess EXCEPT ![r] = NoConn]
    /\ UNCHANGED <<ctrlVars, drainVars, revVars>>

-----------------------------------------------------------------------------
handlerStep(c) == \/ checkDraining(c) \/ authorize(c) \/ registryAdd(c)
                  \/ writeAck(c) \/ release(c)

Next ==
    \/ \E c \in Conns :
          \/ admitControlConn(c) \/ checkDraining(c) \/ authorize(c) \/ registryAdd(c)
          \/ writeAck(c) \/ peerCloses(c) \/ release(c) \/ signalReconnect(c)
          \/ sweepRevoked("admin", c) \/ sweepRevoked("ticker", c)
    \/ \E r \in Requests :
          lookup(r) \/ turnAway(r) \/ acquireStream(r) \/ openStream(r) \/ requestEnds(r)
    \/ \E t \in Expirable : expire(t)
    \/ \E x \in Revocable : revoke(x) \/ sweepBegin("admin") \/ revokeReturns
    \/ sweepBegin("ticker")
    \/ drain \/ broadcastReconnect \/ drainReturns \/ undrain

Spec == Init /\ [][Next]_vars

\* Handlers make progress, and the ticker of the periodic sweep keeps firing.
Fairness ==
    /\ \A c \in Conns : WF_vars(handlerStep(c))
    /\ WF_vars(sweepBegin("ticker"))
    /\ \A c \in Conns : WF_vars(sweepRevoked("ticker", c))

FairSpec == Spec /\ Fairness

-----------------------------------------------------------------------------
(* Properties. *)

Registered(c) == pc[c] \in {"added", "serving"}

\* Every variable has its type; no session carries more than MaxStreams requests.
TypeOK ==
    /\ pc \in [Conns -> {"idle", "registering", "undrained", "authorized", "added",
                         "serving", "gone"}]
    /\ muxOpen \in [Conns -> BOOLEAN]
    /\ first \in [Conns -> {"nothing", "refusal", "ack", "frame"}]
    /\ byName \in [Names -> Conns \cup {NoConn}]
    /\ draining \in BOOLEAN
    /\ drainPc \in {"idle", "draining", "signaling", "done"}
    /\ drainTodo \subseteq Conns /\ signaled \subseteq Conns
    /\ revoked \subseteq Revocable /\ expired \subseteq Expirable
    /\ adminPc \in {"idle", "sweep", "sweeping"}
    /\ sweepTodo \in [{"ticker", "admin"} -> SUBSET Conns]
    /\ rpc \in [Requests -> {"idle", "found", "acquired", "streaming"}]
    /\ rsess \in [Requests -> Conns \cup {NoConn}]
    /\ streams \in [Conns -> 0 .. MaxStreams]

\* The cap holds however many connections pass the admission gate at once.
CapHolds == count <= MaxAgents

\* A registered connection keeps its name until it leaves: no connection takes the
\* name of another (no hijacking), and none that leaves takes the entry of another.
OwnsItsName == \A c \in Conns : Registered(c) <=> \E n \in Names : byName[n] = c

\* Each session counts exactly the requests that hold one of its stream slots.
StreamsBalanced ==
    \A c \in Conns :
        streams[c] = Cardinality({r \in Requests : rpc[r] \in {"acquired", "streaming"}
                                                      /\ rsess[r] = c})

\* A revoked or expired credential loses its tunnel, also one whose connection was
\* authorized just before and registered just after an operator's sweep.
RevokedIsCut == \A c \in Conns : mustCut(c) ~> ~Registered(c)

(* The registry is safe: never more tunnels than the cap, a name with the  *)
(* connection that owns it, stream slots counted on the session that gave  *)
(* them (registry.add, release, acquireStream, releaseStream).             *)
RegistrySafe == TypeOK /\ CapHolds /\ OwnsItsName /\ StreamsBalanced
=============================================================================
