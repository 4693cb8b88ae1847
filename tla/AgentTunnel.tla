------------------------------ MODULE AgentTunnel ------------------------------
(***************************************************************************)
(* The agent's tunnel supervisor (agent.go, conn.go): one goroutine        *)
(* resolves a relay, dials it, registers and serves the session; on a      *)
(* drain signal it starts a successor, keeps its own session until the     *)
(* successor is connected or the wait times out, and goes (make before     *)
(* break).  Start and Stop are called by the program that embeds the       *)
(* agent.  The relays (PoPs) take a name once, refuse it while draining    *)
(* and free it some time after its session has ended, as TunnelServer      *)
(* models.                                                                 *)
(*                                                                         *)
(* A loop is a goroutine in superviseFrom; ids of loops that have ended    *)
(* are used again.                                                         *)
(***************************************************************************)
EXTENDS Naturals, FiniteSets

CONSTANTS Loops,   \* ids of supervise loops; bounds how many overlap
          PoPs,    \* relays
          None

ASSUME AgentAssumption == None \notin Loops \cup PoPs

VARIABLES
    running,    \* Agent.running
    stopping,   \* Stop waits for the successors
    status,     \* Agent.status
    req,        \* reconnectReq holds a signal
    pc,         \* where each loop is
    cancelled,  \* running loops whose context is cancelled
    spawned,    \* running loops handoffWG counts
    succ,       \* succ[l]: the successor loop l waits for
    ready,      \* loops whose successor has closed the channel they wait on
    owes,       \* loops whose variable ready is not nil
    pop,        \* pop[l]: the relay loop l dials or is connected to
    live,       \* loops whose session is up
    holder,     \* holder[p]: the loop whose session holds the name at relay p
    draining,   \* relays that drain
    gapOk       \* there may be no session: none yet, a fault, or a Stop

agentVars == <<running, stopping>>
loopVars  == <<pc, cancelled, spawned, succ>>
readyVars == <<ready, owes>>
popVars   == <<pop, live, holder, draining>>
vars      == <<agentVars, status, req, loopVars, readyVars, popVars, gapOk>>

-----------------------------------------------------------------------------
Init ==
    /\ running = FALSE /\ stopping = FALSE /\ status = "stopped" /\ req = FALSE
    /\ pc = [l \in Loops |-> "gone"]
    /\ cancelled = {} /\ spawned = {} /\ ready = {} /\ owes = {} /\ live = {}
    /\ succ = [l \in Loops |-> None]
    /\ pop = [l \in Loops |-> None]
    /\ holder = [p \in PoPs |-> None]
    /\ draining = {}
    /\ gapOk = TRUE

\* An id no goroutine, wait or relay refers to.
Unused(l) ==
    /\ pc[l] = "gone"
    /\ \A k \in Loops : succ[k] # l
    /\ \A p \in PoPs : holder[p] # l

-----------------------------------------------------------------------------
(* The embedding program. *)

\* Start launches maintain with a fresh context; the signal channel stays as it is.
Start(l) ==
    /\ ~running /\ ~stopping /\ Unused(l)
    /\ running' = TRUE /\ status' = "starting"
    /\ pc' = [pc EXCEPT ![l] = "dialing"]
    /\ UNCHANGED <<stopping, req, cancelled, spawned, succ, readyVars, popVars, gapOk>>

\* Stop resets the status and cancels the context ...
Stop ==
    /\ running
    /\ running' = FALSE /\ stopping' = TRUE /\ status' = "stopped"
    /\ cancelled' = {l \in Loops : pc[l] # "gone"}
    /\ gapOk' = TRUE
    /\ UNCHANGED <<req, pc, spawned, succ, readyVars, popVars>>

\* ... and waits for the successors.
stopReturns ==
    /\ stopping /\ spawned = {}
    /\ stopping' = FALSE
    /\ UNCHANGED <<running, status, req, loopVars, readyVars, popVars, gapOk>>

-----------------------------------------------------------------------------
(* superviseFrom and connectOnce. *)

\* A goroutine ends; its deferred calls close its session.
end(l) ==
    /\ pc' = [pc EXCEPT ![l] = "gone"]
    /\ succ' = [succ EXCEPT ![l] = None]
    /\ pop' = [pop EXCEPT ![l] = None]
    /\ live' = live \ {l} /\ owes' = owes \ {l} /\ ready' = ready \ {l}
    /\ cancelled' = cancelled \ {l} /\ spawned' = spawned \ {l}

\* connectOnce returns an outcome other than a handoff: ready is nil from now on,
\* and the loop backs off, or ends without touching the status when cancelled.
attemptEnds(l, st) ==
    IF l \in cancelled THEN end(l) /\ UNCHANGED status
    ELSE /\ pc' = [pc EXCEPT ![l] = "backoff"] /\ status' = st
         /\ pop' = [pop EXCEPT ![l] = None]
         /\ owes' = owes \ {l} /\ live' = live \ {l}
         /\ UNCHANGED <<cancelled, spawned, succ, ready>>

\* Mutant: connectOnce blocks in Accept without watching its context.
ctxDone_NotWhenUp(l) ==
    /\ l \in cancelled /\ pc[l] \in {"stagger", "dialing", "handoff", "backoff"}
    /\ end(l)
    /\ UNCHANGED <<agentVars, status, req, holder, draining, gapOk>>

\* ctx.Done ends the stagger, the loop, a served session, a handoff and a backoff.
ctxDone(l) ==
    /\ l \in cancelled /\ pc[l] \in {"stagger", "dialing", "up", "handoff", "backoff"}
    /\ end(l)
    /\ UNCHANGED <<agentVars, status, req, holder, draining, gapOk>>

\* The stagger or the backoff has passed.
sleepEnds(l) ==
    /\ pc[l] \in {"stagger", "backoff"}
    /\ pc' = [pc EXCEPT ![l] = "dialing"]
    /\ UNCHANGED <<agentVars, status, req, cancelled, spawned, succ, readyVars, popVars, gapOk>>

\* Mutant: the predecessor is told as soon as the successor has dialed.
dial_ReadyEarly(l, p) ==
    /\ pc[l] = "dialing"
    /\ pc' = [pc EXCEPT ![l] = "registering"] /\ pop' = [pop EXCEPT ![l] = p]
    /\ ready' = ready \cup {k \in Loops : succ[k] = l /\ l \in owes}
    /\ UNCHANGED <<agentVars, status, req, cancelled, spawned, succ, owes, live, holder, draining, gapOk>>

\* resolveEndpoint: the directory may name any relay, and the static ServerURL is the
\* fallback; the dial succeeds ...
dial(l, p) ==
    /\ pc[l] = "dialing" /\ l \notin cancelled
    /\ pc' = [pc EXCEPT ![l] = "registering"] /\ pop' = [pop EXCEPT ![l] = p]
    /\ UNCHANGED <<agentVars, status, req, cancelled, spawned, succ, readyVars, live, holder,
                   draining, gapOk>>

\* ... or fails.
dialFails(l) ==
    /\ pc[l] = "dialing"
    /\ attemptEnds(l, "error")
    /\ UNCHANGED <<agentVars, req, holder, draining, gapOk>>

\* register: the relay accepts the name and the agent reads the acknowledgement.
registerOk(l) ==
    /\ pc[l] = "registering"
    /\ holder[pop[l]] = None /\ pop[l] \notin draining
    /\ holder' = [holder EXCEPT ![pop[l]] = l] /\ live' = live \cup {l}
    /\ pc' = [pc EXCEPT ![l] = "acked"]
    /\ UNCHANGED <<agentVars, status, req, cancelled, spawned, succ, readyVars, pop, draining, gapOk>>

\* The relay refuses: a draining one retryably, one that has the name with an error.
registerRefused(l) ==
    /\ pc[l] = "registering"
    /\ \/ pop[l] \in draining /\ attemptEnds(l, "starting")
       \/ holder[pop[l]] # None /\ attemptEnds(l, "error")
    /\ UNCHANGED <<agentVars, req, holder, draining, gapOk>>

\* The handshake fails on the way, before the relay has registered the name or after.
registerFails(l) ==
    /\ pc[l] = "registering"
    /\ attemptEnds(l, "error")
    /\ \/ UNCHANGED holder
       \/ /\ holder[pop[l]] = None /\ pop[l] \notin draining
          /\ holder' = [holder EXCEPT ![pop[l]] = l]
    /\ UNCHANGED <<agentVars, req, draining, gapOk>>

\* connectOnce after register: the status, the signal to a predecessor, the session.
connected(l) ==
    /\ pc[l] = "acked"
    /\ pc' = [pc EXCEPT ![l] = "up"]
    /\ status' = "connected"
    /\ ready' = ready \cup {k \in Loops : succ[k] = l /\ l \in owes}
    /\ gapOk' = (gapOk /\ (l \notin live \/ l \in cancelled))
    /\ UNCHANGED <<agentVars, req, cancelled, spawned, succ, owes, popVars>>

\* Accept fails because the session is gone.
sessionEnds(l) ==
    /\ pc[l] = "up" /\ l \notin live
    /\ \E st \in {"starting", "error"} : attemptEnds(l, st)
    /\ UNCHANGED <<agentVars, req, holder, draining, gapOk>>

-----------------------------------------------------------------------------
(* The graceful handoff. *)

\* requestReconnect, by the stream that carried the relay's signal: at most one is
\* kept.
requestReconnect(l) ==
    /\ l \in live /\ pc[l] \in {"up", "handoff", "winding"} /\ pop[l] \in draining
    /\ req' = TRUE
    /\ UNCHANGED <<agentVars, status, loopVars, readyVars, popVars, gapOk>>

\* connectOnce takes the signal, and gracefulHandoff starts successor k, which
\* inherits the context.
gracefulHandoff(l, k) ==
    /\ pc[l] = "up" /\ req /\ Unused(k)
    /\ req' = FALSE
    /\ pc' = [pc EXCEPT ![l] = "handoff", ![k] = "stagger"]
    /\ succ' = [succ EXCEPT ![l] = k]
    /\ spawned' = spawned \cup {k}
    /\ cancelled' = IF l \in cancelled THEN cancelled \cup {k} ELSE cancelled
    /\ owes' = owes \cup {k}
    /\ UNCHANGED <<agentVars, status, ready, popVars, gapOk>>

\* The successor is connected ...
successorReady(l) ==
    /\ pc[l] = "handoff" /\ l \in ready
    /\ pc' = [pc EXCEPT ![l] = "winding"]
    /\ UNCHANGED <<agentVars, status, req, cancelled, spawned, succ, readyVars, popVars, gapOk>>

\* Mutant: a handoff that times out gives the tunnel back to its loop.
handoffTimeout_Resumes(l) ==
    /\ pc[l] = "handoff"
    /\ pc' = [pc EXCEPT ![l] = "up"] /\ succ' = [succ EXCEPT ![l] = None]
    /\ gapOk' = TRUE
    /\ UNCHANGED <<agentVars, status, req, cancelled, spawned, readyVars, popVars>>

\* ... or handoffTimeout passes; the old session is wound down in either case ...
handoffTimeout(l) ==
    /\ pc[l] = "handoff" /\ l \notin ready
    /\ pc' = [pc EXCEPT ![l] = "winding"]
    /\ gapOk' = TRUE
    /\ UNCHANGED <<agentVars, status, req, cancelled, spawned, succ, readyVars, popVars>>

\* ... GoAway, drainOldSession, Close, and the loop ends.
windDown(l) ==
    /\ pc[l] = "winding"
    /\ end(l)
    /\ UNCHANGED <<agentVars, status, req, holder, draining, gapOk>>

-----------------------------------------------------------------------------
(* The relays and the network. *)

\* The session is lost: the relay closes it, or keepalive finds it dead.
sessionLost(l) ==
    /\ l \in live
    /\ live' = live \ {l}
    /\ gapOk' = TRUE
    /\ UNCHANGED <<agentVars, status, req, loopVars, readyVars, pop, holder, draining>>

\* The relay notices that a session is over, and frees the name.
release(p) ==
    /\ holder[p] # None
    /\ holder[p] \notin live \/ pop[holder[p]] # p
    /\ holder' = [holder EXCEPT ![p] = None]
    /\ UNCHANGED <<agentVars, status, req, loopVars, readyVars, pop, live, draining, gapOk>>

drain(p) ==
    /\ p \notin draining /\ draining' = draining \cup {p}
    /\ UNCHANGED <<agentVars, status, req, loopVars, readyVars, pop, live, holder, gapOk>>

undrain(p) ==
    /\ p \in draining /\ draining' = draining \ {p}
    /\ UNCHANGED <<agentVars, status, req, loopVars, readyVars, pop, live, holder, gapOk>>

-----------------------------------------------------------------------------
loopStep(l) ==
    \/ ctxDone(l) \/ sleepEnds(l) \/ dialFails(l) \/ registerOk(l) \/ registerRefused(l)
    \/ registerFails(l) \/ connected(l) \/ sessionEnds(l) \/ successorReady(l)
    \/ handoffTimeout(l) \/ windDown(l)
    \/ \E p \in PoPs : dial(l, p)

Next ==
    \/ \E l \in Loops :
          \/ Start(l) \/ ctxDone(l) \/ sleepEnds(l) \/ dialFails(l) \/ registerOk(l)
          \/ registerRefused(l) \/ registerFails(l) \/ connected(l) \/ sessionEnds(l)
          \/ requestReconnect(l) \/ successorReady(l) \/ handoffTimeout(l) \/ windDown(l)
          \/ sessionLost(l)
          \/ \E p \in PoPs : dial(l, p)
          \/ \E k \in Loops : gracefulHandoff(l, k)
    \/ Stop \/ stopReturns
    \/ \E p \in PoPs : release(p) \/ drain(p) \/ undrain(p)

Spec == Init /\ [][Next]_vars

\* Goroutines run, and a cancelled context is seen in the end by every wait.
Fairness == \A l \in Loops : WF_vars(loopStep(l)) /\ WF_vars(ctxDone(l))

FairSpec == Spec /\ Fairness

-----------------------------------------------------------------------------
(* Properties. *)

Connected == {"acked", "up", "handoff", "winding"}

\* Every variable has its type, and no session outlives the goroutine that serves it.
TypeOK ==
    /\ running \in BOOLEAN /\ stopping \in BOOLEAN /\ req \in BOOLEAN /\ gapOk \in BOOLEAN
    /\ status \in {"stopped", "starting", "connected", "error"}
    /\ pc \in [Loops -> {"gone", "stagger", "dialing", "registering", "acked", "up",
                         "handoff", "winding", "backoff"}]
    /\ cancelled \subseteq Loops /\ spawned \subseteq Loops /\ owes \subseteq Loops
    /\ live \subseteq {l \in Loops : pc[l] \in Connected} /\ draining \subseteq PoPs
    /\ succ \in [Loops -> Loops \cup {None}] /\ ready \subseteq Loops
    /\ pop \in [Loops -> PoPs \cup {None}] /\ holder \in [PoPs -> Loops \cup {None}]

\* A tunnel has one owner: of the loops of one Start, at most one dials, serves or
\* backs off; the others wind down.
OneOwner ==
    Cardinality({l \in Loops \ cancelled : pc[l] \notin {"gone", "handoff", "winding"}}) <= 1

\* Make before break: an agent that was connected has a session all the time, through
\* any number of drains, unless one is lost, a wait for a successor timed out or the
\* agent is stopped.
ZeroDrop == gapOk \/ live # {}

\* A cancelled loop ends: Stop leaves no goroutine behind for good.
CancelledEnds == \A l \in Loops : l \in cancelled ~> l \notin cancelled

(* Through drains, lost sessions, timeouts, Starts and Stops the tunnel    *)
(* has one owner, and a graceful handoff leaves no gap (gracefulHandoff,   *)
(* superviseFrom).                                                         *)
HandoffSafe == TypeOK /\ OneOwner /\ ZeroDrop
=============================================================================
