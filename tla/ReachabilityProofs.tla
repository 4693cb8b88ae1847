------------------------- MODULE ReachabilityProofs -------------------------
(***************************************************************************)
(* What makes a box reachable: the agent that keeps its tunnel over        *)
(* handoffs, and the reachability adapter.                                 *)
(***************************************************************************)
EXTENDS AgentTunnel, ReachAdapter, FiniteSums

-----------------------------------------------------------------------------
(***************************************************************************)
(* One owner and make before break, for any number of overlapping          *)
(* handoffs, relays, Starts and Stops.                                     *)
(*                                                                         *)
(* ZeroDrop is not inductive: it does not say that the session that is up  *)
(* will not be the next one wound down.  The invariant names a carrier, a  *)
(* session of a loop that serves, or waits for a successor that has not    *)
(* told it to go.  A loop only becomes free to go when its successor is    *)
(* connected, and then the successor is a carrier.                         *)
(***************************************************************************)

Owner(l) == pc[l] \notin {"gone", "handoff", "winding"}

Carrier(l) == /\ l \in live /\ l \notin cancelled
              /\ pc[l] = "up" \/ (pc[l] = "handoff" /\ l \notin ready)

\* The loops of a stopped agent are cancelled, and cancelled loops run.
CancelInv == /\ \A l \in cancelled : pc[l] # "gone"
             /\ ~running => \A l \in Loops : pc[l] # "gone" => l \in cancelled

\* At most one loop of the current Start owns the tunnel.
OwnerInv == \A l, k \in Loops \ cancelled : Owner(l) /\ Owner(k) => l = k

\* Only loops in a handoff have a successor or were told to go, and a successor that
\* runs shares the context.
SuccInv ==
    /\ \A l \in Loops : succ[l] # None => pc[l] \in {"handoff", "winding"}
    /\ \A l \in ready : pc[l] \in {"handoff", "winding"}
    /\ \A l, k \in Loops : succ[l] = k /\ pc[k] # "gone" => (l \in cancelled <=> k \in cancelled)

\* A session that is lost before it is announced excuses a gap.
AckedInv == \A l \in Loops \ cancelled : pc[l] = "acked" /\ l \notin live => gapOk

CarrierInv == gapOk \/ \E l \in Loops : Carrier(l)

Inv == TypeOK /\ CancelInv /\ OwnerInv /\ SuccInv /\ AckedInv /\ CarrierInv

-----------------------------------------------------------------------------
LEMMA AgentInit == Init => Inv
<1> SUFFICES ASSUME Init PROVE Inv  OBVIOUS
<1>1. TypeOK
  <2>1. pc \in [Loops -> {"gone"}] /\ pop \in [Loops -> {None}]
        /\ succ \in [Loops -> {None}] /\ holder \in [PoPs -> {None}]
    BY DEF Init
  <2> QED  BY <2>1 DEF Init, TypeOK
<1>2. CancelInv /\ OwnerInv /\ SuccInv /\ AckedInv /\ CarrierInv
  BY DEF Init, CancelInv, OwnerInv, SuccInv, AckedInv, CarrierInv, Owner
<1> QED  BY <1>1, <1>2 DEF Inv

\* A loop that carries nothing ends.
LEMMA EndStep ==
    ASSUME Inv, NEW l \in Loops, end(l), ~Carrier(l),
           UNCHANGED <<running, stopping, status, req, draining, gapOk>>,
           holder' \in [PoPs -> Loops \cup {None}]
    PROVE  Inv'
<1> USE DEF Inv, end
<1>1. TypeOK'  BY DEF TypeOK
<1>2. CancelInv'  BY DEF TypeOK, CancelInv
<1>3. OwnerInv'  BY DEF TypeOK, OwnerInv, Owner
<1>4. SuccInv'
  <2>1. \A k \in Loops : succ'[k] # None => pc'[k] \in {"handoff", "winding"}
    BY DEF TypeOK, SuccInv
  <2>2. \A k \in ready' : pc'[k] \in {"handoff", "winding"}  BY DEF TypeOK, SuccInv
  <2>3. ASSUME NEW m \in Loops, NEW k \in Loops, succ'[m] = k, pc'[k] # "gone"
        PROVE  m \in cancelled' <=> k \in cancelled'
    <3>1. m # l /\ k # l /\ succ[m] = k /\ pc[k] # "gone"
      BY <2>3, AgentAssumption DEF TypeOK
    <3> QED  BY <3>1 DEF SuccInv
  <2> QED  BY <2>1, <2>2, <2>3 DEF SuccInv
<1>5. AckedInv'  BY DEF TypeOK, AckedInv
<1>6. CarrierInv'
  <2>1. ASSUME NEW k \in Loops, Carrier(k) PROVE Carrier(k)'
    <3>1. k # l  BY <2>1
    <3> QED  BY <2>1, <3>1 DEF Carrier, TypeOK
  <2> QED  BY <2>1 DEF CarrierInv
<1> QED  BY <1>1, <1>2, <1>3, <1>4, <1>5, <1>6

\* An attempt that fails, of a loop whose session is not up.
LEMMA AttemptEndsStep ==
    ASSUME Inv, NEW l \in Loops, NEW st \in {"starting", "error"}, attemptEnds(l, st),
           pc[l] \in {"dialing", "registering", "up"}, ~Carrier(l),
           UNCHANGED <<running, stopping, req, draining, gapOk>>,
           holder' \in [PoPs -> Loops \cup {None}]
    PROVE  Inv'
<1>1. CASE l \in cancelled
  BY <1>1, EndStep DEF attemptEnds
<1>2. CASE l \notin cancelled
  <2>0. /\ pc' = [pc EXCEPT ![l] = "backoff"] /\ status' = st
        /\ pop' = [pop EXCEPT ![l] = None]
        /\ owes' = owes \ {l} /\ live' = live \ {l}
        /\ UNCHANGED <<cancelled, spawned, succ, ready>>
    BY <1>2 DEF attemptEnds
  <2> USE DEF Inv
  <2>1. TypeOK'  BY <2>0 DEF TypeOK
  <2>2. CancelInv'  BY <2>0 DEF TypeOK, CancelInv
  <2>3. OwnerInv'  BY <2>0 DEF TypeOK, OwnerInv, Owner
  <2>4. SuccInv'  BY <2>0 DEF TypeOK, SuccInv
  <2>5. AckedInv'  BY <2>0 DEF TypeOK, AckedInv
  <2>6. CarrierInv'
    <3>1. ASSUME NEW k \in Loops, Carrier(k) PROVE Carrier(k)'
      <4>1. k # l  BY <3>1
      <4> QED  BY <2>0, <3>1, <4>1 DEF Carrier, TypeOK
    <3> QED  BY <3>1 DEF CarrierInv
  <2> QED  BY <2>1, <2>2, <2>3, <2>4, <2>5, <2>6
<1> QED  BY <1>1, <1>2

\* A loop that goes from one of its owner's states to another, and is no carrier yet.
LEMMA MoveStep ==
    ASSUME Inv, NEW l \in Loops, sleepEnds(l) \/ (\E p \in PoPs : dial(l, p)) \/ registerOk(l)
    PROVE  Inv'
<1> USE DEF Inv
<1>0. PICK to \in {"dialing", "registering", "acked"} :
          /\ pc[l] \in {"stagger", "backoff", "dialing", "registering"}
          /\ pc' = [pc EXCEPT ![l] = to]
          /\ live' \in {live, live \cup {l}} /\ (to = "acked" <=> live' = live \cup {l})
          /\ UNCHANGED <<running, stopping, status, req, cancelled, spawned, succ, ready, owes,
                         draining, gapOk>>
          /\ pop' \in [Loops -> PoPs \cup {None}] /\ holder' \in [PoPs -> Loops \cup {None}]
  <2>1. l \notin live \/ pc[l] \in Connected  BY DEF TypeOK
  <2>2. CASE sleepEnds(l)
    BY <2>1, <2>2 DEF sleepEnds, agentVars, readyVars, popVars, TypeOK, Connected
  <2>3. CASE \E p \in PoPs : dial(l, p)
    BY <2>1, <2>3 DEF dial, agentVars, readyVars, TypeOK, Connected
  <2>4. CASE registerOk(l)
    BY <2>1, <2>4 DEF registerOk, agentVars, readyVars, TypeOK, Connected
  <2> QED  BY <2>2, <2>3, <2>4
<1>1. TypeOK'  BY <1>0 DEF TypeOK, Connected
<1>2. CancelInv'  BY <1>0 DEF TypeOK, CancelInv
<1>3. OwnerInv'  BY <1>0 DEF TypeOK, OwnerInv, Owner
<1>4. SuccInv'  BY <1>0 DEF TypeOK, SuccInv
<1>5. AckedInv'  BY <1>0 DEF TypeOK, AckedInv
<1>6. CarrierInv'
  <2>1. ASSUME NEW k \in Loops, Carrier(k) PROVE Carrier(k)'
    <3>1. k # l  BY <1>0, <2>1 DEF Carrier
    <3> QED  BY <1>0, <2>1, <3>1 DEF Carrier, TypeOK
  <2> QED  BY <1>0, <2>1 DEF CarrierInv
<1> QED  BY <1>1, <1>2, <1>3, <1>4, <1>5, <1>6

\* The goroutine that Start launches is the only owner: the ones before are cancelled.
LEMMA StartStep == ASSUME Inv, NEW l \in Loops, Start(l)  PROVE Inv'
<1> USE DEF Inv, Start, Unused, loopVars, readyVars, popVars
<1>1. TypeOK'  BY DEF TypeOK, Connected
<1>2. CancelInv'  BY DEF TypeOK, CancelInv
<1>3. OwnerInv'  BY DEF TypeOK, OwnerInv, CancelInv, Owner
<1>4. SuccInv'  BY AgentAssumption DEF TypeOK, SuccInv
<1>5. AckedInv'  BY DEF TypeOK, AckedInv
<1>6. CarrierInv'
  <2>1. ASSUME NEW k \in Loops PROVE ~Carrier(k)
    BY DEF Carrier, CancelInv, TypeOK
  <2> QED  BY <2>1 DEF CarrierInv
<1> QED  BY <1>1, <1>2, <1>3, <1>4, <1>5, <1>6

LEMMA StopStep == ASSUME Inv, Stop  PROVE Inv'
<1> USE DEF Inv, Stop, loopVars, readyVars, popVars
<1>1. TypeOK'  BY DEF TypeOK
<1>2. CancelInv'  BY DEF TypeOK, CancelInv
<1>3. OwnerInv'  BY DEF TypeOK, OwnerInv, Owner
<1>4. SuccInv'  BY AgentAssumption DEF TypeOK, SuccInv
<1>5. AckedInv' /\ CarrierInv'  BY DEF AckedInv, CarrierInv
<1> QED  BY <1>1, <1>2, <1>3, <1>4, <1>5

\* The attempts that end without a session, and the loops that see they are cancelled.
LEMMA FailStep ==
    ASSUME Inv, NEW l \in Loops,
           \/ ctxDone(l) \/ dialFails(l) \/ registerRefused(l) \/ registerFails(l)
           \/ sessionEnds(l) \/ windDown(l)
    PROVE  Inv'
<1> USE DEF agentVars
<1>t. TypeOK  BY DEF Inv
<1>1. CASE ctxDone(l)
  BY <1>t, <1>1, EndStep DEF ctxDone, Carrier, TypeOK
<1>2. CASE windDown(l)
  BY <1>t, <1>2, EndStep DEF windDown, Carrier, TypeOK
<1>3. CASE dialFails(l)
  <2>1. ~Carrier(l)  BY <1>3 DEF dialFails, Carrier
  <2> QED  BY <1>t, <1>3, <2>1, AttemptEndsStep DEF dialFails, TypeOK
<1>4. CASE registerRefused(l)
  <2>1. ~Carrier(l)  BY <1>4 DEF registerRefused, Carrier
  <2> QED  BY <1>t, <1>4, <2>1, AttemptEndsStep DEF registerRefused, TypeOK
<1>5. CASE registerFails(l)
  <2>1. ~Carrier(l)  BY <1>5 DEF registerFails, Carrier
  <2>2. holder' \in [PoPs -> Loops \cup {None}]  BY <1>t, <1>5 DEF registerFails, TypeOK
  <2> QED  BY <1>5, <2>1, <2>2, AttemptEndsStep DEF registerFails
<1>6. CASE sessionEnds(l)
  <2>1. ~Carrier(l)  BY <1>6 DEF sessionEnds, Carrier
  <2>2. PICK st \in {"starting", "error"} : attemptEnds(l, st)  BY <1>6 DEF sessionEnds
  <2> QED  BY <1>t, <1>6, <2>1, <2>2, AttemptEndsStep DEF sessionEnds, TypeOK
<1> QED  BY <1>1, <1>2, <1>3, <1>4, <1>5, <1>6

\* A loop that is connected carries the tunnel before its predecessor may go.
LEMMA ConnectedStep == ASSUME Inv, NEW l \in Loops, connected(l)  PROVE Inv'
<1> USE DEF Inv, connected, agentVars, popVars
<1>1. TypeOK'  BY DEF TypeOK, Connected
<1>2. CancelInv'  BY DEF TypeOK, CancelInv
<1>3. OwnerInv'  BY DEF TypeOK, OwnerInv, Owner
<1>4. SuccInv'
  <2>1. \A k \in Loops : succ'[k] # None => pc'[k] \in {"handoff", "winding"}
    BY DEF TypeOK, SuccInv
  <2>2. ASSUME NEW k \in ready' PROVE pc'[k] \in {"handoff", "winding"}
    <3>1. k \in Loops /\ pc[k] \in {"handoff", "winding"}
      BY AgentAssumption DEF TypeOK, SuccInv
    <3> QED  BY <3>1 DEF TypeOK
  <2>3. \A m, k \in Loops : succ'[m] = k /\ pc'[k] # "gone" => (m \in cancelled' <=> k \in cancelled')
    BY DEF TypeOK, SuccInv
  <2> QED  BY <2>1, <2>2, <2>3 DEF SuccInv
<1>5. AckedInv'
  <2>1. ASSUME NEW k \in Loops \ cancelled, pc'[k] = "acked", k \notin live PROVE gapOk'
    <3>1. k # l /\ pc[k] = "acked"  BY <2>1 DEF TypeOK
    <3>2. l \in cancelled  BY <3>1 DEF OwnerInv, Owner
    <3> QED  BY <2>1, <3>1, <3>2 DEF AckedInv, TypeOK
  <2> QED  BY <2>1 DEF AckedInv
<1>6. CarrierInv'
  <2>1. CASE l \in live /\ l \notin cancelled
    <3>1. Carrier(l)'  BY <2>1 DEF Carrier, TypeOK
    <3> QED  BY <3>1 DEF CarrierInv
  <2>2. CASE l \notin live /\ l \notin cancelled
    BY <2>2 DEF AckedInv, CarrierInv, TypeOK
  <2>3. CASE l \in cancelled
    <3>1. ASSUME NEW k \in Loops, Carrier(k) PROVE Carrier(k)'
      <4>1. k # l /\ succ[k] # l  BY <2>3, <3>1 DEF Carrier, SuccInv
      <4> QED  BY <3>1, <4>1 DEF Carrier, TypeOK
    <3> QED  BY <2>3, <3>1 DEF CarrierInv, TypeOK
  <2> QED  BY <2>1, <2>2, <2>3
<1> QED  BY <1>1, <1>2, <1>3, <1>4, <1>5, <1>6

\* Loop l hands the tunnel to a fresh loop k, and carries it until k is connected.
LEMMA HandoffStep ==
    ASSUME Inv, NEW l \in Loops, NEW k \in Loops, gracefulHandoff(l, k)  PROVE Inv'
<1> USE DEF Inv, gracefulHandoff, Unused, agentVars, popVars
<1>0. k # l /\ k \notin cancelled /\ k \notin live /\ l \notin ready
  BY DEF CancelInv, TypeOK, Connected, SuccInv
<1>1. TypeOK'  BY <1>0 DEF TypeOK, Connected
<1>2. CancelInv'  BY <1>0 DEF TypeOK, CancelInv
<1>3. OwnerInv'
  <2>1. ASSUME NEW m \in Loops, m \notin cancelled', Owner(m)' PROVE l \notin cancelled => m = k
    <3>1. CASE m # k
      BY <1>0, <2>1, <3>1 DEF TypeOK, OwnerInv, Owner
    <3> QED  BY <3>1
  <2>2. ASSUME NEW m \in Loops, m \notin cancelled', Owner(m)', l \in cancelled
        PROVE  Owner(m) /\ m \notin cancelled
    BY <1>0, <2>2 DEF TypeOK, Owner
  <2> QED  BY <2>1, <2>2 DEF OwnerInv
<1>4. SuccInv'
  <2>1. \A m \in Loops : succ'[m] # None => pc'[m] \in {"handoff", "winding"}
    <3>1. succ[k] = None  BY DEF SuccInv, TypeOK
    <3> QED  BY <1>0, <3>1 DEF TypeOK, SuccInv
  <2>2. \A m \in ready' : pc'[m] \in {"handoff", "winding"}  BY <1>0 DEF TypeOK, SuccInv
  <2>3. ASSUME NEW m \in Loops, NEW n \in Loops, succ'[m] = n, pc'[n] # "gone"
        PROVE  m \in cancelled' <=> n \in cancelled'
    <3>1. CASE m = l
      BY <1>0, <2>3, <3>1 DEF TypeOK
    <3>2. CASE m # l
      <4>1. succ[m] = n /\ n # k /\ pc[n] # "gone"  BY <1>0, <2>3, <3>2 DEF TypeOK
      <4>2. m # k  BY <4>1, AgentAssumption DEF SuccInv
      <4> QED  BY <4>1, <4>2 DEF SuccInv
    <3> QED  BY <3>1, <3>2
  <2> QED  BY <2>1, <2>2, <2>3 DEF SuccInv
<1>5. AckedInv'  BY <1>0 DEF TypeOK, AckedInv
<1>6. CarrierInv'
  <2>1. ASSUME NEW m \in Loops, Carrier(m) PROVE Carrier(m)'
    <3>1. m # k  BY <1>0, <2>1 DEF Carrier
    <3> QED  BY <1>0, <2>1, <3>1 DEF Carrier, TypeOK
  <2> QED  BY <2>1 DEF CarrierInv
<1> QED  BY <1>1, <1>2, <1>3, <1>4, <1>5, <1>6

\* A loop goes: it was told to, or it has waited long enough and the gap is excused.
LEMMA GoStep ==
    ASSUME Inv, NEW l \in Loops, successorReady(l) \/ handoffTimeout(l)  PROVE Inv'
<1> USE DEF Inv
<1>0. /\ pc[l] = "handoff" /\ pc' = [pc EXCEPT ![l] = "winding"]
      /\ gapOk' \in BOOLEAN /\ (gapOk => gapOk') /\ (gapOk' \/ l \in ready)
      /\ UNCHANGED <<running, stopping, status, req, cancelled, spawned, succ, ready, owes,
                     pop, live, holder, draining>>
  <2>1. CASE successorReady(l)
    BY <2>1 DEF successorReady, agentVars, readyVars, popVars, TypeOK
  <2>2. CASE handoffTimeout(l)
    BY <2>2 DEF handoffTimeout, agentVars, readyVars, popVars, TypeOK
  <2> QED  BY <2>1, <2>2
<1>1. TypeOK'  BY <1>0 DEF TypeOK, Connected
<1>2. CancelInv'  BY <1>0 DEF TypeOK, CancelInv
<1>3. OwnerInv'  BY <1>0 DEF TypeOK, OwnerInv, Owner
<1>4. SuccInv'  BY <1>0 DEF TypeOK, SuccInv
<1>5. AckedInv'  BY <1>0 DEF TypeOK, AckedInv
<1>6. CarrierInv'
  <2>1. CASE gapOk'  BY <2>1 DEF CarrierInv
  <2>2. CASE ~gapOk'
    <3>1. PICK k \in Loops : Carrier(k)  BY <1>0, <2>2 DEF CarrierInv
    <3>2. k # l  BY <1>0, <2>2, <3>1 DEF Carrier
    <3>3. Carrier(k)'  BY <1>0, <3>1, <3>2 DEF Carrier, TypeOK
    <3> QED  BY <3>3 DEF CarrierInv
  <2> QED  BY <2>1, <2>2
<1> QED  BY <1>1, <1>2, <1>3, <1>4, <1>5, <1>6

\* What the relays and the network do, and the steps that only touch the signal.
LEMMA OutsideStep ==
    ASSUME Inv,
           \/ stopReturns
           \/ \E l \in Loops : requestReconnect(l) \/ sessionLost(l)
           \/ \E p \in PoPs : release(p) \/ drain(p) \/ undrain(p)
           \/ UNCHANGED vars
    PROVE  Inv'
<1> USE DEF Inv
<1>0. /\ UNCHANGED <<running, status, pc, cancelled, spawned, succ, ready, owes, pop>>
      /\ stopping' \in BOOLEAN /\ req' \in BOOLEAN /\ draining' \subseteq PoPs
      /\ holder' \in [PoPs -> Loops \cup {None}]
      /\ \/ UNCHANGED <<live, gapOk>>
         \/ live' \subseteq live /\ gapOk' = TRUE
  <2> USE DEF agentVars, loopVars, readyVars, popVars, TypeOK
  <2>1. CASE stopReturns  BY <2>1 DEF stopReturns
  <2>2. CASE \E l \in Loops : requestReconnect(l)  BY <2>2 DEF requestReconnect
  <2>3. CASE \E l \in Loops : sessionLost(l)  BY <2>3 DEF sessionLost
  <2>4. CASE \E p \in PoPs : release(p)  BY <2>4 DEF release
  <2>5. CASE \E p \in PoPs : drain(p) \/ undrain(p)  BY <2>5 DEF drain, undrain
  <2>6. CASE UNCHANGED vars  BY <2>6 DEF vars
  <2> QED  BY <2>1, <2>2, <2>3, <2>4, <2>5, <2>6
<1>1. TypeOK'  BY <1>0 DEF TypeOK
<1>2. CancelInv' /\ OwnerInv' /\ SuccInv'
  BY <1>0 DEF CancelInv, OwnerInv, Owner, SuccInv
<1>3. AckedInv' /\ CarrierInv'
  BY <1>0 DEF AckedInv, CarrierInv, Carrier
<1> QED  BY <1>1, <1>2, <1>3

LEMMA AgentNext == ASSUME Inv, [Next]_vars  PROVE Inv'
<1>1. CASE \E l \in Loops : Start(l)  BY <1>1, StartStep
<1>2. CASE Stop  BY <1>2, StopStep
<1>3. CASE \E l \in Loops : \/ ctxDone(l) \/ dialFails(l) \/ registerRefused(l)
                            \/ registerFails(l) \/ sessionEnds(l) \/ windDown(l)
  BY <1>3, FailStep
<1>4. CASE \E l \in Loops : sleepEnds(l) \/ registerOk(l) \/ \E p \in PoPs : dial(l, p)
  BY <1>4, MoveStep
<1>5. CASE \E l \in Loops : connected(l)  BY <1>5, ConnectedStep
<1>6. CASE \E l, k \in Loops : gracefulHandoff(l, k)  BY <1>6, HandoffStep
<1>7. CASE \E l \in Loops : successorReady(l) \/ handoffTimeout(l)  BY <1>7, GoStep
<1>8. CASE \/ stopReturns
           \/ \E l \in Loops : requestReconnect(l) \/ sessionLost(l)
           \/ \E p \in PoPs : release(p) \/ drain(p) \/ undrain(p)
           \/ UNCHANGED vars
  BY <1>8, OutsideStep
<1> QED  BY <1>1, <1>2, <1>3, <1>4, <1>5, <1>6, <1>7, <1>8 DEF Next

-----------------------------------------------------------------------------
\* Every reachable state of the supervisor satisfies the inductive invariant.
THEOREM AgentInvariant == Spec => []Inv
BY AgentInit, AgentNext, PTL DEF Spec

\* connectOnce closes its session on every exit: none outlives its goroutine, whatever
\* the order of drains, refusals, faults, Starts and Stops.
THEOREM AgentTypeOK == Spec => []TypeOK
<1>1. Inv => TypeOK  BY DEF Inv
<1> QED  BY AgentInvariant, <1>1, PTL

\* superviseFrom and gracefulHandoff: of the loops of one Start at most one dials,
\* serves or backs off.
THEOREM AgentOneOwner == Spec => []OneOwner
<1>1. Inv => OneOwner
  <2> SUFFICES ASSUME Inv PROVE OneOwner  OBVIOUS
  <2> DEFINE S == {l \in Loops \ cancelled : pc[l] \notin {"gone", "handoff", "winding"}}
  <2>1. \A l, k \in S : l = k  BY DEF Inv, OwnerInv, Owner
  <2>2. CASE S = {}
    <3>1. Cardinality(S) = 0  BY <2>2, FS_EmptySet
    <3> QED  BY <3>1 DEF OneOwner
  <2>3. CASE S # {}
    <3>1. PICK l : S = {l}  BY <2>1, <2>3
    <3>2. Cardinality(S) = 1  BY <3>1, FS_Singleton
    <3> QED  BY <3>2 DEF OneOwner
  <2> QED  BY <2>2, <2>3
<1> QED  BY AgentInvariant, <1>1, PTL

\* gracefulHandoff makes before it breaks: the tunnel has a session from its first
\* connection on, through any number of drains, unless a fault or a Stop takes it.
THEOREM AgentZeroDrop == Spec => []ZeroDrop
<1>1. Inv => ZeroDrop  BY DEF Inv, CarrierInv, Carrier, ZeroDrop
<1> QED  BY AgentInvariant, <1>1, PTL

\* However many loops and PoPs there are, one loop owns the tunnel and a graceful
\* handoff leaves no gap (gracefulHandoff, superviseFrom).
THEOREM AgentHandoffSafe == Spec => []HandoffSafe
BY AgentTypeOK, AgentOneOwner, AgentZeroDrop, PTL DEF HandoffSafe

-----------------------------------------------------------------------------
(***************************************************************************)
(* The reachability adapter: only the holder of a key gets through the     *)
(* handshake, a live box keeps its name and a public connection reaches a  *)
(* box that registered it, and the name found in a ClientHello does not    *)
(* depend on how the hello was cut into reads.                             *)
(***************************************************************************)

(* What the handshakes keep.  Every nonce belongs to the one connection it *)
(* was issued on, and every response that crossed the wire was made by the *)
(* key of the connection whose nonce it signs.                             *)
Stages == Handshaking \cup Through \cup {"answered", "consumed", "refused"}
Sigs == [ik : Iks \cup {"none"}, nonce : Nat, name : Names \cup {"none"}]
Handshakes == [stage : Stages, ik : Iks \cup {"none"}, name : Names \cup {"none"},
               services : SUBSET Services, nonce : Nat, sig : Sigs]

HsTyped == /\ hs \in [Conns -> Handshakes]
           /\ issued \in Nat /\ seen \subseteq Sigs
           /\ order \in Seq(Nat) /\ pending \subseteq Nat
           /\ \A c \in Conns : hs[c].nonce <= issued
Named == \A c \in Conns : hs[c].stage \notin {"new", "refused"} => hs[c].name \in Names
NoncesUsed ==
    \A c \in Conns : /\ hs[c].stage \in {"new", "announced"} => hs[c].nonce = 0
                     /\ hs[c].stage \in {"challenged", "answered", "consumed"} => hs[c].nonce # 0
NoncesDistinct ==
    \A c, d \in Conns : (hs[c].nonce = hs[d].nonce /\ hs[c].nonce # 0) => c = d
SeenSigned == \A s \in seen : s.nonce # 0 /\ \E d \in Conns : hs[d].nonce = s.nonce /\ s.ik = Key[d]
SigSeen == \A c \in Conns : hs[c].stage \in {"answered", "consumed"} => hs[c].sig \in seen
AuthInv == /\ HsTyped /\ Named /\ NoncesUsed /\ NoncesDistinct /\ SeenSigned /\ SigSeen
           /\ AuthSound /\ NoncesBounded

(* The empty table and connections on which nothing was said.              *)
LEMMA AuthInitInv == AuthInit => AuthInv
<1> SUFFICES ASSUME AuthInit PROVE AuthInv OBVIOUS
<1> USE AuthAssumption
<1>1. Fresh \in Handshakes BY DEF Fresh, NoSig, Handshakes, Sigs, Stages, Handshaking
<1>2. HsTyped BY <1>1, SMT DEF HsTyped, AuthInit, Fresh
<1>3. Named /\ NoncesUsed /\ NoncesDistinct /\ SigSeen /\ AuthSound
  BY DEF AuthInit, Fresh, Named, NoncesUsed, NoncesDistinct, SigSeen, AuthSound, Through
<1>4. SeenSigned BY DEF AuthInit, SeenSigned
<1>5. NoncesBounded BY DEF AuthInit, NoncesBounded, ToSet
<1> QED BY <1>2, <1>3, <1>4, <1>5 DEF AuthInv

(* A connection that only moves on to another stage past its answer, or is *)
(* refused, disturbs nothing but what its stage claims.                    *)
LEMMA AdvanceKeeps ==
    ASSUME AuthInv, NEW c \in Conns, NEW s \in Stages, Advance(c, s), UNCHANGED <<order, issued, seen>>,
           pending' \subseteq pending,
           s \in {"new", "announced", "challenged", "answered"} => s = hs[c].stage,
           s = "consumed" => hs[c].stage = "answered",
           s \in Through => hs[c].ik = Key[c] /\ hs[c].name \in Names
    PROVE  AuthInv'
<1> USE DEF AuthInv
<1>1. /\ hs' \in [Conns -> Handshakes]
      /\ hs'[c] = [hs[c] EXCEPT !.stage = s] /\ \A d \in Conns \ {c} : hs'[d] = hs[d]
  BY DEF Advance, HsTyped, Handshakes
<1>2. \A d \in Conns : /\ hs'[d].nonce = hs[d].nonce /\ hs'[d].ik = hs[d].ik /\ hs'[d].name = hs[d].name
                       /\ hs'[d].sig = hs[d].sig
                       /\ hs'[d].stage = IF d = c THEN s ELSE hs[d].stage
  BY <1>1 DEF HsTyped, Handshakes
<1> HIDE DEF AuthInv
<1>3. HsTyped' BY <1>1, <1>2 DEF AuthInv, HsTyped
<1>4. Named' BY <1>2 DEF AuthInv, Named, Stages, Handshaking
<1>5. NoncesUsed' BY <1>2 DEF AuthInv, NoncesUsed
<1>6. NoncesDistinct' BY <1>2 DEF AuthInv, NoncesDistinct
<1>7. SeenSigned' BY <1>2 DEF AuthInv, SeenSigned
<1>8. SigSeen' BY <1>2 DEF AuthInv, SigSeen
<1>9. AuthSound' BY <1>2 DEF AuthInv, AuthSound
<1>10. NoncesBounded' BY DEF AuthInv, NoncesBounded
<1> QED BY <1>3, <1>4, <1>5, <1>6, <1>7, <1>8, <1>9, <1>10 DEF AuthInv

(* The announce, on a connection that holds no nonce yet.                  *)
LEMMA AnnounceKeeps ==
    ASSUME AuthInv, NEW c \in Conns, NEW a \in Announces, read_announce(c, a)
    PROVE  AuthInv'
<1> USE AuthAssumption
<1>0. a \in [ik : Iks, name : Names, services : SUBSET Services] OBVIOUS
<1>1. /\ hs'[c] = [Fresh EXCEPT !.stage = "announced", !.ik = a.ik, !.name = a.name, !.services = a.services]
      /\ \A d \in Conns \ {c} : hs'[d] = hs[d]
      /\ DOMAIN hs' = Conns /\ hs' = [d \in Conns |-> hs'[d]]
      /\ UNCHANGED <<pending, order, issued, seen>>
  BY DEF read_announce, AuthInv, HsTyped
<1>2. hs'[c] = [stage |-> "announced", ik |-> a.ik, name |-> a.name, services |-> a.services,
                nonce |-> 0, sig |-> NoSig]
  BY <1>1 DEF Fresh
<1>2a. NoSig \in Sigs BY DEF NoSig, Sigs
<1>2b. hs'[c] \in Handshakes BY <1>0, <1>2, <1>2a DEF Handshakes, Stages, Handshaking
<1>3. hs'[c].stage = "announced" /\ hs'[c].nonce = 0 /\ hs'[c].name \in Names
  BY <1>0, <1>2
<1>4. hs[c].nonce = 0 /\ hs[c].stage = "new" BY DEF read_announce, AuthInv, NoncesUsed
<1>4a. \A d \in Conns : hs'[d].nonce = hs[d].nonce BY <1>1, <1>3, <1>4
<1>4b. hs \in [Conns -> Handshakes] BY DEF AuthInv, HsTyped
<1>4c. hs' \in [Conns -> Handshakes] BY <1>1, <1>2b, <1>4b
<1>5. HsTyped' BY <1>1, <1>4a, <1>4c DEF AuthInv, HsTyped
<1>6. Named' BY <1>1, <1>3 DEF AuthInv, Named
<1>7. NoncesUsed' BY <1>1, <1>3 DEF AuthInv, NoncesUsed
<1>8. NoncesDistinct' BY <1>4a DEF AuthInv, NoncesDistinct
<1>9. SeenSigned' BY <1>1, <1>3, <1>4 DEF AuthInv, SeenSigned
<1>10. SigSeen' /\ AuthSound' BY <1>1, <1>3 DEF AuthInv, SigSeen, AuthSound, Through
<1>11. NoncesBounded' BY <1>1 DEF AuthInv, NoncesBounded
<1> QED BY <1>5, <1>6, <1>7, <1>8, <1>9, <1>10, <1>11 DEF AuthInv

(* Issuing a nonce keeps the table bounded: at the cap the oldest goes.    *)
LEMMA IssueBounds ==
    ASSUME AuthInv, NEW c \in Conns, issue(c)
    PROVE  NoncesBounded' /\ order' \in Seq(Nat) /\ pending' \subseteq Nat
<1> USE AuthAssumption
<1>0. /\ order \in Seq(Nat) /\ issued + 1 \in Nat /\ pending \subseteq Nat
      /\ Len(order) <= MaxPending /\ \A p \in pending : \E i \in 1..Len(order) : order[i] = p
  BY DEF AuthInv, HsTyped, NoncesBounded, ToSet
<1>1. CASE Len(order) >= MaxPending
  <2>1. /\ order # <<>> /\ order' = Append(Tail(order), issued + 1)
        /\ pending' = (pending \ {Head(order)}) \cup {issued + 1}
    BY <1>0, <1>1 DEF issue, Kept, Evicted
  <2>2. /\ Tail(order) \in Seq(Nat) /\ Len(Tail(order)) = Len(order) - 1
        /\ \A i \in 1..Len(Tail(order)) : Tail(order)[i] = order[i + 1]
        /\ Head(order) = order[1]
    BY <1>0, <2>1
  <2>3. /\ order' \in Seq(Nat) /\ Len(order') = Len(order)
        /\ order'[Len(order)] = issued + 1
        /\ \A i \in 1..(Len(order) - 1) : order'[i] = order[i + 1]
    BY <1>0, <2>1, <2>2
  <2>4. ASSUME NEW p \in pending' PROVE \E i \in 1..Len(order') : order'[i] = p
    <3>1. CASE p = issued + 1 BY <1>0, <1>1, <2>3, <3>1
    <3>2. CASE p # issued + 1
      <4>1. PICK i \in 1..Len(order) : order[i] = p BY <1>0, <2>1, <3>2
      <4>2. i # 1 BY <4>1, <2>1, <2>2, <3>2
      <4>3. i - 1 \in 1..(Len(order) - 1) /\ (i - 1) + 1 = i BY <4>1, <4>2, <1>0
      <4>4. order'[i - 1] = order[(i - 1) + 1] BY <2>3, <4>3
      <4>5. i - 1 \in 1..Len(order') BY <4>3, <2>3, <1>0
      <4> QED BY <4>1, <4>3, <4>4, <4>5
    <3> QED BY <3>1, <3>2
  <2>5. NoncesBounded' BY <1>0, <2>3, <2>4 DEF NoncesBounded, ToSet
  <2>6. pending' \subseteq Nat BY <1>0, <2>1
  <2> QED BY <2>3, <2>5, <2>6
<1>2. CASE ~(Len(order) >= MaxPending)
  <2>1. order' = Append(order, issued + 1) /\ pending' = pending \cup {issued + 1}
    BY <1>2 DEF issue, Kept, Evicted
  <2>2. /\ order' \in Seq(Nat) /\ Len(order') = Len(order) + 1 /\ order'[Len(order) + 1] = issued + 1
        /\ \A i \in 1..Len(order) : order'[i] = order[i]
    BY <1>0, <2>1
  <2>3. Len(order') <= MaxPending BY <1>0, <1>2, <2>2
  <2>4. \A p \in pending' : \E i \in 1..Len(order') : order'[i] = p BY <1>0, <2>1, <2>2
  <2>5. NoncesBounded' BY <2>2, <2>3, <2>4 DEF NoncesBounded, ToSet
  <2>6. pending' \subseteq Nat BY <1>0, <2>1
  <2> QED BY <2>2, <2>5, <2>6
<1> QED BY <1>1, <1>2

(* The challenge: a nonce no connection holds.                             *)
LEMMA IssueKeeps ==
    ASSUME AuthInv, NEW c \in Conns, issue(c)
    PROVE  AuthInv'
<1> USE AuthAssumption
<1>0. issued \in Nat /\ \A d \in Conns : hs[d].nonce \in Nat /\ hs[d].nonce <= issued
  BY DEF AuthInv, HsTyped, Handshakes
<1>0a. hs \in [Conns -> Handshakes] BY DEF AuthInv, HsTyped
<1>0b. /\ hs' = [hs EXCEPT ![c] = [hs[c] EXCEPT !.stage = "challenged", !.nonce = issued + 1]]
       /\ hs[c].stage = "announced" /\ issued' = issued + 1 /\ seen' = seen
  BY <1>0a DEF issue
<1>0c. [hs[c] EXCEPT !.stage = "challenged", !.nonce = issued + 1] \in Handshakes
  <2>1. "challenged" \in Stages BY DEF Stages, Handshaking
  <2>2. hs[c] \in Handshakes /\ issued + 1 \in Nat BY <1>0, <1>0a
  <2> QED BY <2>1, <2>2 DEF Handshakes
<1>1. /\ hs' \in [Conns -> Handshakes] /\ issued' = issued + 1 /\ seen' = seen
      /\ hs'[c] = [hs[c] EXCEPT !.stage = "challenged", !.nonce = issued + 1]
      /\ \A d \in Conns \ {c} : hs'[d] = hs[d]
      /\ hs[c].stage = "announced"
  BY <1>0a, <1>0b, <1>0c
<1>2. /\ hs'[c].nonce = issued + 1 /\ hs'[c].stage = "challenged" /\ hs'[c].name = hs[c].name
      /\ hs[c].nonce = 0
  BY <1>1 DEF AuthInv, NoncesUsed, HsTyped, Handshakes
<1>2a. \A d \in Conns : /\ hs'[d].nonce = IF d = c THEN issued + 1 ELSE hs[d].nonce
                        /\ hs'[d].stage = IF d = c THEN "challenged" ELSE hs[d].stage
  BY <1>1, <1>2
<1>2b. \A d \in Conns : hs'[d].nonce <= issued' BY <1>0, <1>1, <1>2a
<1>3. HsTyped' BY <1>0, <1>1, <1>2b, IssueBounds DEF AuthInv, HsTyped
<1>4. Named' BY <1>1, <1>2 DEF AuthInv, Named
<1>5. NoncesUsed' BY <1>0, <1>2a DEF AuthInv, NoncesUsed
<1>6. NoncesDistinct' BY <1>0, <1>2a DEF AuthInv, NoncesDistinct
<1>7. SeenSigned' BY <1>1, <1>2 DEF AuthInv, SeenSigned
<1>8. SigSeen' /\ AuthSound' BY <1>1, <1>2 DEF AuthInv, SigSeen, AuthSound, Through
<1> QED BY <1>3, <1>4, <1>5, <1>6, <1>7, <1>8, IssueBounds DEF AuthInv

(* The answer: the peer's own signature over its nonce, or an old one.     *)
LEMMA AnswerKeeps ==
    ASSUME AuthInv, NEW c \in Conns, authenticate_as_box(c)
    PROVE  AuthInv'
<1> USE AuthAssumption
<1>1. PICK sig \in seen \cup {sign_domain(c)} :
        hs' = [hs EXCEPT ![c].stage = "answered", ![c].sig = sig] /\ seen' = seen \cup {sig}
  BY DEF authenticate_as_box
<1>2. hs[c].stage = "challenged" /\ hs[c].nonce # 0 /\ UNCHANGED <<pending, order, issued>>
  BY DEF authenticate_as_box, AuthInv, NoncesUsed
<1>3. /\ sig \in Sigs /\ sig.nonce # 0
      /\ \E d \in Conns : hs[d].nonce = sig.nonce /\ sig.ik = Key[d]
  <2>1. CASE sig \in seen BY <2>1 DEF AuthInv, HsTyped, SeenSigned
  <2>2. CASE sig = sign_domain(c)
    BY <2>2, <1>2 DEF sign_domain, AuthInv, HsTyped, Handshakes, Sigs
  <2> QED BY <2>1, <2>2
<1>4. /\ hs' \in [Conns -> Handshakes]
      /\ hs'[c] = [hs[c] EXCEPT !.stage = "answered", !.sig = sig]
      /\ \A d \in Conns \ {c} : hs'[d] = hs[d]
  <2>1. hs \in [Conns -> Handshakes] BY DEF AuthInv, HsTyped
  <2>2. hs' = [hs EXCEPT ![c] = [hs[c] EXCEPT !.stage = "answered", !.sig = sig]] BY <1>1, <2>1
  <2>3. [hs[c] EXCEPT !.stage = "answered", !.sig = sig] \in Handshakes
    BY <1>3, <2>1 DEF Handshakes, Stages
  <2> QED BY <2>1, <2>2, <2>3
<1>5. /\ hs'[c].nonce = hs[c].nonce /\ hs'[c].stage = "answered" /\ hs'[c].name = hs[c].name
      /\ hs'[c].sig = sig
  BY <1>4 DEF AuthInv, HsTyped, Handshakes
<1>6. HsTyped' BY <1>1, <1>2, <1>3, <1>4, <1>5 DEF AuthInv, HsTyped
<1>7. Named' BY <1>2, <1>4, <1>5 DEF AuthInv, Named
<1>8. NoncesUsed' BY <1>2, <1>4, <1>5 DEF AuthInv, NoncesUsed
<1>8a. \A d \in Conns : hs'[d].nonce = hs[d].nonce BY <1>4, <1>5
<1>9. NoncesDistinct' BY <1>8a DEF AuthInv, NoncesDistinct
<1>10. SeenSigned' BY <1>1, <1>3, <1>4, <1>5 DEF AuthInv, SeenSigned
<1>11. SigSeen' BY <1>1, <1>4, <1>5 DEF AuthInv, SigSeen
<1>12. AuthSound' BY <1>4, <1>5 DEF AuthInv, AuthSound, Through
<1>13. NoncesBounded' BY <1>2 DEF AuthInv, NoncesBounded
<1> QED BY <1>6, <1>7, <1>8, <1>9, <1>10, <1>11, <1>12, <1>13 DEF AuthInv

(* Consuming the nonce, which happens whether or not it is still pending.  *)
LEMMA ConsumeKeeps ==
    ASSUME AuthInv, NEW c \in Conns, consume(c)
    PROVE  AuthInv'
<1> DEFINE s == IF hs[c].nonce \in pending THEN "consumed" ELSE "refused"
<1>1. /\ s \in Stages /\ Advance(c, s) /\ UNCHANGED <<order, issued, seen>>
      /\ pending' \subseteq pending /\ hs[c].stage = "answered"
      /\ s \in {"consumed", "refused"}
  BY DEF consume, Stages
<1> HIDE DEF s
<1> QED BY <1>1, AdvanceKeeps DEF Through

(* The signature covers this connection's nonce, so it was made by the key *)
(* that this connection's peer holds.                                      *)
LEMMA VerifyKeeps ==
    ASSUME AuthInv, NEW c \in Conns, verify_domain(c)
    PROVE  AuthInv'
<1> USE AuthAssumption
<1> DEFINE s == IF Verifies(c) THEN "authenticated" ELSE "refused"
<1>1. /\ s \in Stages /\ Advance(c, s) /\ UNCHANGED <<pending, order, issued, seen>>
      /\ hs[c].stage = "consumed" /\ s \in {"authenticated", "refused"}
  BY DEF verify_domain, Stages, Through
<1>2. hs[c].name \in Names BY <1>1 DEF AuthInv, Named
<1>3. ASSUME Verifies(c) PROVE hs[c].ik = Key[c]
  <2>1. hs[c].sig.nonce = hs[c].nonce /\ hs[c].sig.ik = hs[c].ik
    BY <1>3 DEF Verifies
  <2>2. PICK d \in Conns : hs[d].nonce = hs[c].sig.nonce /\ hs[c].sig.ik = Key[d]
    BY <1>1 DEF AuthInv, SigSeen, SeenSigned
  <2>3. hs[c].nonce # 0 BY <1>1 DEF AuthInv, NoncesUsed
  <2>4. d = c BY <2>1, <2>2, <2>3 DEF AuthInv, NoncesDistinct
  <2> QED BY <2>1, <2>2, <2>4
<1>4. s \in Through => hs[c].ik = Key[c] BY <1>3 DEF Through
<1> HIDE DEF s
<1> QED BY <1>1, <1>2, <1>4, AdvanceKeeps

(* The adapter's other steps advance a connection that is through.         *)
LEMMA AuthStepKeeps ==
    ASSUME AuthInv, AuthNext
    PROVE  AuthInv'
<1> PICK c \in Conns :
       \/ \E a \in Announces : read_announce(c, a)
       \/ issue(c) \/ authenticate_as_box(c) \/ consume(c) \/ verify_domain(c) \/ handshake_fails(c)
  BY DEF AuthNext
<1>1. CASE \E a \in Announces : read_announce(c, a) BY <1>1, AnnounceKeeps
<1>2. CASE issue(c) BY <1>2, IssueKeeps
<1>3. CASE authenticate_as_box(c) BY <1>3, AnswerKeeps
<1>4. CASE consume(c) BY <1>4, ConsumeKeeps
<1>5. CASE verify_domain(c) BY <1>5, VerifyKeeps
<1>6. CASE handshake_fails(c)
  BY <1>6, AdvanceKeeps DEF handshake_fails, Stages, Through
<1> QED BY <1>1, <1>2, <1>3, <1>4, <1>5, <1>6
-----------------------------------------------------------------------------
(* What the registry keeps.  An entry is the registration of a connection  *)
(* that is still registered, under its own generation; a registered        *)
(* connection has its entry or was replaced by a later one of its own key. *)
Up == {"registered", "unregistered"}
RegTyped == /\ DOMAIN tunnels \subseteq Names /\ next_generation \in Nat /\ gen \in [Conns -> Nat]
            /\ driver \in [Conns -> {"none", "running", "ended"}]
            /\ \A n \in DOMAIN tunnels : tunnels[n].conn \in Conns
Generations == /\ \A c \in Conns : hs[c].stage \in Up => gen[c] < next_generation
               /\ \A c, d \in Conns : (hs[c].stage \in Up /\ hs[d].stage \in Up /\ gen[c] = gen[d]) => c = d
EntriesRegistered ==
    \A n \in DOMAIN tunnels :
        LET d == tunnels[n].conn
        IN  /\ hs[d].stage = "registered" /\ hs[d].name = n /\ gen[d] = tunnels[n].generation
            /\ hs[d].ik = tunnels[n].owner /\ hs[d].services = tunnels[n].services
Holds(c) == hs[c].name \in DOMAIN tunnels /\ tunnels[hs[c].name].conn = c
RegisteredHold == \A c \in Conns : hs[c].stage = "registered" => Holds(c) \/ Superseded(c)
RegInv == RegTyped /\ Generations /\ EntriesRegistered /\ RegisteredHold

(* A step that leaves the registry and the registered boxes alone.         *)
LEMMA RegistryKept ==
    ASSUME RegInv, UNCHANGED Registry, driver' \in [Conns -> {"none", "running", "ended"}],
           \A c \in Conns : (hs[c].stage \in Up \/ hs'[c].stage \in Up) => hs'[c] = hs[c]
    PROVE  RegInv'
<1>1. tunnels' = tunnels /\ next_generation' = next_generation /\ gen' = gen BY DEF Registry
<1>2. RegTyped' BY <1>1 DEF RegInv, RegTyped
<1>3. Generations' BY <1>1 DEF RegInv, Generations
<1>4. EntriesRegistered' BY <1>1 DEF RegInv, RegTyped, EntriesRegistered, Up
<1>5. RegisteredHold' BY <1>1 DEF RegInv, RegisteredHold, Holds, Superseded, Up
<1> QED BY <1>2, <1>3, <1>4, <1>5 DEF RegInv

(* register: a new generation, which takes the name only from a connection *)
(* of the same key.                                                        *)
LEMMA RegisterKeeps ==
    ASSUME AuthInv, RegInv, NEW c \in Conns, register(c)
    PROVE  RegInv'
<1>0. hs \in [Conns -> Handshakes] BY DEF AuthInv, HsTyped
<1>1. CASE ~Ours(c)
  <2>1. hs' = [hs EXCEPT ![c].stage = "refused"] /\ UNCHANGED Registry /\ driver' = driver
    BY <1>1 DEF register, Advance, Registry
  <2>2. \A d \in Conns \ {c} : hs'[d] = hs[d] BY <2>1, <1>0
  <2>3. hs[c].stage = "spawned" /\ hs'[c].stage = "refused"
    BY <2>1, <1>0 DEF register, Handshakes
  <2> QED BY <2>1, <2>2, <2>3, RegistryKept DEF RegInv, RegTyped, Up
<1>2. CASE Ours(c)
  <2> DEFINE m == hs[c].name
  <2>1. /\ hs' = [hs EXCEPT ![c].stage = "registered"] /\ hs[c].stage = "spawned"
        /\ tunnels' = [n \in DOMAIN tunnels \cup {m} |-> IF n = m THEN Entry(c) ELSE tunnels[n]]
        /\ gen' = [gen EXCEPT ![c] = next_generation] /\ next_generation' = next_generation + 1
        /\ driver' = driver
    BY <1>2 DEF register, Advance
  <2>2. /\ \A d \in Conns \ {c} : hs'[d] = hs[d]
        /\ hs'[c].stage = "registered" /\ hs'[c].name = m /\ hs'[c].ik = hs[c].ik
        /\ hs'[c].services = hs[c].services
    BY <2>1, <1>0 DEF Handshakes
  <2>3. m \in Names BY <2>1 DEF AuthInv, Named
  <2>4. /\ DOMAIN tunnels' = DOMAIN tunnels \cup {m} /\ tunnels'[m] = Entry(c)
        /\ \A n \in DOMAIN tunnels \ {m} : tunnels'[n] = tunnels[n]
    BY <2>1
  <2>5. /\ gen' \in [Conns -> Nat] /\ gen'[c] = next_generation /\ next_generation \in Nat
        /\ \A d \in Conns \ {c} : gen'[d] = gen[d]
    BY <2>1 DEF RegInv, RegTyped
  <2>6. /\ Entry(c).conn = c /\ Entry(c).services = hs[c].services /\ Entry(c).owner = hs[c].ik
        /\ Entry(c).generation = next_generation
    BY DEF Entry
  <2> HIDE DEF m
  <2>7. RegTyped' BY <2>1, <2>3, <2>4, <2>5, <2>6 DEF RegInv, RegTyped
  <2>8. \A d \in Conns \ {c} : hs[d].stage \in Up => gen[d] < next_generation /\ gen[d] \in Nat
    BY DEF RegInv, Generations, RegTyped
  <2>9. Generations'
    <3>1. \A d \in Conns : hs'[d].stage \in Up => gen'[d] < next_generation' BY <2>1, <2>2, <2>5, <2>8
    <3>2. \A d, e \in Conns : (hs'[d].stage \in Up /\ hs'[e].stage \in Up /\ gen'[d] = gen'[e]) => d = e
      BY <2>2, <2>5, <2>8 DEF RegInv, Generations
    <3> QED BY <3>1, <3>2 DEF Generations
  <2>10. \A n \in DOMAIN tunnels : tunnels[n].conn # c BY <2>1 DEF RegInv, EntriesRegistered
  <2>11. EntriesRegistered'
    BY <2>2, <2>4, <2>5, <2>6, <2>10 DEF RegInv, RegTyped, EntriesRegistered
  <2>12. ASSUME NEW d \in Conns, d # c, hs[d].stage = "registered", Superseded(d) PROVE Superseded(d)'
    <3>1. PICK e \in Conns : /\ hs[e].stage \in Up /\ hs[e].name = hs[d].name /\ hs[e].ik = hs[d].ik
                             /\ gen[e] > gen[d]
      BY <2>12 DEF Superseded, Up
    <3>2. e # c BY <3>1, <2>1 DEF Up
    <3> QED BY <3>1, <3>2, <2>2, <2>5, <2>12 DEF Superseded, Up
  <2>13. ASSUME NEW d \in Conns, d # c, hs[d].stage = "registered", Holds(d), hs[d].name = m
         PROVE  Superseded(d)'
    <3>1. hs[d].ik = hs[c].ik
      BY <1>2, <2>13 DEF Ours, Holds, RegInv, EntriesRegistered, m
    <3>2. gen'[c] > gen'[d] BY <2>5, <2>8, <2>13 DEF Up
    <3> QED BY <3>1, <3>2, <2>2, <2>13 DEF Superseded
  <2>14. ASSUME NEW d \in Conns, d # c, hs[d].stage = "registered", Holds(d), hs[d].name # m
         PROVE  Holds(d)'
    BY <2>2, <2>4, <2>14 DEF Holds
  <2>15. Holds(c)' BY <2>2, <2>4, <2>6 DEF Holds
  <2>16. RegisteredHold'
    BY <2>2, <2>12, <2>13, <2>14, <2>15 DEF RegInv, RegisteredHold
  <2> QED BY <2>7, <2>9, <2>11, <2>16 DEF RegInv
<1> QED BY <1>1, <1>2

(* deregister: the generation tells a connection's own entry from that of  *)
(* the one that replaced it.                                               *)
LEMMA DeregisterKeeps ==
    ASSUME AuthInv, RegInv, NEW c \in Conns, deregister(c)
    PROVE  RegInv'
<1>0. hs \in [Conns -> Handshakes] BY DEF AuthInv, HsTyped
<1> DEFINE m == hs[c].name
<1>1. /\ hs' = [hs EXCEPT ![c].stage = "unregistered"] /\ hs[c].stage = "registered"
      /\ tunnels' = IF Mine(c) THEN [n \in DOMAIN tunnels \ {m} |-> tunnels[n]] ELSE tunnels
      /\ gen' = gen /\ next_generation' = next_generation /\ driver' = driver
  BY DEF deregister, Advance
<1>2. /\ \A d \in Conns \ {c} : hs'[d] = hs[d]
      /\ hs'[c].stage = "unregistered" /\ hs'[c].name = m /\ hs'[c].ik = hs[c].ik
  BY <1>1, <1>0 DEF Handshakes
<1>3. Mine(c) => m \in DOMAIN tunnels /\ tunnels[m].conn = c
  BY <1>1 DEF Mine, RegInv, RegTyped, EntriesRegistered, Generations, Up
<1>4. \A n \in DOMAIN tunnels : tunnels[n].conn = c => n = m /\ Mine(c)
  BY DEF Mine, RegInv, EntriesRegistered
<1>5. /\ DOMAIN tunnels' \subseteq DOMAIN tunnels /\ \A n \in DOMAIN tunnels' : tunnels'[n] = tunnels[n]
      /\ \A n \in DOMAIN tunnels : tunnels[n].conn # c => n \in DOMAIN tunnels'
      /\ \A n \in DOMAIN tunnels' : tunnels[n].conn # c
  BY <1>1, <1>3, <1>4
<1> HIDE DEF m
<1>6. RegTyped' BY <1>1, <1>5 DEF RegInv, RegTyped
<1>7. Generations' BY <1>1, <1>2 DEF RegInv, Generations, Up
<1>8. EntriesRegistered' BY <1>1, <1>2, <1>5 DEF RegInv, RegTyped, EntriesRegistered
<1>9. \A d \in Conns \ {c} : Superseded(d) => Superseded(d)'
  BY <1>1, <1>2 DEF Superseded, m
<1>10. \A d \in Conns \ {c} : Holds(d) => Holds(d)' BY <1>2, <1>5 DEF Holds
<1>11. RegisteredHold' BY <1>2, <1>9, <1>10 DEF RegInv, RegisteredHold
<1> QED BY <1>6, <1>7, <1>8, <1>11 DEF RegInv
-----------------------------------------------------------------------------
(* What the public connections keep.  The opens a driver has not answered  *)
(* are exactly those of the clients that wait for it, each once; a routed  *)
(* client's target was registered under its name, with the service.        *)
Routing == {"open", "wait", "replay", "splice"}
Visitors == [stage : Routing \cup {"peek", "closed"}, host : Hosts, buf : Nat,
             target : Conns \cup {NoConn}, services : SUBSET Services, box : Seq(Nat)]
ClientTyped == client \in [Clients -> Visitors] /\ opens \in [Conns -> Seq(Clients)]
OpensWait == \A c \in Conns : \A i \in 1..Len(opens[c]) :
                client[opens[c][i]].stage = "wait" /\ client[opens[c][i]].target = c
OpensOnce == \A c \in Conns : \A i, j \in 1..Len(opens[c]) : opens[c][i] = opens[c][j] => i = j
Queued(k) == \E i \in 1..Len(opens[client[k].target]) : opens[client[k].target][i] = k
WaitsOpen == \A k \in Clients : client[k].stage = "wait" => Queued(k)
RoutedUp(k) == LET c == client[k].target
               IN  /\ c \in Conns /\ hs[c].stage \in Up /\ hs[c].name = Lower[client[k].host]
                   /\ Service \in hs[c].services
Routed == \A k \in Clients : client[k].stage \in Routing => RoutedUp(k)
ClientInv == ClientTyped /\ OpensWait /\ OpensOnce /\ WaitsOpen /\ Routed /\ StreamFaithful

(* A step that leaves the clients alone, and what registered boxes offer.  *)
LEMMA ClientsKept ==
    ASSUME ClientInv, UNCHANGED <<client, opens>>,
           \A c \in Conns : hs[c].stage \in Up =>
               hs'[c].stage \in Up /\ hs'[c].name = hs[c].name /\ hs'[c].services = hs[c].services
    PROVE  ClientInv'
<1>1. Routed' BY DEF ClientInv, Routed, RoutedUp
<1>2. (ClientTyped /\ OpensWait /\ OpensOnce /\ WaitsOpen /\ StreamFaithful)'
  BY DEF ClientInv, ClientTyped, OpensWait, OpensOnce, WaitsOpen, Queued, StreamFaithful
<1> QED BY <1>1, <1>2 DEF ClientInv

(* A step of one client that neither was nor is waiting for a stream.      *)
LEMMA ClientSteps ==
    ASSUME ClientInv, hs' = hs, opens' = opens, NEW k \in Clients, NEW v \in Visitors,
           client' = [client EXCEPT ![k] = v], client[k].stage # "wait", v.stage # "wait",
           v.stage \in Routing => RoutedUp(k)',
           v.stage = "splice" => v.box = [i \in 1..v.buf |-> i]
    PROVE  ClientInv'
<1>1. client'[k] = v /\ \A j \in Clients \ {k} : client'[j] = client[j] BY DEF ClientInv, ClientTyped
<1>2. ClientTyped' BY DEF ClientInv, ClientTyped
<1>3. ASSUME NEW c \in Conns, NEW i \in 1..Len(opens[c])
      PROVE  opens[c][i] \in Clients /\ opens[c][i] # k /\ client[opens[c][i]].target = c
    BY DEF ClientInv, ClientTyped, OpensWait
<1>4. OpensWait' BY <1>1, <1>3 DEF ClientInv, OpensWait
<1>5. OpensOnce' BY DEF ClientInv, OpensOnce
<1>6. WaitsOpen' BY <1>1 DEF ClientInv, WaitsOpen, Queued
<1>7. Routed' BY <1>1 DEF ClientInv, Routed, RoutedUp
<1>8. StreamFaithful' BY <1>1 DEF ClientInv, StreamFaithful
<1> QED BY <1>2, <1>4, <1>5, <1>6, <1>7, <1>8 DEF ClientInv

(* Closing a client that is not waiting.                                   *)
LEMMA CloseKeeps ==
    ASSUME ClientInv, hs' = hs, opens' = opens, NEW k \in Clients, fail_closed(k),
           client[k].stage # "wait"
    PROVE  ClientInv'
<1> DEFINE v == [client[k] EXCEPT !.stage = "closed"]
<1>1. client[k] \in Visitors BY DEF ClientInv, ClientTyped
<1>2. v \in Visitors /\ v.stage = "closed" BY <1>1 DEF Visitors
<1>3. client' = [client EXCEPT ![k] = v] BY DEF fail_closed, Put
<1> HIDE DEF v
<1> QED BY <1>2, <1>3, ClientSteps DEF Routing

(* The numbers up to n, one longer.                                        *)
LEMMA AppendNext ==
    ASSUME NEW n \in Nat
    PROVE  /\ [i \in 1..n |-> i] \in Seq(Nat)
           /\ Append([i \in 1..n |-> i], n + 1) = [i \in 1..(n + 1) |-> i]
OBVIOUS

(* peek_client_hello, lookup, replay, copy_bidirectional, splice_ends.     *)
LEMMA PeekKeeps ==
    ASSUME ClientInv, NEW k \in Clients, peek_client_hello(k)
    PROVE  ClientInv'
<1>0. client[k] \in Visitors BY DEF ClientInv, ClientTyped
<1>1. hs' = hs /\ opens' = opens /\ client[k].stage = "peek"
  BY DEF peek_client_hello, Ingress, authVars
<1>2. CASE fail_closed(k) BY <1>1, <1>2, CloseKeeps
<1>3. CASE \E n \in 1..2 : client' = [client EXCEPT ![k].buf = @ + n]
  <2>1. PICK n \in 1..2 : client' = [client EXCEPT ![k].buf = @ + n] BY <1>3
  <2> DEFINE v == [client[k] EXCEPT !.buf = @ + n]
  <2>2. v \in Visitors /\ v.stage = "peek" BY <1>0, <1>1 DEF Visitors
  <2>3. client' = [client EXCEPT ![k] = v] BY <2>1
  <2> HIDE DEF v
  <2> QED BY <1>1, <2>2, <2>3, ClientSteps DEF Routing
<1> QED BY <1>2, <1>3 DEF peek_client_hello

LEMMA LookupKeeps ==
    ASSUME AuthInv, RegInv, ClientInv, NEW k \in Clients, lookup(k)
    PROVE  ClientInv'
<1> DEFINE n == Lower[client[k].host]
<1>0. client[k] \in Visitors BY DEF ClientInv, ClientTyped
<1>1. hs' = hs /\ opens' = opens /\ client[k].stage = "peek"
  BY DEF lookup, Ingress, authVars
<1>2. CASE ~(n \in DOMAIN tunnels /\ service_allowed(tunnels[n].services))
  <2>1. fail_closed(k) BY <1>2 DEF lookup
  <2> QED BY <1>1, <2>1, CloseKeeps
<1>3. CASE n \in DOMAIN tunnels /\ service_allowed(tunnels[n].services)
  <2> DEFINE d == tunnels[n].conn
             v == [client[k] EXCEPT !.stage = "open", !.target = d, !.services = tunnels[n].services]
  <2>1. client' = [client EXCEPT ![k] = v]
    <3>1. client' = [client EXCEPT ![k].stage = "open", ![k].target = d, ![k].services = tunnels[n].services]
      BY <1>3 DEF lookup
    <3>2. client \in [Clients -> Visitors] BY DEF ClientInv, ClientTyped
    <3> QED BY <3>1, <3>2
  <2>2. /\ d \in Conns /\ hs[d].stage = "registered" /\ hs[d].name = n
        /\ hs[d].services = tunnels[n].services
    BY <1>3 DEF RegInv, RegTyped, EntriesRegistered
  <2>3. hs[d].services \in SUBSET Services BY <2>2 DEF AuthInv, HsTyped, Handshakes
  <2>4. v \in Visitors /\ v.stage = "open" /\ v.target = d /\ v.host = client[k].host
    BY <1>0, <2>2, <2>3 DEF Visitors, Routing
  <2>5. client'[k] = v BY <2>1 DEF ClientInv, ClientTyped
  <2>6. Service \in hs[d].services BY <1>3, <2>2 DEF service_allowed
  <2>7. RoutedUp(k)' BY <1>1, <2>2, <2>4, <2>5, <2>6 DEF RoutedUp, Up
  <2> HIDE DEF v, d
  <2> QED BY <1>1, <2>1, <2>4, <2>7, ClientSteps
<1> QED BY <1>2, <1>3

LEMMA ReplayKeeps ==
    ASSUME ClientInv, NEW k \in Clients, replay(k)
    PROVE  ClientInv'
<1>0. client[k] \in Visitors /\ client \in [Clients -> Visitors] BY DEF ClientInv, ClientTyped
<1>1. hs' = hs /\ opens' = opens /\ client[k].stage = "replay"
  BY DEF replay, Ingress, authVars
<1>2. CASE fail_closed(k) BY <1>1, <1>2, CloseKeeps
<1>3. CASE client' = [client EXCEPT ![k].stage = "splice", ![k].box = Replayed(k)]
  <2> DEFINE v == [client[k] EXCEPT !.stage = "splice", !.box = Replayed(k)]
  <2>1. Replayed(k) \in Seq(Nat) BY <1>0, AppendNext DEF Replayed, Visitors
  <2>2. /\ v \in Visitors /\ v.stage = "splice" /\ v.box = Replayed(k) /\ v.buf = client[k].buf
        /\ v.target = client[k].target /\ v.host = client[k].host
    BY <1>0, <2>1 DEF Visitors, Routing
  <2>3. client' = [client EXCEPT ![k] = v] BY <1>0, <1>3
  <2>4. client'[k] = v BY <1>0, <2>3
  <2>5. RoutedUp(k) BY <1>1 DEF ClientInv, Routed, Routing
  <2>6. RoutedUp(k)' BY <1>1, <2>2, <2>4, <2>5 DEF RoutedUp
  <2>7. v.box = [i \in 1..v.buf |-> i] BY <2>2 DEF Replayed
  <2> HIDE DEF v
  <2> QED BY <1>1, <2>2, <2>3, <2>6, <2>7, ClientSteps
<1> QED BY <1>2, <1>3 DEF replay

LEMMA CopyKeeps ==
    ASSUME ClientInv, NEW k \in Clients, copy_bidirectional(k)
    PROVE  ClientInv'
<1>0. client[k] \in Visitors /\ client \in [Clients -> Visitors] BY DEF ClientInv, ClientTyped
<1>1. hs' = hs /\ opens' = opens /\ client[k].stage = "splice"
  BY DEF copy_bidirectional, Ingress, authVars
<1> DEFINE b == client[k].buf
           v == [client[k] EXCEPT !.buf = b + 1, !.box = Append(client[k].box, b + 1)]
<1>2. b \in Nat /\ client[k].box \in Seq(Nat) BY <1>0 DEF Visitors
<1>3. client[k].box = [i \in 1..b |-> i] BY <1>1 DEF ClientInv, StreamFaithful
<1>4. Append(client[k].box, b + 1) = [i \in 1..(b + 1) |-> i] BY <1>2, <1>3, AppendNext
<1>5. Append(client[k].box, b + 1) \in Seq(Nat) BY <1>2
<1>6. /\ v \in Visitors /\ v.stage = "splice" /\ v.buf = b + 1 /\ v.box = [i \in 1..(b + 1) |-> i]
      /\ v.target = client[k].target /\ v.host = client[k].host
  <2>1. PICK x \in Seq(Nat) : x = Append(client[k].box, b + 1) BY <1>5
  <2>2. PICK n \in Nat : n = b + 1 BY <1>2
  <2>3. v = [client[k] EXCEPT !.buf = n, !.box = x] BY <2>1, <2>2
  <2>4. v \in Visitors /\ v.stage = "splice" /\ v.buf = n /\ v.box = x
        /\ v.target = client[k].target /\ v.host = client[k].host
    BY <1>0, <1>1, <2>3 DEF Visitors
  <2> QED BY <1>4, <2>1, <2>2, <2>4
<1>7. client' = [client EXCEPT ![k] = v] BY <1>0 DEF copy_bidirectional
<1>8. client'[k] = v BY <1>0, <1>7
<1>9. RoutedUp(k) BY <1>1 DEF ClientInv, Routed, Routing
<1>10. RoutedUp(k)' BY <1>1, <1>6, <1>8, <1>9 DEF RoutedUp
<1> HIDE DEF v, b
<1> QED BY <1>1, <1>6, <1>7, <1>10, ClientSteps

(* open_stream: a client that is in no queue joins the one of its target.  *)
LEMMA OpenKeeps ==
    ASSUME ClientInv, NEW k \in Clients, open_stream(k)
    PROVE  ClientInv'
<1> DEFINE c == client[k].target
<1>0. client \in [Clients -> Visitors] /\ opens \in [Conns -> Seq(Clients)] BY DEF ClientInv, ClientTyped
<1>1. hs' = hs /\ client[k].stage = "open" BY DEF open_stream, Ingress, authVars
<1>2. CASE fail_closed(k) /\ opens' = opens BY <1>1, <1>2, CloseKeeps
<1>3. CASE Put(k, "wait") /\ opens' = [opens EXCEPT ![c] = Append(@, k)]
  <2>1. RoutedUp(k) BY <1>1 DEF ClientInv, Routed, Routing
  <2>2. c \in Conns BY <2>1 DEF RoutedUp
  <2>3. /\ client' \in [Clients -> Visitors] /\ client'[k].stage = "wait" /\ client'[k].target = c
        /\ client'[k].host = client[k].host
        /\ \A j \in Clients \ {k} : client'[j] = client[j]
    BY <1>0, <1>3 DEF Put, Visitors, Routing
  <2>4. /\ opens' \in [Conns -> Seq(Clients)] /\ Len(opens'[c]) = Len(opens[c]) + 1
        /\ opens'[c][Len(opens[c]) + 1] = k
        /\ \A i \in 1..Len(opens[c]) : opens'[c][i] = opens[c][i]
        /\ \A d \in Conns \ {c} : opens'[d] = opens[d]
    BY <1>0, <1>3, <2>2
  <2>5. \A d \in Conns : /\ Len(opens[d]) \in Nat
                         /\ \A i \in 1..Len(opens[d]) : opens[d][i] \in Clients /\ opens[d][i] # k
    BY <1>0, <1>1 DEF ClientInv, OpensWait
  <2> HIDE DEF c
  <2>6. ClientTyped' BY <2>3, <2>4 DEF ClientTyped
  <2>7. OpensWait'
    <3>1. SUFFICES ASSUME NEW d \in Conns, NEW i \in 1..Len(opens'[d])
                   PROVE  client'[opens'[d][i]].stage = "wait" /\ client'[opens'[d][i]].target = d
      BY DEF OpensWait
    <3>2. CASE i \in 1..Len(opens[d])
      <4>1. opens'[d][i] = opens[d][i] BY <2>4, <3>2
      <4>2. client'[opens[d][i]] = client[opens[d][i]] BY <2>3, <2>5, <3>2
      <4> QED BY <4>1, <4>2, <3>2 DEF ClientInv, OpensWait
    <3>3. CASE i \notin 1..Len(opens[d])
      <4>1. d = c /\ i = Len(opens[c]) + 1 BY <2>4, <2>5, <3>3
      <4> QED BY <4>1, <2>3, <2>4
    <3> QED BY <3>2, <3>3
  <2>8. OpensOnce' BY <2>4, <2>5 DEF ClientInv, OpensOnce
  <2>9. WaitsOpen'
    <3>1. SUFFICES ASSUME NEW j \in Clients, client'[j].stage = "wait" PROVE Queued(j)'
      BY DEF WaitsOpen
    <3>2. CASE j = k BY <3>2, <2>2, <2>3, <2>4, <2>5 DEF Queued
    <3>3. CASE j # k
      <4>1. client'[j] = client[j] /\ Queued(j) BY <3>1, <3>3, <2>3 DEF ClientInv, WaitsOpen
      <4>2. client[j].target \in Conns BY <4>1, <3>1 DEF ClientInv, Routed, RoutedUp, Routing
      <4>3. PICK i \in 1..Len(opens[client[j].target]) : opens[client[j].target][i] = j
        BY <4>1 DEF Queued
      <4>4. opens'[client[j].target][i] = j /\ i \in 1..Len(opens'[client[j].target])
        BY <4>2, <4>3, <2>4, <2>5
      <4> QED BY <4>1, <4>4 DEF Queued
    <3> QED BY <3>2, <3>3
  <2>10. Routed'
    <3>1. RoutedUp(k)' BY <1>1, <2>1, <2>3 DEF RoutedUp, c
    <3>2. \A j \in Clients \ {k} : client[j].stage \in Routing => RoutedUp(j)'
      BY <1>1, <2>3 DEF ClientInv, Routed, RoutedUp
    <3> QED BY <3>1, <3>2, <2>3 DEF Routed
  <2>11. StreamFaithful' BY <2>3 DEF ClientInv, StreamFaithful
  <2> QED BY <2>6, <2>7, <2>8, <2>9, <2>10, <2>11 DEF ClientInv
<1> QED BY <1>2, <1>3 DEF open_stream

(* poll_new_outbound: the client at the head leaves the queue.             *)
LEMMA PollKeeps ==
    ASSUME ClientInv, NEW c \in Conns, poll_new_outbound(c)
    PROVE  ClientInv'
<1> PICK k : k = Head(opens[c]) OBVIOUS
<1>0. client \in [Clients -> Visitors] /\ opens \in [Conns -> Seq(Clients)] BY DEF ClientInv, ClientTyped
<1>1. hs' = hs /\ opens[c] # <<>> /\ opens' = [opens EXCEPT ![c] = Tail(@)]
  BY DEF poll_new_outbound, authVars
<1>2. PICK s \in {"replay", "closed"} : client' = [client EXCEPT ![k].stage = s]
  BY DEF poll_new_outbound, Put, fail_closed
<1>3. /\ Len(opens[c]) \in Nat \ {0} /\ k = opens[c][1] /\ k \in Clients
      /\ Tail(opens[c]) \in Seq(Clients) /\ Len(Tail(opens[c])) = Len(opens[c]) - 1
      /\ \A i \in 1..(Len(opens[c]) - 1) : Tail(opens[c])[i] = opens[c][i + 1]
  BY <1>0, <1>1
<1>4. /\ opens' \in [Conns -> Seq(Clients)] /\ Len(opens'[c]) = Len(opens[c]) - 1
      /\ \A i \in 1..(Len(opens[c]) - 1) : opens'[c][i] = opens[c][i + 1]
      /\ \A d \in Conns \ {c} : opens'[d] = opens[d]
  BY <1>0, <1>1, <1>3
<1>5. client[k].stage = "wait" /\ client[k].target = c
  <2>1. 1 \in 1..Len(opens[c]) BY <1>3
  <2> QED BY <1>3, <2>1 DEF ClientInv, OpensWait
<1>6. /\ client' \in [Clients -> Visitors] /\ client'[k].stage = s /\ client'[k].target = c
      /\ client'[k].host = client[k].host
      /\ \A j \in Clients \ {k} : client'[j] = client[j]
  <2>1. client[k] \in Visitors /\ k \in Clients BY <1>0, <1>3
  <2>2. PICK v : v = [client[k] EXCEPT !.stage = s] OBVIOUS
  <2>3. client' = [client EXCEPT ![k] = v] BY <1>2, <2>2
  <2>4. v \in Visitors /\ v.stage = s /\ v.target = c /\ v.host = client[k].host
    BY <2>1, <2>2, <1>5 DEF Visitors, Routing
  <2> QED BY <1>0, <2>1, <2>3, <2>4
<1>7. ASSUME NEW d \in Conns, NEW i \in 1..Len(opens'[d])
      PROVE  \E j \in 1..Len(opens[d]) : /\ opens'[d][i] = opens[d][j] /\ opens[d][j] # k
                                         /\ opens[d][j] \in Clients
                                         /\ d = c => j = i + 1
                                         /\ d # c => j = i
  <2>1. CASE d = c
    <3>1. i \in 1..(Len(opens[c]) - 1) /\ i + 1 \in 1..Len(opens[c]) /\ 1 \in 1..Len(opens[c]) /\ i + 1 # 1
      BY <1>3, <1>4, <2>1
    <3>2. opens[c][i + 1] # opens[c][1] BY <3>1 DEF ClientInv, OpensOnce
    <3>3. opens[c][i + 1] \in Clients BY <1>0, <3>1
    <3> QED BY <2>1, <3>1, <3>2, <3>3, <1>3, <1>4
  <2>2. CASE d # c
    <3>1. opens'[d] = opens[d] BY <1>4, <2>2
    <3>2. opens[d][i] \in Clients BY <1>0, <3>1
    <3>3. opens[d][i] # k BY <1>5, <3>1, <2>2 DEF ClientInv, OpensWait
    <3> QED BY <2>2, <3>1, <3>2, <3>3
  <2> QED BY <2>1, <2>2
<1>8. ClientTyped' BY <1>4, <1>6 DEF ClientTyped
<1>9. OpensWait'
  <2>1. SUFFICES ASSUME NEW d \in Conns, NEW i \in 1..Len(opens'[d])
                 PROVE  client'[opens'[d][i]].stage = "wait" /\ client'[opens'[d][i]].target = d
    BY DEF OpensWait
  <2>2. PICK j \in 1..Len(opens[d]) : opens'[d][i] = opens[d][j] /\ opens[d][j] # k /\ opens[d][j] \in Clients
    BY <1>7
  <2> QED BY <2>2, <1>6 DEF ClientInv, OpensWait
<1>10. OpensOnce'
  <2>1. SUFFICES ASSUME NEW d \in Conns, NEW i \in 1..Len(opens'[d]), NEW l \in 1..Len(opens'[d]),
                        opens'[d][i] = opens'[d][l]
                 PROVE  i = l
    BY DEF OpensOnce
  <2>2. PICK j \in 1..Len(opens[d]) : opens'[d][i] = opens[d][j] /\ (d = c => j = i + 1) /\ (d # c => j = i)
    BY <1>7
  <2>3. PICK m \in 1..Len(opens[d]) : opens'[d][l] = opens[d][m] /\ (d = c => m = l + 1) /\ (d # c => m = l)
    BY <1>7
  <2>4. j = m BY <2>1, <2>2, <2>3 DEF ClientInv, OpensOnce
  <2> QED BY <2>2, <2>3, <2>4
<1>11. WaitsOpen'
  <2>1. SUFFICES ASSUME NEW j \in Clients, client'[j].stage = "wait" PROVE Queued(j)'
    BY DEF WaitsOpen
  <2>2. j # k /\ client'[j] = client[j] BY <2>1, <1>2, <1>6
  <2>3. PICK i \in 1..Len(opens[client[j].target]) : opens[client[j].target][i] = j
    BY <2>1, <2>2 DEF ClientInv, WaitsOpen, Queued
  <2>4. client[j].target \in Conns BY <2>1, <2>2 DEF ClientInv, Routed, RoutedUp, Routing
  <2>5. CASE client[j].target = c
    <3>1. i # 1 BY <2>2, <2>3, <2>5, <1>3
    <3>2. i - 1 \in 1..(Len(opens[c]) - 1) /\ (i - 1) + 1 = i BY <3>1, <2>3, <2>5, <1>3
    <3>3. opens'[c][i - 1] = j BY <3>2, <1>4, <2>3, <2>5
    <3> QED BY <3>2, <3>3, <2>2, <2>5, <1>4 DEF Queued
  <2>6. CASE client[j].target # c BY <2>2, <2>3, <2>4, <2>6, <1>4 DEF Queued
  <2> QED BY <2>5, <2>6
<1>12. Routed'
  <2>1. RoutedUp(k) BY <1>3, <1>5 DEF ClientInv, Routed, Routing
  <2>2. RoutedUp(k)' BY <2>1, <1>1, <1>5, <1>6 DEF RoutedUp
  <2>3. \A j \in Clients \ {k} : client[j].stage \in Routing => RoutedUp(j)'
    BY <1>1, <1>6 DEF ClientInv, Routed, RoutedUp
  <2> QED BY <2>2, <2>3, <1>6 DEF Routed
<1>13. StreamFaithful' BY <1>2, <1>6 DEF ClientInv, StreamFaithful
<1> QED BY <1>8, <1>9, <1>10, <1>11, <1>12, <1>13 DEF ClientInv

(* connection_ends: every client that waits for this driver is closed.     *)
LEMMA EndsKeeps ==
    ASSUME ClientInv, NEW c \in Conns, connection_ends(c)
    PROVE  ClientInv'
<1>0. client \in [Clients -> Visitors] /\ opens \in [Conns -> Seq(Clients)] BY DEF ClientInv, ClientTyped
<1>1. /\ hs' = hs /\ opens' = [opens EXCEPT ![c] = <<>>]
      /\ client' = [k \in Clients |-> IF k \in ToSet(opens[c]) THEN [client[k] EXCEPT !.stage = "closed"]
                                      ELSE client[k]]
  BY DEF connection_ends, authVars
<1>2. /\ opens' \in [Conns -> Seq(Clients)] /\ Len(opens'[c]) = 0
      /\ \A d \in Conns \ {c} : opens'[d] = opens[d]
  BY <1>0, <1>1
<1>3. \A k \in Clients : k \in ToSet(opens[c]) <=> \E i \in 1..Len(opens[c]) : opens[c][i] = k
  BY <1>0 DEF ToSet
<1>4. ASSUME NEW k \in Clients
      PROVE  /\ client'[k] \in Visitors /\ client'[k].stage \in {"closed", client[k].stage}
             /\ client'[k].stage # "closed" => client'[k] = client[k] /\ k \notin ToSet(opens[c])
             /\ k \notin ToSet(opens[c]) => client'[k] = client[k]
  <2>1. CASE k \in ToSet(opens[c])
    <3>1. client[k] \in Visitors /\ client'[k] = [client[k] EXCEPT !.stage = "closed"] BY <2>1, <1>0, <1>1
    <3> QED BY <2>1, <3>1 DEF Visitors
  <2>2. CASE k \notin ToSet(opens[c]) BY <2>2, <1>0, <1>1
  <2> QED BY <2>1, <2>2
<1>5. ClientTyped' BY <1>1, <1>2, <1>4 DEF ClientTyped
<1>6. OpensWait'
  <2>1. SUFFICES ASSUME NEW d \in Conns, NEW i \in 1..Len(opens'[d])
                 PROVE  client'[opens'[d][i]].stage = "wait" /\ client'[opens'[d][i]].target = d
    BY DEF OpensWait
  <2>2. d # c /\ opens'[d] = opens[d] BY <1>2
  <2>3. opens[d][i] \in Clients BY <1>0, <2>2
  <2>4. client[opens[d][i]].stage = "wait" /\ client[opens[d][i]].target = d
    BY <2>2 DEF ClientInv, OpensWait
  <2>5. opens[d][i] \notin ToSet(opens[c])
    <3>1. SUFFICES ASSUME opens[d][i] \in ToSet(opens[c]) PROVE FALSE OBVIOUS
    <3>2. PICK j \in 1..Len(opens[c]) : opens[c][j] = opens[d][i] BY <1>3, <2>3, <3>1
    <3>3. client[opens[c][j]].target = c BY DEF ClientInv, OpensWait
    <3> QED BY <3>2, <3>3, <2>2, <2>4
  <2> QED BY <2>2, <2>3, <2>4, <2>5, <1>4
<1>7. OpensOnce' BY <1>2 DEF ClientInv, OpensOnce
<1>8. WaitsOpen'
  <2>1. SUFFICES ASSUME NEW k \in Clients, client'[k].stage = "wait" PROVE Queued(k)'
    BY DEF WaitsOpen
  <2>2. client'[k] = client[k] /\ k \notin ToSet(opens[c]) BY <1>4, <2>1
  <2>3. Queued(k) /\ client[k].target \in Conns
    BY <2>1, <2>2 DEF ClientInv, WaitsOpen, Routed, RoutedUp, Routing
  <2>4. client[k].target # c BY <2>2, <2>3, <1>3 DEF Queued
  <2> QED BY <2>2, <2>3, <2>4, <1>2 DEF Queued
<1>9. Routed'
  <2>1. SUFFICES ASSUME NEW k \in Clients, client'[k].stage \in Routing PROVE RoutedUp(k)' BY DEF Routed
  <2>2. client'[k] = client[k] BY <1>4, <2>1 DEF Routing
  <2> QED BY <1>1, <2>1, <2>2 DEF ClientInv, Routed, RoutedUp
<1>10. StreamFaithful' BY <1>4 DEF ClientInv, StreamFaithful
<1> QED BY <1>5, <1>6, <1>7, <1>8, <1>9, <1>10 DEF ClientInv

-----------------------------------------------------------------------------
(* The adapter: the handshake, the registry and the public connections.    *)
AdapterInv == AuthInv /\ RegInv /\ ClientInv

LEMMA AdapterInitInv == AuthInit /\ ReachInit => AdapterInv
<1> SUFFICES ASSUME AuthInit, ReachInit PROVE AdapterInv OBVIOUS
<1>1. AuthInv BY AuthInitInv
<1>2. \A c \in Conns : hs[c].stage = "new" BY DEF AuthInit, Fresh
<1>3. RegInv
  BY <1>2 DEF ReachInit, RegInv, RegTyped, Generations, EntriesRegistered, RegisteredHold, Up
<1>4. \A h \in Hosts : Visitor(h) \in Visitors /\ Visitor(h).stage = "peek"
  BY DEF Visitor, Visitors, Routing
<1>5. ClientTyped /\ \A k \in Clients : client[k].stage = "peek"
  BY <1>4 DEF ReachInit, ClientTyped
<1>6. ClientInv
  BY <1>5 DEF ReachInit, ClientInv, OpensWait, OpensOnce, WaitsOpen, Routed, Routing, StreamFaithful
<1> QED BY <1>1, <1>3, <1>6 DEF AdapterInv

(* A handshake step leaves the connections that are through alone.         *)
LEMMA AuthLeavesThrough ==
    ASSUME AuthInv, AuthNext, NEW d \in Conns, hs[d].stage \in Up \/ hs'[d].stage \in Up
    PROVE  hs'[d] = hs[d]
<1>0. hs \in [Conns -> Handshakes] BY DEF AuthInv, HsTyped
<1> PICK c \in Conns :
       \/ \E a \in Announces : read_announce(c, a)
       \/ issue(c) \/ authenticate_as_box(c) \/ consume(c) \/ verify_domain(c) \/ handshake_fails(c)
  BY DEF AuthNext
<1>1. (\A e \in Conns \ {c} : hs'[e] = hs[e]) /\ hs[c].stage \notin Up /\ hs'[c].stage \notin Up
  <2>1. CASE \E a \in Announces : read_announce(c, a)
    <3>1. PICK a \in Announces : read_announce(c, a) BY <2>1
    <3>2. hs'[c] = [Fresh EXCEPT !.stage = "announced", !.ik = a.ik, !.name = a.name, !.services = a.services]
      BY <3>1, <1>0 DEF read_announce
    <3>3. hs'[c].stage = "announced" BY <3>2 DEF Fresh
    <3>4. hs[c].stage = "new" /\ \A e \in Conns \ {c} : hs'[e] = hs[e] BY <3>1, <1>0 DEF read_announce
    <3> QED BY <3>3, <3>4 DEF Up
  <2>2. CASE issue(c) BY <2>2, <1>0 DEF issue, Up, Handshakes
  <2>3. CASE authenticate_as_box(c)
    <3>1. PICK sig : hs' = [hs EXCEPT ![c].stage = "answered", ![c].sig = sig]
      BY <2>3 DEF authenticate_as_box
    <3>2. hs'[c].stage = "answered" /\ \A e \in Conns \ {c} : hs'[e] = hs[e] BY <3>1, <1>0 DEF Handshakes
    <3> QED BY <2>3, <3>2 DEF authenticate_as_box, Up
  <2>4. CASE consume(c) BY <2>4, <1>0 DEF consume, Advance, Up, Handshakes
  <2>5. CASE verify_domain(c)
    <3>1. PICK s \in {"authenticated", "refused"} : Advance(c, s) BY <2>5 DEF verify_domain
    <3> QED BY <2>5, <3>1, <1>0 DEF verify_domain, Advance, Up, Handshakes
  <2>6. CASE handshake_fails(c) BY <2>6, <1>0 DEF handshake_fails, Handshaking, Advance, Up, Handshakes
  <2> QED BY <2>1, <2>2, <2>3, <2>4, <2>5, <2>6
<1> QED BY <1>1

(* spawn, register and deregister only advance a connection that is        *)
(* through, so the handshake's invariant and the clients' stay.            *)
LEMMA BoxStepKeeps ==
    ASSUME AdapterInv, NEW c \in Conns, spawn(c) \/ register(c) \/ deregister(c)
    PROVE  AdapterInv'
<1> USE DEF AdapterInv
<1>0. hs \in [Conns -> Handshakes] BY DEF AuthInv, HsTyped
<1>1. PICK s \in {"spawned", "registered", "refused", "unregistered"} :
         /\ Advance(c, s) /\ UNCHANGED <<pending, order, issued, seen, client, opens>>
         /\ hs[c].stage \in Through /\ (hs[c].stage \in Up => s \in Up)
  BY DEF spawn, register, deregister, Up, Through
<1>2. hs[c].ik = Key[c] /\ hs[c].name \in Names BY <1>1 DEF AuthInv, AuthSound, Named, Through
<1>3. AuthInv' BY <1>1, <1>2, AdvanceKeeps DEF Stages, Through
<1>4. /\ \A d \in Conns \ {c} : hs'[d] = hs[d]
      /\ hs'[c].stage = s /\ hs'[c].name = hs[c].name /\ hs'[c].services = hs[c].services
  BY <1>0, <1>1 DEF Advance, Handshakes
<1>5. ClientInv' BY <1>1, <1>4, ClientsKept
<1>6. RegInv'
  <2>1. CASE spawn(c)
    <3>1. UNCHANGED Registry /\ driver' \in [Conns -> {"none", "running", "ended"}]
      BY <2>1 DEF spawn, Registry, RegInv, RegTyped
    <3>2. hs[c].stage = "authenticated" /\ hs'[c].stage = "spawned"
      BY <2>1, <1>0 DEF spawn, Advance, Handshakes
    <3> QED BY <3>1, <3>2, <1>4, RegistryKept DEF Up
  <2>2. CASE register(c) BY <2>2, RegisterKeeps
  <2>3. CASE deregister(c) BY <2>3, DeregisterKeeps
  <2> QED BY <2>1, <2>2, <2>3
<1> QED BY <1>3, <1>5, <1>6

(* A step that leaves the handshakes and the registry alone.               *)
LEMMA AuthUnchanged ==
    ASSUME AuthInv, UNCHANGED authVars PROVE AuthInv'
BY DEF AuthInv, authVars, HsTyped, Named, NoncesUsed, NoncesDistinct, SeenSigned, SigSeen, AuthSound,
       NoncesBounded

LEMMA AdapterStepKeeps ==
    ASSUME AdapterInv, [ReachNext]_<<authVars, reachVars>>
    PROVE  AdapterInv'
<1> USE DEF AdapterInv
<1>0. driver \in [Conns -> {"none", "running", "ended"}] BY DEF RegInv, RegTyped
<1>1. CASE AuthNext /\ UNCHANGED reachVars
  <2>1. AuthInv' BY <1>1, AuthStepKeeps
  <2>2. \A d \in Conns : (hs[d].stage \in Up \/ hs'[d].stage \in Up) => hs'[d] = hs[d]
    BY <1>1, AuthLeavesThrough
  <2>3. RegInv' BY <1>0, <1>1, <2>2, RegistryKept DEF reachVars, Registry
  <2>4. ClientInv' BY <1>1, <2>2, ClientsKept DEF reachVars
  <2> QED BY <2>1, <2>3, <2>4
<1>2. ASSUME NEW c \in Conns, spawn(c) \/ register(c) \/ deregister(c) PROVE AdapterInv'
  BY <1>2, BoxStepKeeps
<1>3. ASSUME UNCHANGED authVars, UNCHANGED Registry, driver' \in [Conns -> {"none", "running", "ended"}], ClientInv'
      PROVE  AdapterInv'
  <2>1. hs' = hs BY <1>3 DEF authVars
  <2> QED BY <1>3, <2>1, AuthUnchanged, RegistryKept
<1>4. ASSUME NEW c \in Conns, poll_new_outbound(c) PROVE AdapterInv'
  <2>1. ClientInv' BY <1>4, PollKeeps
  <2> QED BY <1>0, <1>3, <1>4, <2>1 DEF poll_new_outbound
<1>5. ASSUME NEW c \in Conns, connection_ends(c) PROVE AdapterInv'
  <2>1. ClientInv' BY <1>5, EndsKeeps
  <2> QED BY <1>0, <1>3, <1>5, <2>1 DEF connection_ends
<1>6. ASSUME NEW k \in Clients,
             \/ peek_client_hello(k) \/ lookup(k) \/ open_stream(k)
             \/ replay(k) \/ copy_bidirectional(k) \/ splice_ends(k)
      PROVE  AdapterInv'
  <2>1. Ingress
    BY <1>6 DEF peek_client_hello, lookup, open_stream, replay, copy_bidirectional, splice_ends
  <2>2. ClientInv'
    <3>1. CASE splice_ends(k) BY <3>1, CloseKeeps DEF splice_ends, Ingress, authVars
    <3> QED BY <1>6, <3>1, PeekKeeps, LookupKeeps, OpenKeeps, ReplayKeeps, CopyKeeps
  <2> QED BY <1>0, <1>3, <2>1, <2>2 DEF Ingress
<1>7. CASE UNCHANGED <<authVars, reachVars>>
  <2>1. UNCHANGED authVars /\ UNCHANGED Registry /\ driver' = driver /\ UNCHANGED <<client, opens>> /\ hs' = hs
    BY <1>7 DEF reachVars, Registry, authVars
  <2>2. ClientInv' BY <2>1, ClientsKept
  <2> QED BY <1>0, <1>3, <2>1, <2>2
<1> QED BY <1>1, <1>2, <1>4, <1>5, <1>6, <1>7 DEF ReachNext

(* The inductive invariant of the adapter.                                 *)
THEOREM AdapterInvHolds == AdapterSpec => []AdapterInv
BY AdapterInitInv, AdapterStepKeeps, PTL DEF AdapterSpec

(* Whoever is through the handshake holds the key it claimed, and the      *)
(* nonces awaited are bounded (auth.rs).                                   *)
THEOREM BoxesAreAuthentic == AdapterSpec => []BoxesAuthentic
<1>1. AdapterInv => BoxesAuthentic
  <2> SUFFICES ASSUME AdapterInv PROVE AuthTypeOK /\ AuthSound /\ NoncesBounded BY DEF BoxesAuthentic
  <2>1. AuthTypeOK BY DEF AdapterInv, AuthInv, HsTyped, Handshakes, Stages, AuthTypeOK
  <2> QED BY <2>1 DEF AdapterInv, AuthInv
<1> QED BY <1>1, AdapterInvHolds, PTL

(* A live box keeps its name, a public connection reaches a box that       *)
(* registered the name it asked for, with its bytes in order from the      *)
(* first (tunnel.rs, ingress.rs).                                          *)
THEOREM RoutingIsSafe == AdapterSpec => []RoutingSafe
<1>1. AdapterInv => RoutingSafe
  <2> SUFFICES ASSUME AdapterInv PROVE ReachTypeOK /\ LiveKeepsName /\ RoutedToOwner /\ StreamFaithful
    BY DEF RoutingSafe
  <2> USE DEF AdapterInv
  <2>1. ReachTypeOK
    <3>1. /\ DOMAIN tunnels \subseteq Names
          /\ \A n \in DOMAIN tunnels : tunnels[n].conn \in Conns /\ tunnels[n].generation < next_generation
      BY DEF RegInv, RegTyped, EntriesRegistered, Generations, Up
    <3>2. \A c \in Conns : driver[c] \in {"none", "running", "ended"} BY DEF RegInv, RegTyped
    <3>3. \A k \in Clients : client[k].stage \in {"peek", "open", "wait", "replay", "splice", "closed"}
      BY DEF ClientInv, ClientTyped, Visitors, Routing
    <3>4. \A c \in Conns, k \in Clients : k \in ToSet(opens[c]) <=> \E i \in 1..Len(opens[c]) : opens[c][i] = k
      BY DEF ClientInv, ClientTyped, ToSet
    <3>5. \A k \in Clients : client[k].stage = "wait" => \E c \in Conns : k \in ToSet(opens[c])
      BY <3>4 DEF ClientInv, WaitsOpen, Queued, Routed, RoutedUp, Routing
    <3>6. \A k \in Clients : (\E c \in Conns : k \in ToSet(opens[c])) => client[k].stage = "wait"
      BY <3>4 DEF ClientInv, OpensWait
    <3> QED BY <3>1, <3>2, <3>3, <3>5, <3>6 DEF ReachTypeOK
  <2>2. LiveKeepsName BY DEF RegInv, RegisteredHold, Holds, LiveKeepsName
  <2>3. RoutedToOwner
    BY DEF ClientInv, Routed, RoutedUp, Routing, Up, RoutedToOwner, AuthInv, AuthSound, Through
  <2> QED BY <2>1, <2>2, <2>3 DEF ClientInv
<1> QED BY <1>1, AdapterInvHolds, PTL
-----------------------------------------------------------------------------
(* Where the walk of a list stops, and that all before it was passed.      *)
LEMMA FirstStops ==
    ASSUME NEW S, S \subseteq Nat, S # {}
    PROVE  First(S) \in S /\ \A j \in S : First(S) <= j
<1>1. \E i \in S : \A j \in S : i <= j BY Minimum
<1> QED BY <1>1 DEF First

(* The host name the parser returns is the first of its list.              *)
LEMMA NameFound ==
    ASSUME NEW names, IsList(names), \A i \in DOMAIN names : IsEntry(names[i]),
           server_name(names) \notin Errors
    PROVE  \E i \in DOMAIN names :
             /\ names[i].host /\ names[i].name = server_name(names)
             /\ \A j \in 1..(i - 1) : ~names[j].host /\ names[j].whole
<1> DEFINE stops == Stops(names, {i \in DOMAIN names : names[i].host})
           m == First(stops)
<1>1. stops \subseteq Nat /\ stops \subseteq DOMAIN names BY DEF Stops, IsList
<1>2. stops # {} BY DEF server_name, Errors
<1>3. m \in stops /\ \A j \in stops : m <= j BY <1>1, <1>2, FirstStops
<1>4. m \in DOMAIN names /\ m \in 1..Len(names) /\ Len(names) \in Nat BY <1>1, <1>3 DEF IsList
<1>5. names[m].whole /\ server_name(names) = names[m].name
  <2>1. ASSUME ~names[m].whole PROVE FALSE
    <3>1. server_name(names) = "malformed" BY <1>2, <1>4, <2>1 DEF server_name, IsEntry
    <3> QED BY <3>1 DEF Errors
  <2>2. names[m].whole BY <2>1
  <2> QED BY <1>2, <1>4, <2>2 DEF server_name, IsEntry
<1>6. names[m].host BY <1>3, <1>5 DEF Stops
<1>7. \A j \in 1..(m - 1) : j \in DOMAIN names /\ j \notin stops BY <1>3, <1>4 DEF IsList
<1>8. \A j \in 1..(m - 1) : ~names[j].host /\ names[j].whole BY <1>7 DEF Stops
<1> QED BY <1>4, <1>5, <1>6, <1>8

(* The extension the parser takes it from is the first server_name one.    *)
LEMMA ExtensionFound ==
    ASSUME NEW exts, IsList(exts), \A i \in DOMAIN exts : IsExtension(exts[i]),
           NEW e \in DOMAIN exts, exts[e].sni, \A d \in 1..(e - 1) : ~exts[d].sni,
           sni_extension(exts) \notin Errors
    PROVE  /\ \A d \in 1..e : exts[d].whole
           /\ sni_extension(exts) = server_name(exts[e].names)
<1> DEFINE stops == Stops(exts, {i \in DOMAIN exts : exts[i].sni})
           m == First(stops)
<1>1. stops \subseteq Nat /\ stops \subseteq DOMAIN exts BY DEF Stops, IsList
<1>2. e \in stops BY DEF Stops
<1>3. m \in stops /\ \A j \in stops : m <= j BY <1>1, <1>2, FirstStops
<1>4. m \in DOMAIN exts /\ m \in 1..Len(exts) /\ Len(exts) \in Nat /\ e \in 1..Len(exts) /\ m <= e
  BY <1>1, <1>2, <1>3 DEF IsList
<1>5. exts[m].whole /\ sni_extension(exts) = server_name(exts[m].names)
  <2>1. ASSUME ~exts[m].whole PROVE FALSE
    <3>1. sni_extension(exts) = "malformed" BY <1>2, <1>4, <2>1 DEF sni_extension, IsExtension
    <3> QED BY <3>1 DEF Errors
  <2>2. exts[m].whole BY <2>1
  <2> QED BY <1>2, <1>4, <2>2 DEF sni_extension, IsExtension
<1>6. m = e
  <2>1. ASSUME m # e PROVE FALSE
    <3>1. m \in 1..(e - 1) BY <1>4, <2>1
    <3> QED BY <3>1, <1>3, <1>5 DEF Stops
  <2> QED BY <2>1
<1>7. ASSUME NEW d \in 1..e PROVE exts[d].whole
  <2>1. CASE d = e BY <2>1, <1>5, <1>6
  <2>2. CASE d # e
    <3>1. d \in DOMAIN exts /\ d \notin stops BY <1>3, <1>4, <1>6, <2>2 DEF IsList
    <3> QED BY <3>1 DEF Stops
  <2> QED BY <2>1, <2>2
<1> QED BY <1>5, <1>6, <1>7

(* What the parser returned is what some prefix of the hello says, and it  *)
(* gave up only on a prefix that says nothing yet.                         *)
SniInv == /\ hello \in Hellos /\ have \in Nat
          /\ \/ verdict \in {"reading", "eof"}
             \/ verdict = "too_large" /\ try_parse(hello, have) = "incomplete" /\ have >= MaxHello
             \/ verdict = try_parse(hello, have) /\ verdict # "incomplete"

(* More bytes do not change what a prefix that is long enough says.        *)
LEMMA PrefixEnough ==
    ASSUME NEW h \in Hellos, NEW n \in Nat, try_parse(h, n) # "incomplete"
    PROVE  try_parse(h, n) = Whole(h)
<1> USE SniAssumption
<1>1. /\ h.handshake \in BOOLEAN /\ h.len \in Nat /\ Header \in Nat /\ MaxRecord \in Nat
      /\ Header + h.len \in Nat /\ Header + h.len >= Header
  OBVIOUS
<1>2. n >= Header BY <1>1 DEF try_parse
<1>3. CASE ~h.handshake BY <1>1, <1>2, <1>3 DEF try_parse, Whole
<1>4. CASE h.handshake /\ (h.len = 0 \/ h.len > MaxRecord) BY <1>1, <1>2, <1>4 DEF try_parse, Whole
<1>5. CASE h.handshake /\ ~(h.len = 0 \/ h.len > MaxRecord)
  <2>1. try_parse(h, n) = IF n < Header + h.len THEN "incomplete" ELSE parse_client_hello_body(h)
    BY <1>1, <1>2, <1>5 DEF try_parse
  <2>2. Whole(h) = parse_client_hello_body(h) BY <1>1, <1>5 DEF try_parse, Whole
  <2> QED BY <2>1, <2>2
<1> QED BY <1>1, <1>3, <1>4, <1>5

(* A record that is there in full is never called incomplete.              *)
LEMMA BodyComplete ==
    ASSUME NEW h \in Hellos
    PROVE  parse_client_hello_body(h) # "incomplete"
<1> USE SniAssumption
<1>1. ASSUME NEW names, IsList(names), \A i \in DOMAIN names : IsEntry(names[i])
      PROVE  server_name(names) # "incomplete"
  <2> DEFINE stops == Stops(names, {i \in DOMAIN names : names[i].host})
             m == First(stops)
  <2>1. CASE stops = {} BY <2>1 DEF server_name
  <2>2. CASE stops # {}
    <3>1. stops \subseteq Nat /\ stops \subseteq DOMAIN names BY <1>1 DEF Stops, IsList
    <3>2. m \in DOMAIN names BY <2>2, <3>1, FirstStops
    <3>3. names[m].whole \in BOOLEAN /\ names[m].name # "incomplete" BY <1>1, <3>2 DEF IsEntry, Errors
    <3>4. CASE names[m].whole BY <2>2, <3>3, <3>4 DEF server_name
    <3>5. CASE ~names[m].whole BY <2>2, <3>3, <3>5 DEF server_name
    <3> QED BY <3>4, <3>5
  <2> QED BY <2>1, <2>2
<1>2. IsList(h.exts) /\ \A i \in DOMAIN h.exts : IsExtension(h.exts[i]) OBVIOUS
<1>3. sni_extension(h.exts) # "incomplete"
  <2> DEFINE stops == Stops(h.exts, {i \in DOMAIN h.exts : h.exts[i].sni})
             m == First(stops)
  <2>1. CASE stops = {} BY <2>1 DEF sni_extension
  <2>2. CASE stops # {}
    <3>1. stops \subseteq Nat /\ stops \subseteq DOMAIN h.exts BY <1>2 DEF Stops, IsList
    <3>2. m \in DOMAIN h.exts BY <2>2, <3>1, FirstStops
    <3>3. IsExtension(h.exts[m]) BY <1>2, <3>2
    <3>4. h.exts[m].whole \in BOOLEAN /\ server_name(h.exts[m].names) # "incomplete"
      BY <1>1, <3>3 DEF IsExtension
    <3>5. CASE h.exts[m].whole BY <2>2, <3>4, <3>5 DEF sni_extension
    <3>6. CASE ~h.exts[m].whole BY <2>2, <3>4, <3>6 DEF sni_extension
    <3> QED BY <3>4, <3>5, <3>6
  <2> QED BY <2>1, <2>2
<1> QED BY <1>3 DEF parse_client_hello_body

LEMMA IncompleteIsShort ==
    ASSUME NEW h \in Hellos, NEW n \in Nat, try_parse(h, n) = "incomplete"
    PROVE  n < Header + h.len
<1> USE SniAssumption
<1>1. /\ h.handshake \in BOOLEAN /\ h.len \in Nat /\ Header \in Nat /\ MaxRecord \in Nat
  OBVIOUS
<1>2. CASE n < Header BY <1>1, <1>2
<1>3. CASE n >= Header /\ h.handshake /\ ~(h.len = 0 \/ h.len > MaxRecord)
  <2>1. try_parse(h, n) = IF n < Header + h.len THEN "incomplete" ELSE parse_client_hello_body(h)
    BY <1>1, <1>3 DEF try_parse
  <2> QED BY <2>1, BodyComplete
<1>4. CASE n >= Header /\ ~h.handshake BY <1>1, <1>4 DEF try_parse
<1>5. CASE n >= Header /\ h.handshake /\ (h.len = 0 \/ h.len > MaxRecord) BY <1>1, <1>5 DEF try_parse
<1> QED BY <1>1, <1>2, <1>3, <1>4, <1>5

(* The reader goes on, has given up, or has answered what the bytes it     *)
(* holds say (sni.rs).                                                     *)
THEOREM SniInvHolds == SniSpec => []SniInv
<1> USE SniAssumption
<1>1. SniInit => SniInv BY DEF SniInit, SniInv
<1>2. SniInv /\ [SniNext]_sniVars => SniInv'
  <2> SUFFICES ASSUME SniInv, [SniNext]_sniVars PROVE SniInv' OBVIOUS
  <2>1. CASE UNCHANGED sniVars BY <2>1 DEF sniVars, SniInv
  <2>2. ASSUME NEW eof \in BOOLEAN, peek(eof) PROVE SniInv'
    <3>1. hello' = hello /\ verdict = "reading" /\ hello \in Hellos /\ have \in Nat
      BY <2>2 DEF peek, SniInv
    <3>2. CASE try_parse(hello, have) # "incomplete" /\ Give(try_parse(hello, have))
      BY <3>1, <3>2 DEF Give, SniInv
    <3>3. CASE try_parse(hello, have) = "incomplete" /\ have >= MaxHello /\ Give("too_large")
      BY <3>1, <3>3 DEF Give, SniInv
    <3>4. CASE Give("eof") BY <3>1, <3>4 DEF Give, SniInv
    <3>5. CASE \E n \in 1..Chunk : have' = have + n /\ UNCHANGED verdict BY <3>1, <3>5 DEF SniInv
    <3> QED BY <2>2, <3>2, <3>3, <3>4, <3>5 DEF peek
  <2> QED BY <2>1, <2>2 DEF SniNext
<1> QED BY <1>1, <1>2, PTL DEF SniSpec

(* The name found in a hello is its first host name, however the hello was *)
(* cut into reads (sni.rs).                                                *)
THEOREM HelloIsRead == SniSpec => []HelloRead
<1>1. SniInv => HelloRead
  <2> SUFFICES ASSUME SniInv PROVE CutsDoNotMatter /\ NameIsFirst BY DEF HelloRead
  <2> USE SniAssumption
  <2>0. hello \in Hellos /\ have \in Nat BY DEF SniInv
  <2>1. CutsDoNotMatter
    <3>1. CASE verdict \in {"reading", "eof"} BY <3>1 DEF CutsDoNotMatter
    <3>2. CASE verdict = "too_large" /\ try_parse(hello, have) = "incomplete" /\ have >= MaxHello
      <4>1. have < Header + hello.len BY <2>0, <3>2, IncompleteIsShort
      <4>2. hello.len \in Nat BY <2>0
      <4>3. Header + hello.len > MaxHello BY <2>0, <3>2, <4>1, <4>2
      <4> QED BY <3>2, <4>3 DEF CutsDoNotMatter
    <3>3. CASE verdict = try_parse(hello, have) /\ verdict # "incomplete"
      BY <2>0, <3>3, PrefixEnough DEF CutsDoNotMatter
    <3> QED BY <3>1, <3>2, <3>3 DEF SniInv
  <2>2. NameIsFirst
    <3>1. SUFFICES
            ASSUME NEW e \in DOMAIN hello.exts, hello.exts[e].sni, \A d \in 1..(e - 1) : ~hello.exts[d].sni,
                   verdict \notin {"reading", "eof", "too_large", "not_handshake", "malformed", "no_sni"}
            PROVE  /\ \A d \in 1..e : hello.exts[d].whole
                   /\ \E i \in DOMAIN hello.exts[e].names :
                        /\ hello.exts[e].names[i].host /\ hello.exts[e].names[i].name = verdict
                        /\ \A j \in 1..(i - 1) : ~hello.exts[e].names[j].host /\ hello.exts[e].names[j].whole
      BY DEF NameIsFirst
    <3>2. verdict = try_parse(hello, have) /\ verdict # "incomplete" BY <3>1 DEF SniInv
    <3>3. verdict = Whole(hello) /\ verdict \notin Errors BY <2>0, <3>1, <3>2, PrefixEnough DEF Errors
    <3>4. Whole(hello) \in Errors \/ Whole(hello) = parse_client_hello_body(hello)
      BY <2>0 DEF Whole, try_parse, Errors
    <3>5. verdict = parse_client_hello_body(hello) BY <3>3, <3>4
    <3>6. verdict = sni_extension(hello.exts) BY <3>3, <3>5 DEF parse_client_hello_body, Errors
    <3>7. IsList(hello.exts) /\ \A i \in DOMAIN hello.exts : IsExtension(hello.exts[i]) BY <2>0
    <3>8. /\ \A d \in 1..e : hello.exts[d].whole
          /\ verdict = server_name(hello.exts[e].names)
      BY <3>1, <3>3, <3>6, <3>7, ExtensionFound
    <3>9. IsList(hello.exts[e].names) /\ \A i \in DOMAIN hello.exts[e].names : IsEntry(hello.exts[e].names[i])
      BY <3>1, <3>7 DEF IsExtension
    <3> QED BY <3>3, <3>8, <3>9, NameFound
  <2> QED BY <2>1, <2>2
<1> QED BY <1>1, SniInvHolds, PTL
=============================================================================
