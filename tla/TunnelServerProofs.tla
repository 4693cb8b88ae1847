-------------------------- MODULE TunnelServerProofs --------------------------
(***************************************************************************)
(* What the relay's server keeps: its registry of tunnels and the queues   *)
(* of the rendezvous.                                                      *)
(***************************************************************************)
EXTENDS TunnelServer, Rendezvous, FiniteSums

-----------------------------------------------------------------------------
(***************************************************************************)
(* The registry's cap and its names, and the balance of stream slots, for  *)
(* any number of connections, names and requests.                          *)
(*                                                                         *)
(* The inductive invariant says where a name is held: a connection is      *)
(* registered exactly when the registry has it under its own name, and     *)
(* every entry is under the name of its connection.                        *)
(***************************************************************************)

\* The registry and the handlers agree on who holds which name.
NamesInv ==
    /\ \A c \in Conns : Registered(c) <=> byName[Name[c]] = c
    /\ \A n \in Names : byName[n] # NoConn => Name[byName[n]] = n

\* A request past its lookup has a session.
RequestsInv == \A r \in Requests : rpc[r] # "idle" => rsess[r] \in Conns

Inv == TypeOK /\ NamesInv /\ CapHolds /\ RequestsInv /\ StreamsBalanced

Held == {n \in Names : byName[n] # NoConn}
Holding(c) == {r \in Requests : rpc[r] \in {"acquired", "streaming"} /\ rsess[r] = c}

-----------------------------------------------------------------------------
(* Facts the actions share. *)

\* The registered names are finitely many.
LEMMA HeldFinite == IsFiniteSet(Held) /\ Cardinality(Held) \in Nat
<1>1. Held \subseteq Names /\ IsFiniteSet(Names)  BY ServerAssumption DEF Held
<1>2. IsFiniteSet(Held)  BY <1>1, FS_Subset
<1> QED  BY <1>2, FS_CardinalityType

\* So are the requests that hold a slot of a session.
LEMMA HoldingFinite ==
    ASSUME NEW c
    PROVE  IsFiniteSet(Holding(c)) /\ Cardinality(Holding(c)) \in Nat
<1>1. Holding(c) \subseteq Requests /\ IsFiniteSet(Requests)  BY ServerAssumption DEF Holding
<1>2. IsFiniteSet(Holding(c))  BY <1>1, FS_Subset
<1> QED  BY <1>2, FS_CardinalityType

\* A step that leaves the registry and the handlers alone keeps what is said of them.
LEMMA RegistrySame ==
    ASSUME NamesInv, CapHolds, UNCHANGED <<pc, byName>>
    PROVE  NamesInv' /\ CapHolds'
BY DEF NamesInv, CapHolds, Registered, count

\* A handler that moves without entering or leaving the registry does, too.
LEMMA HandlerMoves ==
    ASSUME TypeOK, NamesInv, CapHolds, NEW c \in Conns, NEW to, ~Registered(c),
           pc' = [pc EXCEPT ![c] = to], to \notin {"added", "serving"}, UNCHANGED byName
    PROVE  NamesInv' /\ CapHolds'
<1>1. \A d \in Conns : Registered(d)' <=> Registered(d)  BY DEF Registered, TypeOK
<1> QED  BY <1>1 DEF NamesInv, CapHolds, count

\* A step that leaves the requests alone keeps what is said of them.
LEMMA RequestsSame ==
    ASSUME RequestsInv, StreamsBalanced, UNCHANGED reqVars
    PROVE  RequestsInv' /\ StreamsBalanced'
BY DEF RequestsInv, StreamsBalanced, reqVars

-----------------------------------------------------------------------------
LEMMA ServerInit == Init => Inv
<1> SUFFICES ASSUME Init PROVE Inv  OBVIOUS
<1>0. Cardinality({}) = 0  BY FS_EmptySet
<1>1. TypeOK
  <2>1. streams \in [Conns -> 0 .. MaxStreams]  BY ServerAssumption DEF Init
  <2>2. byName \in [Names -> Conns \cup {NoConn}] /\ rsess \in [Requests -> Conns \cup {NoConn}]
    BY DEF Init
  <2>3. sweepTodo \in [{"ticker", "admin"} -> SUBSET Conns]  BY DEF Init
  <2>4. pc \in [Conns -> {"idle", "registering", "undrained", "authorized", "added",
                         "serving", "gone"}]
    BY DEF Init
  <2>5. /\ muxOpen \in [Conns -> BOOLEAN]
        /\ first \in [Conns -> {"nothing", "refusal", "ack", "frame"}]
        /\ rpc \in [Requests -> {"idle", "found", "acquired", "streaming"}]
    BY DEF Init
  <2> QED  BY <2>1, <2>2, <2>3, <2>4, <2>5 DEF Init, TypeOK
<1>2. NamesInv  BY ServerAssumption DEF Init, NamesInv, Registered
<1>3. CapHolds
  <2>1. {n \in Names : byName[n] # NoConn} = {}  BY DEF Init
  <2> QED  BY <2>1, <1>0, ServerAssumption DEF CapHolds, count
<1>4. RequestsInv  BY DEF Init, RequestsInv
<1>5. StreamsBalanced
  <2> SUFFICES ASSUME NEW c \in Conns PROVE streams[c] = Cardinality(Holding(c))
    BY DEF StreamsBalanced, Holding
  <2>1. Holding(c) = {}  BY DEF Init, Holding
  <2> QED  BY <2>1, <1>0 DEF Init
<1> QED  BY <1>1, <1>2, <1>3, <1>4, <1>5 DEF Inv

-----------------------------------------------------------------------------
(* handleControl. *)

\* A handler that refuses, or goes on to its next check, is not in the registry.
LEMMA HandlerChecks ==
    ASSUME Inv, NEW c \in Conns, UNCHANGED <<drainVars, revVars, reqVars>>,
           pc[c] \in {"idle", "registering", "undrained", "authorized"},
           \/ refuse(c)
           \/ \E to \in {"registering", "undrained", "authorized"} : advance(c, to)
    PROVE  Inv'
<1>1. PICK to \in {"registering", "undrained", "authorized", "gone"} :
          pc' = [pc EXCEPT ![c] = to] /\ UNCHANGED <<muxOpen, byName>>
  BY DEF refuse, advance
<1>2. ~Registered(c)  BY DEF Registered
<1>3. NamesInv' /\ CapHolds'  BY <1>1, <1>2, HandlerMoves DEF Inv
<1>4. first' \in [Conns -> {"nothing", "refusal", "ack", "frame"}]
  BY DEF refuse, advance, Send, Inv, TypeOK
<1>5. TypeOK'  BY <1>1, <1>4 DEF Inv, TypeOK, drainVars, revVars, reqVars
<1> QED  BY <1>3, <1>5, RequestsSame DEF Inv

\* registry.add, the one step that takes a slot.
LEMMA AddStep ==
    ASSUME Inv, NEW c \in Conns, registryAdd(c)
    PROVE  Inv'
<1>1. CASE refuse(c)  BY <1>1, HandlerChecks DEF registryAdd
<1>2. CASE /\ registryAdmits(c)
           /\ byName' = [byName EXCEPT ![Name[c]] = c]
           /\ muxOpen' = [muxOpen EXCEPT ![c] = TRUE]
           /\ pc' = [pc EXCEPT ![c] = "added"]
           /\ UNCHANGED first
  <2>0. /\ UNCHANGED <<drainVars, revVars, reqVars>>  /\ pc[c] = "authorized"
        /\ Name[c] \in Names /\ byName[Name[c]] = NoConn /\ Cardinality(Held) < MaxAgents
    BY <1>2, ServerAssumption DEF registryAdd, registryAdmits, count, Held
  <2>1. TypeOK'  BY <1>2, <2>0 DEF Inv, TypeOK, drainVars, revVars, reqVars
  <2>2. NamesInv'
    <3>1. ASSUME NEW d \in Conns, d # c PROVE Registered(d)' <=> (byName[Name[d]] = d)'
      <4>1. Registered(d)' <=> byName[Name[d]] = d  BY <1>2, <3>1 DEF Inv, NamesInv, Registered, TypeOK
      <4>2. CASE Name[d] = Name[c]
        BY <1>2, <2>0, <3>1, <4>1, <4>2, ServerAssumption DEF Inv, TypeOK
      <4>3. CASE Name[d] # Name[c]
        BY <1>2, <2>0, <4>1, <4>3, ServerAssumption DEF Inv, TypeOK
      <4> QED  BY <4>2, <4>3
    <3>2. Registered(c)' /\ (byName[Name[c]] = c)'  BY <1>2, <2>0 DEF Inv, TypeOK, Registered
    <3>3. \A n \in Names : byName'[n] # NoConn => Name[byName'[n]] = n
      BY <1>2, <2>0 DEF Inv, NamesInv, TypeOK
    <3> QED  BY <3>1, <3>2, <3>3 DEF NamesInv
  <2>3. CapHolds'
    <3>1. Held' = Held \cup {Name[c]}
      BY <1>2, <2>0, ServerAssumption DEF Held, Inv, TypeOK
    <3>2. Name[c] \notin Held  BY <2>0 DEF Held
    <3>3. Cardinality(Held') = Cardinality(Held) + 1
      BY <3>1, <3>2, HeldFinite, FS_AddElement
    <3>4. Cardinality(Held') <= MaxAgents
      BY <2>0, <3>3, HeldFinite, ServerAssumption
    <3> QED  BY <3>4 DEF CapHolds, count, Held
  <2> QED  BY <2>0, <2>1, <2>2, <2>3, RequestsSame DEF Inv
<1> QED  BY <1>1, <1>2 DEF registryAdd

\* The deferred release gives back the name of its own session only.
LEMMA ReleaseStep ==
    ASSUME Inv, NEW c \in Conns, release(c)
    PROVE  Inv'
<1>0. /\ pc' = [pc EXCEPT ![c] = "gone"] /\ Registered(c)
      /\ byName' = [n \in Names |-> IF n = Name[c] /\ byName[n] = c THEN NoConn ELSE byName[n]]
      /\ UNCHANGED <<muxOpen, first, drainVars, revVars, reqVars>>
      /\ Name[c] \in Names /\ NoConn \notin Conns
  BY ServerAssumption DEF release, Registered
<1>1. TypeOK'  BY <1>0 DEF Inv, TypeOK, drainVars, revVars, reqVars
<1>2. NamesInv'
  <2>1. ASSUME NEW d \in Conns PROVE Registered(d)' <=> (byName[Name[d]] = d)'
    <3>1. Name[d] \in Names  BY ServerAssumption
    <3>2. CASE d = c  BY <1>0, <3>2 DEF Inv, TypeOK, Registered
    <3>3. CASE d # c
      BY <1>0, <3>1, <3>3 DEF Inv, NamesInv, TypeOK, Registered
    <3> QED  BY <3>2, <3>3
  <2>2. \A n \in Names : byName'[n] # NoConn => Name[byName'[n]] = n
    BY <1>0 DEF Inv, NamesInv
  <2> QED  BY <2>1, <2>2 DEF NamesInv
<1>3. CapHolds'
  <2>1. Held' \subseteq Held  BY <1>0 DEF Held
  <2>2. Cardinality(Held') <= Cardinality(Held) /\ Cardinality(Held') \in Nat
    <3>1. IsFiniteSet(Held') /\ Cardinality(Held') <= Cardinality(Held)
      BY <2>1, HeldFinite, FS_Subset
    <3> QED  BY <3>1, FS_CardinalityType
  <2>3. Cardinality(Held) <= MaxAgents  BY DEF Inv, CapHolds, count, Held
  <2>4. Cardinality(Held') <= MaxAgents  BY <2>2, <2>3, HeldFinite, ServerAssumption
  <2> QED  BY <2>4 DEF CapHolds, count, Held
<1> QED  BY <1>0, <1>1, <1>2, <1>3, RequestsSame DEF Inv

-----------------------------------------------------------------------------
(* The public proxy. *)

\* acquireStream: the request joins those that hold a slot of its session.
LEMMA AcquireStep ==
    ASSUME Inv, NEW r \in Requests, acquireStream(r)
    PROVE  Inv'
<1> DEFINE c == rsess[r]
<1>0. /\ c \in Conns /\ rpc[r] = "found" /\ streams[c] < MaxStreams /\ streams[c] \in Nat
      /\ streams' = [streams EXCEPT ![c] = streams[c] + 1]
      /\ rpc' = [rpc EXCEPT ![r] = "acquired"] /\ rsess' = rsess
      /\ UNCHANGED <<ctrlVars, drainVars, revVars>>
  BY ServerAssumption DEF acquireStream, Inv, RequestsInv, TypeOK
<1>1. TypeOK'
  <2>1. streams' \in [Conns -> 0 .. MaxStreams]
    BY <1>0, ServerAssumption DEF Inv, TypeOK
  <2> QED  BY <1>0, <2>1 DEF Inv, TypeOK, ctrlVars, drainVars, revVars
<1>2. NamesInv' /\ CapHolds'  BY <1>0, RegistrySame DEF Inv, ctrlVars
<1>3. RequestsInv'  BY <1>0 DEF Inv, RequestsInv, TypeOK
<1>4. StreamsBalanced'
  <2> SUFFICES ASSUME NEW d \in Conns PROVE streams'[d] = Cardinality(Holding(d)')
    BY DEF StreamsBalanced, Holding
  <2>1. streams[d] = Cardinality(Holding(d))  BY DEF Inv, StreamsBalanced, Holding
  <2>2. CASE d = c
    <3>1. Holding(d)' = Holding(d) \cup {r}  BY <1>0, <2>2 DEF Holding, Inv, TypeOK
    <3>2. r \notin Holding(d)  BY <1>0 DEF Holding
    <3>3. Cardinality(Holding(d)') = Cardinality(Holding(d)) + 1
      BY <3>1, <3>2, HoldingFinite, FS_AddElement
    <3> QED  BY <1>0, <2>1, <2>2, <3>3 DEF Inv, TypeOK
  <2>3. CASE d # c
    <3>1. Holding(d)' = Holding(d)  BY <1>0, <2>3 DEF Holding, Inv, TypeOK
    <3> QED  BY <1>0, <2>1, <2>3, <3>1 DEF Inv, TypeOK
  <2> QED  BY <2>2, <2>3
<1> QED  BY <1>1, <1>2, <1>3, <1>4 DEF Inv

\* The deferred releaseStream: the request leaves them, and the counter was positive.
LEMMA EndStep ==
    ASSUME Inv, NEW r \in Requests, requestEnds(r)
    PROVE  Inv'
<1> DEFINE c == rsess[r]
<1>0. /\ c \in Conns /\ rpc[r] \in {"acquired", "streaming"}
      /\ streams' = [streams EXCEPT ![c] = IF streams[c] > 0 THEN streams[c] - 1 ELSE streams[c]]
      /\ rpc' = [rpc EXCEPT ![r] = "idle"] /\ rsess' = [rsess EXCEPT ![r] = NoConn]
      /\ UNCHANGED <<ctrlVars, drainVars, revVars>>
  BY DEF requestEnds, releaseStream, Inv, RequestsInv
<1>a. streams[c] \in 0 .. MaxStreams  BY <1>0 DEF Inv, TypeOK
<1>1. TypeOK'
  <2>1. streams' \in [Conns -> 0 .. MaxStreams]
    BY <1>0, <1>a, ServerAssumption DEF Inv, TypeOK
  <2> QED  BY <1>0, <2>1 DEF Inv, TypeOK, ctrlVars, drainVars, revVars
<1>2. NamesInv' /\ CapHolds'  BY <1>0, RegistrySame DEF Inv, ctrlVars
<1>3. RequestsInv'  BY <1>0 DEF Inv, RequestsInv, TypeOK
<1>4. StreamsBalanced'
  <2> SUFFICES ASSUME NEW d \in Conns PROVE streams'[d] = Cardinality(Holding(d)')
    BY DEF StreamsBalanced, Holding
  <2>1. streams[d] = Cardinality(Holding(d))  BY DEF Inv, StreamsBalanced, Holding
  <2>2. CASE d = c
    <3>1. Holding(d)' = Holding(d) \ {r}  BY <1>0, <2>2 DEF Holding, Inv, TypeOK
    <3>2. r \in Holding(d)  BY <1>0, <2>2 DEF Holding
    <3>3. Cardinality(Holding(d)') = Cardinality(Holding(d)) - 1
      BY <3>1, <3>2, HoldingFinite, FS_RemoveElement
    <3>4. Cardinality(Holding(d)) # 0
      BY <3>2, HoldingFinite, FS_EmptySet
    <3>5. Cardinality(Holding(d)) \in Nat  BY HoldingFinite
    <3>6. streams[c] > 0  BY <2>1, <2>2, <3>4, <3>5
    <3> QED  BY <1>0, <2>1, <2>2, <3>3, <3>6 DEF Inv, TypeOK
  <2>3. CASE d # c
    <3>1. Holding(d)' = Holding(d)  BY <1>0, <2>3 DEF Holding, Inv, TypeOK
    <3> QED  BY <1>0, <2>1, <2>3, <3>1 DEF Inv, TypeOK
  <2> QED  BY <2>2, <2>3
<1> QED  BY <1>1, <1>2, <1>3, <1>4 DEF Inv

\* The other steps of a request hold no slot before and none after, or the same one.
LEMMA RequestStep ==
    ASSUME Inv, NEW r \in Requests, lookup(r) \/ turnAway(r) \/ openStream(r)
    PROVE  Inv'
<1>1. CASE lookup(r)
  <2>0. /\ rpc[r] = "idle" /\ rpc' = [rpc EXCEPT ![r] = "found"]
        /\ rsess' = [rsess EXCEPT ![r] = byName[Target[r]]] /\ byName[Target[r]] \in Conns
        /\ UNCHANGED <<streams, ctrlVars, drainVars, revVars>>
    BY <1>1, ServerAssumption DEF lookup, Inv, TypeOK
  <2>1. TypeOK'  BY <2>0 DEF Inv, TypeOK, ctrlVars, drainVars, revVars
  <2>2. NamesInv' /\ CapHolds'  BY <2>0, RegistrySame DEF Inv, ctrlVars
  <2>3. RequestsInv'  BY <2>0 DEF Inv, RequestsInv, TypeOK
  <2>4. \A c \in Conns : Holding(c)' = Holding(c)  BY <2>0 DEF Holding, Inv, TypeOK
  <2>5. StreamsBalanced'  BY <2>0, <2>4 DEF Inv, StreamsBalanced, Holding
  <2> QED  BY <2>1, <2>2, <2>3, <2>5 DEF Inv
<1>2. CASE turnAway(r)
  <2>0. /\ rpc[r] = "found" /\ rpc' = [rpc EXCEPT ![r] = "idle"]
        /\ rsess' = [rsess EXCEPT ![r] = NoConn]
        /\ UNCHANGED <<streams, ctrlVars, drainVars, revVars>>
    BY <1>2 DEF turnAway
  <2>1. TypeOK'  BY <2>0 DEF Inv, TypeOK, ctrlVars, drainVars, revVars
  <2>2. NamesInv' /\ CapHolds'  BY <2>0, RegistrySame DEF Inv, ctrlVars
  <2>3. RequestsInv'  BY <2>0 DEF Inv, RequestsInv, TypeOK
  <2>4. \A c \in Conns : Holding(c)' = Holding(c)  BY <2>0 DEF Holding, Inv, TypeOK
  <2>5. StreamsBalanced'  BY <2>0, <2>4 DEF Inv, StreamsBalanced, Holding
  <2> QED  BY <2>1, <2>2, <2>3, <2>5 DEF Inv
<1>3. CASE openStream(r)
  <2>0. /\ rpc[r] = "acquired" /\ rpc' = [rpc EXCEPT ![r] = "streaming"] /\ rsess' = rsess
        /\ UNCHANGED <<streams, pc, muxOpen, byName, drainVars, revVars>>
        /\ first' \in [Conns -> {"nothing", "refusal", "ack", "frame"}]
    BY <1>3 DEF openStream, Send, Inv, TypeOK
  <2>1. TypeOK'  BY <2>0 DEF Inv, TypeOK, drainVars, revVars
  <2>2. NamesInv' /\ CapHolds'  BY <2>0, RegistrySame DEF Inv
  <2>3. RequestsInv'  BY <2>0 DEF Inv, RequestsInv, TypeOK
  <2>4. \A c \in Conns : Holding(c)' = Holding(c)  BY <2>0 DEF Holding, Inv, TypeOK
  <2>5. StreamsBalanced'  BY <2>0, <2>4 DEF Inv, StreamsBalanced, Holding
  <2> QED  BY <2>1, <2>2, <2>3, <2>5 DEF Inv
<1> QED  BY <1>1, <1>2, <1>3

-----------------------------------------------------------------------------
(* Everything else: the acknowledgement, sessions that end, drains, revocation. *)

\* writeAck keeps the connection registered.
LEMMA AckStep ==
    ASSUME Inv, NEW c \in Conns, writeAck(c)
    PROVE  Inv'
<1>0. /\ pc[c] = "added" /\ pc' = [pc EXCEPT ![c] = "serving"]
      /\ UNCHANGED <<byName, drainVars, revVars, reqVars>>
      /\ muxOpen' \in [Conns -> BOOLEAN]
      /\ first' \in [Conns -> {"nothing", "refusal", "ack", "frame"}]
  BY DEF writeAck, Send, Inv, TypeOK
<1>1. TypeOK'  BY <1>0 DEF Inv, TypeOK, drainVars, revVars, reqVars
<1>2. \A d \in Conns : Registered(d)' <=> Registered(d)  BY <1>0 DEF Registered, Inv, TypeOK
<1>3. NamesInv' /\ CapHolds'  BY <1>0, <1>2 DEF Inv, NamesInv, CapHolds, count
<1> QED  BY <1>0, <1>1, <1>3, RequestsSame DEF Inv

\* The registry's sessions are connections.
LEMMA SnapshotType == TypeOK => snapshot \subseteq Conns
BY DEF TypeOK, snapshot

\* Sessions that end and sweeps that end them leave the registry alone; so do drains.
LEMMA BackgroundStep ==
    ASSUME Inv, NEW c \in Conns,
           \/ peerCloses(c) \/ signalReconnect(c)
           \/ sweepRevoked("admin", c) \/ sweepRevoked("ticker", c)
    PROVE  Inv'
<1>0. UNCHANGED <<pc, byName, reqVars>>
  BY DEF peerCloses, signalReconnect, sweepRevoked
<1>1. CASE peerCloses(c)
  <2>1. TypeOK'  BY <1>1 DEF peerCloses, Inv, TypeOK, drainVars, revVars, reqVars
  <2> QED  BY <1>0, <2>1, RegistrySame, RequestsSame DEF Inv
<1>2. CASE signalReconnect(c)
  <2>1. first' \in [Conns -> {"nothing", "refusal", "ack", "frame"}]
    BY <1>2 DEF signalReconnect, Send, Inv, TypeOK
  <2>2. TypeOK'  BY <1>2, <2>1 DEF signalReconnect, Inv, TypeOK, revVars, reqVars
  <2> QED  BY <1>0, <2>2, RegistrySame, RequestsSame DEF Inv
<1>3. CASE sweepRevoked("admin", c) \/ sweepRevoked("ticker", c)
  <2>1. PICK w \in {"ticker", "admin"} : sweepRevoked(w, c)  BY <1>3
  <2>2. sweepTodo' \in [{"ticker", "admin"} -> SUBSET Conns]
    BY <2>1 DEF sweepRevoked, Inv, TypeOK
  <2>3. muxOpen' \in [Conns -> BOOLEAN]
    <3>1. muxOpen' = [muxOpen EXCEPT ![c] = @ /\ ~mustCut(c)] /\ muxOpen \in [Conns -> BOOLEAN]
      BY <2>1 DEF sweepRevoked, Inv, TypeOK
    <3>2. (muxOpen[c] /\ ~mustCut(c)) \in BOOLEAN  OBVIOUS
    <3> HIDE DEF mustCut
    <3> QED  BY <3>1, <3>2, Zenon
  <2>4. TypeOK'  BY <2>1, <2>2, <2>3 DEF sweepRevoked, Inv, TypeOK, drainVars, reqVars
  <2> QED  BY <1>0, <2>4, RegistrySame, RequestsSame DEF Inv
<1> QED  BY <1>1, <1>2, <1>3

\* The steps of Drain, Undrain, the Revoke calls and the clock.
LEMMA AdminStep ==
    ASSUME Inv,
           \/ \E t \in Expirable : expire(t)
           \/ \E x \in Revocable : revoke(x) \/ sweepBegin("admin") \/ revokeReturns
           \/ sweepBegin("ticker")
           \/ drain \/ broadcastReconnect \/ drainReturns \/ undrain
    PROVE  Inv'
<1> USE SnapshotType DEF Inv
<1>0. UNCHANGED <<ctrlVars, reqVars>>
  BY DEF expire, revoke, sweepBegin, revokeReturns, drain, broadcastReconnect, drainReturns, undrain
<1>1. /\ draining' \in BOOLEAN /\ drainPc' \in {"idle", "draining", "signaling", "done"}
      /\ drainTodo' \subseteq Conns /\ signaled' \subseteq Conns
  BY DEF expire, revoke, sweepBegin, revokeReturns, drain, broadcastReconnect, drainReturns, undrain,
         TypeOK, drainVars
<1>2. sweepTodo' \in [{"ticker", "admin"} -> SUBSET Conns]
  BY DEF expire, revoke, sweepBegin, revokeReturns, drain, broadcastReconnect, drainReturns, undrain,
         TypeOK, revVars
<1>3. /\ revoked' \subseteq Revocable /\ expired' \subseteq Expirable
      /\ adminPc' \in {"idle", "sweep", "sweeping"}
  BY DEF expire, revoke, sweepBegin, revokeReturns, drain, broadcastReconnect, drainReturns, undrain,
         TypeOK, revVars
<1>4. TypeOK'  BY <1>0, <1>1, <1>2, <1>3 DEF TypeOK, ctrlVars, reqVars
<1> QED  BY <1>0, <1>4, RegistrySame, RequestsSame DEF ctrlVars

-----------------------------------------------------------------------------
LEMMA ServerNext == Inv /\ [Next]_vars => Inv'
<1> SUFFICES ASSUME Inv, [Next]_vars PROVE Inv'  OBVIOUS
<1>1. ASSUME NEW c \in Conns, admitControlConn(c) \/ checkDraining(c) \/ authorize(c) PROVE Inv'
  BY <1>1, HandlerChecks DEF admitControlConn, checkDraining, authorize
<1>2. CASE UNCHANGED vars
  <2>1. UNCHANGED <<pc, byName, reqVars>>  BY <1>2 DEF vars, ctrlVars
  <2>2. TypeOK'  BY <1>2 DEF Inv, TypeOK, vars, ctrlVars, drainVars, revVars, reqVars
  <2> QED  BY <2>1, <2>2, RegistrySame, RequestsSame DEF Inv
<1> QED
  BY <1>1, <1>2, AddStep, AckStep, ReleaseStep, BackgroundStep, AcquireStep, EndStep,
     RequestStep, AdminStep DEF Next

\* The inductive invariant holds in every behaviour.
THEOREM ServerInvariant == Spec => []Inv
BY ServerInit, ServerNext, PTL DEF Spec

\* Every variable has its type, and no session carries more than MaxStreams requests.
THEOREM ServerTypeOK == Spec => []TypeOK
<1>1. Inv => TypeOK  BY DEF Inv
<1> QED  BY <1>1, ServerInvariant, PTL

\* registry.add keeps the cap, however many handshakes passed the admission gate.
THEOREM ServerCapHolds == Spec => []CapHolds
<1>1. Inv => CapHolds  BY DEF Inv
<1> QED  BY <1>1, ServerInvariant, PTL

\* No connection takes the name of another, and none frees the name of another:
\* a connection is in the registry exactly while its handler serves it.
THEOREM ServerOwnsItsName == Spec => []OwnsItsName
<1>1. Inv => OwnsItsName
  <2> SUFFICES ASSUME Inv, NEW c \in Conns
               PROVE  Registered(c) <=> \E n \in Names : byName[n] = c
    BY DEF OwnsItsName
  <2>1. Name[c] \in Names /\ c # NoConn  BY ServerAssumption
  <2> QED  BY <2>1 DEF Inv, NamesInv
<1> QED  BY <1>1, ServerInvariant, PTL

\* Each session counts exactly the requests that hold one of its stream slots.
THEOREM ServerStreamsBalanced == Spec => []StreamsBalanced
<1>1. Inv => StreamsBalanced  BY DEF Inv
<1> QED  BY <1>1, ServerInvariant, PTL

\* The registry and the stream slots of the relay are safe for any number of
\* connections, names, credentials and requests.
THEOREM ServerIsSafe == Spec => []RegistrySafe
BY ServerTypeOK, ServerCapHolds, ServerOwnsItsName, ServerStreamsBalanced, PTL DEF RegistrySafe

-----------------------------------------------------------------------------
(***************************************************************************)
(* Delivery of the rendezvous queues, for any messages, recipients, polls  *)
(* and limits: a signed deposit is stored once, a stored message is kept   *)
(* until it is received or expires, and a waiting poll is never forgotten. *)
(*                                                                         *)
(* StoredOnce is not inductive: it does not say that a message stored once *)
(* cannot pass the guard again.  The invariant does, as a sum: from the    *)
(* moment the guard has let a message pass, the age of its timestamp and   *)
(* the time its nonce is still remembered add up to more than the skew, so *)
(* that when the nonce is forgotten the timestamp is no longer fresh.      *)
(***************************************************************************)

\* The part of the types that does not speak of counts.
Types ==
    /\ age \in [Msgs -> 0 .. Skew + 1] /\ seen \in [Msgs -> 0 .. Skew]
    /\ hpc \in [Msgs -> {"none", "checked", "stored"}] /\ times \in [Msgs -> Nat]
    /\ stored \subseteq Msgs /\ left \in [Msgs -> 0 .. MaxTTL]
    /\ ppc \in [Pollers -> {"idle", "empty", "waiting"}]
    /\ waits \in [Keys -> SUBSET Pollers] /\ woken \subseteq Pollers /\ got \subseteq Msgs

\* Message m has passed the guard.
Passed(m) == times[m] > 0 \/ hpc[m] # "none"

OnceInv ==
    \A m \in Msgs : /\ Passed(m) => age[m] + seen[m] > Skew
                    /\ hpc[m] = "checked" => times[m] = 0
                    /\ times[m] <= 1

QueueInv == Types /\ OnceInv /\ WaitersRegistered

-----------------------------------------------------------------------------
LEMMA RendezvousInit == RdvInit => QueueInv
BY RendezvousAssumption
DEF RdvInit, QueueInv, Types, OnceInv, Passed, WaitersRegistered

\* A sweep drops messages of its queue that have expired, and nothing else.
LEMMA SweepDrops ==
    ASSUME Types, NEW q
    PROVE  /\ SweptBlobs(q) \subseteq stored
           /\ \A m \in stored : m \in SweptBlobs(q) \/ left[m] = 0
BY RendezvousAssumption DEF Types, SweptBlobs

\* What a pickup returns is stored and has not expired.
LEMMA VisibleLive ==
    ASSUME Types, NEW q, NEW k
    PROVE  \A m \in Visible(q, k) : m \in stored /\ left[m] > 0
BY SweepDrops DEF Visible, Under

-----------------------------------------------------------------------------
(* Deposits. *)

LEMMA SendStep == ASSUME QueueInv, NEW m \in Msgs, send(m)  PROVE QueueInv'
BY RendezvousAssumption
DEF QueueInv, send, queueVars, pollVars, Types, OnceInv, Passed, WaitersRegistered

LEMMA GuardStep == ASSUME QueueInv, NEW m \in Msgs, CheckAndRecord(m)  PROVE QueueInv'
<1> USE DEF QueueInv, CheckAndRecord, Remember, queueVars, pollVars
<1>1. Types'  BY RendezvousAssumption DEF Types
<1>2. OnceInv'  BY RendezvousAssumption DEF Types, OnceInv, Passed
<1>3. WaitersRegistered'  BY DEF WaitersRegistered
<1> QED  BY <1>1, <1>2, <1>3

LEMMA DepositStep ==
    ASSUME QueueInv, NEW m \in Msgs, NEW ttl \in 0 .. MaxTTL, deposit(m, ttl)  PROVE QueueInv'
<1> USE DEF QueueInv, deposit, guardVars, pollVars
<1>1. Types'
  <2>1. stored' \subseteq Msgs  BY SweepDrops DEF Types
  <2> QED  BY <2>1, RendezvousAssumption DEF Types
<1>2. OnceInv'  BY RendezvousAssumption DEF Types, OnceInv, Passed
<1>3. WaitersRegistered'  BY DEF WaitersRegistered
<1> QED  BY <1>1, <1>2, <1>3

LEMMA NotifyStep == ASSUME QueueInv, NEW m \in Msgs, notify(m)  PROVE QueueInv'
<1> USE DEF QueueInv, notify, guardVars, queueVars
<1>0. To[m] \in Keys  BY RendezvousAssumption
<1>1. Types'  BY <1>0 DEF Types
<1>2. OnceInv'  BY RendezvousAssumption DEF Types, OnceInv, Passed
<1>3. WaitersRegistered'
  <2>1. ASSUME NEW p \in Pollers, ppc'[p] = "waiting"
        PROVE  p \in waits'[PollKey[p]] \/ p \in woken'
    <3>1. PollKey[p] \in Keys  BY RendezvousAssumption
    <3>2. p \in waits[PollKey[p]] \/ p \in woken  BY <2>1 DEF WaitersRegistered
    <3> QED  BY <1>0, <3>1, <3>2 DEF Types
  <2> QED  BY <2>1 DEF WaitersRegistered
<1> QED  BY <1>1, <1>2, <1>3

-----------------------------------------------------------------------------
(* Polls and acknowledgements. *)

\* A pickup leaves the messages' history alone and keeps the types.
LEMMA PickupKeeps ==
    ASSUME QueueInv, NEW q, NEW k, pickup(q, k), UNCHANGED <<guardVars, hpc>>
    PROVE  /\ OnceInv' /\ stored' \subseteq Msgs /\ got' \subseteq Msgs
           /\ UNCHANGED <<age, seen, hpc, times, left>>
<1> USE DEF QueueInv, pickup, guardVars
<1>1. OnceInv'  BY DEF OnceInv, Passed
<1>2. stored' \subseteq Msgs  BY SweepDrops DEF Types
<1>3. got' \subseteq Msgs  BY VisibleLive DEF Types
<1> QED  BY <1>1, <1>2, <1>3

LEMMA PollStep == ASSUME QueueInv, NEW p \in Pollers, poll(p)  PROVE QueueInv'
<1> USE DEF QueueInv, poll
<1>0. /\ OnceInv' /\ stored' \subseteq Msgs /\ got' \subseteq Msgs
      /\ UNCHANGED <<age, seen, hpc, times, left>>
  BY PickupKeeps
<1>1. Types'  BY <1>0 DEF Types
<1>2. WaitersRegistered'  BY DEF WaitersRegistered, Types
<1> QED  BY <1>0, <1>1, <1>2

LEMMA WaitStep == ASSUME QueueInv, NEW p \in Pollers, wait(p)  PROVE QueueInv'
<1> USE DEF QueueInv, wait, guardVars, queueVars
<1>0. \A o \in Pollers : PollKey[o] \in Keys  BY RendezvousAssumption
<1>1. Types'  BY <1>0 DEF Types
<1>2. OnceInv'  BY DEF OnceInv, Passed
<1>3. WaitersRegistered'  BY <1>0 DEF WaitersRegistered, Types
<1> QED  BY <1>1, <1>2, <1>3

\* A poll that ends takes its own registration along, and no other.
LEMMA LeaveStep ==
    ASSUME QueueInv, NEW p \in Pollers, cancel(p), OnceInv',
           ppc' = [ppc EXCEPT ![p] = "idle"], woken' = woken \ {p},
           stored' \subseteq Msgs, got' \subseteq Msgs,
           UNCHANGED <<age, seen, hpc, times, left>>
    PROVE  QueueInv'
<1> USE DEF QueueInv, cancel
<1>0. \A o \in Pollers : PollKey[o] \in Keys  BY RendezvousAssumption
<1>1. Types'  BY <1>0 DEF Types
<1>2. WaitersRegistered'  BY <1>0 DEF WaitersRegistered, Types
<1> QED  BY <1>1, <1>2

LEMMA WakeStep == ASSUME QueueInv, NEW p \in Pollers, wake(p)  PROVE QueueInv'
<1>1. /\ OnceInv' /\ stored' \subseteq Msgs /\ got' \subseteq Msgs
      /\ UNCHANGED <<age, seen, hpc, times, left>>
  BY PickupKeeps DEF wake
<1> QED  BY <1>1, LeaveStep DEF wake

LEMMA GiveUpStep == ASSUME QueueInv, NEW p \in Pollers, giveUp(p)  PROVE QueueInv'
<1>1. OnceInv'  BY DEF QueueInv, giveUp, guardVars, queueVars, OnceInv, Passed
<1> QED  BY <1>1, LeaveStep DEF giveUp, guardVars, queueVars, QueueInv, Types

LEMMA MailAckStep ==
    ASSUME QueueInv, NEW q, NEW k, NEW S, ack(q, k, S)  PROVE QueueInv'
BY DEF QueueInv, ack, guardVars, pollVars, Types, OnceInv, Passed, WaitersRegistered

\* Time: the age of a timestamp and the memory of its nonce keep their sum while the
\* timestamp is fresh.
LEMMA TickStep == ASSUME QueueInv, tick  PROVE QueueInv'
<1> USE DEF QueueInv, tick, pollVars
<1>1. Types'  BY RendezvousAssumption DEF Types
<1>2. OnceInv'
  <2>1. ASSUME NEW m \in Msgs PROVE Passed(m)' => age'[m] + seen'[m] > Skew
    BY RendezvousAssumption DEF Types, OnceInv, Passed
  <2> QED  BY <2>1 DEF OnceInv
<1>3. WaitersRegistered'  BY DEF WaitersRegistered
<1> QED  BY <1>1, <1>2, <1>3

LEMMA RendezvousNext == ASSUME QueueInv, [RdvNext]_rdvVars  PROVE QueueInv'
<1>1. CASE \E m \in Msgs : send(m) \/ CheckAndRecord(m) \/ notify(m)
  BY <1>1, SendStep, GuardStep, NotifyStep
<1>2. CASE \E m \in Msgs, ttl \in 0 .. MaxTTL : deposit(m, ttl)  BY <1>2, DepositStep
<1>3. CASE \E p \in Pollers : poll(p) \/ wait(p) \/ wake(p) \/ giveUp(p)
  BY <1>3, PollStep, WaitStep, WakeStep, GiveUpStep
<1>4. CASE \E q \in Queues, k \in Keys : \E S \in SUBSET Under(got, q, k) : ack(q, k, S)
  BY <1>4, MailAckStep
<1>5. CASE tick  BY <1>5, TickStep
<1>6. CASE UNCHANGED rdvVars
  BY <1>6 DEF rdvVars, guardVars, queueVars, pollVars, QueueInv, Types, OnceInv, Passed, WaitersRegistered
<1> QED  BY <1>1, <1>2, <1>3, <1>4, <1>5, <1>6 DEF RdvNext

-----------------------------------------------------------------------------
\* Every reachable state of the queues and the guard satisfies the inductive invariant.
THEOREM RendezvousInvariant == RdvSpec => []QueueInv
BY RendezvousInit, RendezvousNext, PTL DEF RdvSpec

\* depositHandler behind CheckAndRecord: a signed deposit is stored at most once,
\* however often and whenever copies of it arrive.
THEOREM RendezvousStoredOnce == RdvSpec => []StoredOnce
<1>1. QueueInv => StoredOnce  BY DEF QueueInv, OnceInv, StoredOnce
<1> QED  BY RendezvousInvariant, <1>1, PTL

\* longPoll and the notifier: a waiting poll is registered, or has been told.
THEOREM RendezvousWaitersRegistered == RdvSpec => []WaitersRegistered
<1>1. QueueInv => WaitersRegistered  BY DEF QueueInv
<1> QED  BY RendezvousInvariant, <1>1, PTL

\* pickup, ack and sweepLocked: a stored message leaves its queue only when it has
\* expired or been received.
THEOREM RendezvousKeptUntilReceived == RdvSpec => KeptUntilReceived
<1>1. ASSUME QueueInv, [RdvNext]_rdvVars
      PROVE  \A m \in stored : m \in stored' \/ left[m] = 0 \/ m \in got
  <2>t. Types  BY <1>1 DEF QueueInv
  <2>1. CASE \E m \in Msgs, ttl \in 0 .. MaxTTL : deposit(m, ttl)
    BY <2>t, <2>1, SweepDrops DEF deposit
  <2>2. CASE \E p \in Pollers : poll(p) \/ wake(p)
    BY <2>t, <2>2, SweepDrops DEF poll, wake, pickup
  <2>3. CASE \E q \in Queues, k \in Keys : \E S \in SUBSET Under(got, q, k) : ack(q, k, S)
    BY <2>3 DEF ack, Under
  <2>4. CASE UNCHANGED stored  BY <2>4
  <2>5. CASE \/ \E m \in Msgs : send(m) \/ CheckAndRecord(m) \/ notify(m)
             \/ \E p \in Pollers : wait(p) \/ giveUp(p)
             \/ tick \/ UNCHANGED rdvVars
    BY <2>4, <2>5 DEF send, CheckAndRecord, notify, wait, giveUp, tick, rdvVars, queueVars
  <2> QED  BY <1>1, <2>1, <2>2, <2>3, <2>5 DEF RdvNext
<1> QED  BY RendezvousInvariant, <1>1, PTL DEF RdvSpec, KeptUntilReceived

\* pickup: nothing is delivered after its TTL, swept or not.
THEOREM RendezvousNotAfterTTL == RdvSpec => NotAfterTTL
<1>1. ASSUME QueueInv, [RdvNext]_rdvVars  PROVE \A m \in got' \ got : left[m] > 0
  <2>t. Types  BY <1>1 DEF QueueInv
  <2>1. CASE \E p \in Pollers : poll(p) \/ wake(p)
    BY <2>t, <2>1, VisibleLive DEF poll, wake, pickup
  <2>2. CASE \/ \E m \in Msgs : send(m) \/ CheckAndRecord(m) \/ notify(m)
             \/ \E m \in Msgs, ttl \in 0 .. MaxTTL : deposit(m, ttl)
             \/ \E p \in Pollers : wait(p) \/ giveUp(p)
             \/ \E q \in Queues, k \in Keys : \E S \in SUBSET Under(got, q, k) : ack(q, k, S)
             \/ tick \/ UNCHANGED rdvVars
    <3>1. UNCHANGED got
      BY <2>2 DEF send, CheckAndRecord, notify, deposit, wait, giveUp, ack, tick, rdvVars, pollVars
    <3> QED  BY <3>1
  <2> QED  BY <1>1, <2>1, <2>2 DEF RdvNext
<1> QED  BY RendezvousInvariant, <1>1, PTL DEF RdvSpec, NotAfterTTL

\* No step of the rendezvous drops a blob that is neither received nor expired, or
\* hands one out after its TTL (pickup, ack, the lazy sweep).
THEOREM RendezvousSteps == RdvSpec => QueueSteps
BY RendezvousKeptUntilReceived, RendezvousNotAfterTTL, PTL DEF QueueSteps

-----------------------------------------------------------------------------
(***************************************************************************)
(* The byte counts and the caps of the queues.  A sweep counts anew and an *)
(* acknowledgement subtracts; both agree with the blobs that are left.  A  *)
(* deposit adds a blob that was not there: what is stored has been stored  *)
(* once, and what has passed the guard and is not stored yet, never.       *)
(***************************************************************************)

LEMMA SizesAdd == \E h : Adds(h, Size, Msgs) /\ \A S \in SUBSET Msgs : TotalSize(S) = h[S]
<1>1. IsFiniteSet(Msgs) /\ Size \in [Msgs -> Nat] BY RendezvousAssumption
<1>2. PICK h : Adds(h, Size, Msgs) BY <1>1, AddsExists
<1>3. ASSUME NEW S \in SUBSET Msgs PROVE TotalSize(S) = h[S]
  <2>1. SumOver(Size, S) = h[S] BY <1>1, <1>2, FoldAdds
  <2>2. TotalSize(S) = SumOver(Size, S) BY Zenon DEF TotalSize, SumOver
  <2> QED BY <2>1, <2>2
<1> QED BY <1>2, <1>3

\* What TotalSize makes of the empty set, of one message more, and of a part.
LEMMA TotalSizes ==
    /\ TotalSize({}) = 0
    /\ \A S \in SUBSET Msgs : TotalSize(S) \in Nat
    /\ \A S \in SUBSET Msgs : \A m \in Msgs \ S : TotalSize(S \cup {m}) = TotalSize(S) + Size[m]
    /\ \A S \in SUBSET Msgs : \A T \in SUBSET S : TotalSize(S \ T) = TotalSize(S) - TotalSize(T)
    /\ \A S \in SUBSET Msgs : \A T \in SUBSET S : TotalSize(T) <= TotalSize(S)
<1>0. IsFiniteSet(Msgs) /\ Size \in [Msgs -> Nat] BY RendezvousAssumption
<1>1. PICK h : Adds(h, Size, Msgs) /\ \A S \in SUBSET Msgs : TotalSize(S) = h[S] BY SizesAdd
<1>2. TotalSize({}) = 0 BY <1>1 DEF Adds
<1>3. \A S \in SUBSET Msgs : TotalSize(S) \in Nat BY <1>1 DEF Adds
<1>4. ASSUME NEW S \in SUBSET Msgs, NEW m \in Msgs \ S
      PROVE  TotalSize(S \cup {m}) = TotalSize(S) + Size[m]
  <2>1. S \cup {m} \in SUBSET Msgs OBVIOUS
  <2> QED BY <1>1, <2>1 DEF Adds
<1>5. ASSUME NEW S \in SUBSET Msgs, NEW T \in SUBSET S
      PROVE  TotalSize(S \ T) = TotalSize(S) - TotalSize(T) /\ TotalSize(T) <= TotalSize(S)
  <2>1. S \ T \in SUBSET Msgs /\ T \in SUBSET Msgs OBVIOUS
  <2>2. h[S] = h[S \ T] + h[T] /\ h[S \ T] \in Nat /\ h[T] \in Nat /\ h[S] \in Nat
    BY <1>0, <1>1, AddsParts
  <2>3. TotalSize(S \ T) = h[S \ T] /\ TotalSize(S) = h[S] /\ TotalSize(T) = h[T] BY <1>1, <2>1
  <2> QED BY <2>2, <2>3
<1> QED BY <1>2, <1>3, <1>4, <1>5

\* The recipients of queue q that have something in S.
Recipients(S, q) == {To[m] : m \in {n \in S : In[n] = q}}

\* The blobs S and the byte counts b agree, and are within the caps.
Counted(S, b) ==
    /\ S \subseteq Msgs /\ b \in [Queues -> [Keys -> 0 .. MaxPerKeyBytes]]
    /\ \A q \in Queues, k \in Keys : b[q][k] = TotalSize(Under(S, q, k))
    /\ \A q \in Queues, k \in Keys : Cardinality(Under(S, q, k)) <= MaxPerKeyBlobs
    /\ \A q \in Queues : Cardinality(Recipients(S, q)) <= MaxKeys
CountInv == /\ Counted(stored, bytes) /\ swept \in [Queues -> 0 .. SweepEvery]
            /\ \A m \in stored : times[m] > 0

LEMMA QueueLimits ==
    /\ MaxPerKeyBlobs \in Nat /\ MaxPerKeyBytes \in Nat /\ MaxKeys \in Nat /\ SweepEvery \in Nat
    /\ \A m \in Msgs : In[m] \in Queues /\ To[m] \in Keys /\ Size[m] \in Nat
BY RendezvousAssumption

LEMMA Finite ==
    ASSUME NEW S \in SUBSET Msgs, NEW q, NEW k
    PROVE  /\ IsFiniteSet(Under(S, q, k)) /\ Cardinality(Under(S, q, k)) \in Nat
           /\ IsFiniteSet(Recipients(S, q)) /\ Cardinality(Recipients(S, q)) \in Nat
<1>1. Under(S, q, k) \in SUBSET Msgs BY DEF Under
<1>2. {n \in S : In[n] = q} \in SUBSET Msgs OBVIOUS
<1>3. IsFiniteSet(Under(S, q, k)) /\ IsFiniteSet({n \in S : In[n] = q})
  BY <1>1, <1>2, RendezvousAssumption, FS_Subset
<1> DEFINE N == {n \in S : In[n] = q}
<1>4. IsFiniteSet({To[m] : m \in N})
  <2>0. IsFiniteSet(N) BY <1>3
  <2> HIDE DEF N
  <2> DEFINE I == {To[m] : m \in N}  f == [m \in N |-> To[m]]
  <2>1. f \in Surjection(N, I) BY DEF Surjection
  <2> HIDE DEF f, I
  <2>2. IsFiniteSet(I) BY <2>0, <2>1, FS_Surjection
  <2> QED BY <2>2 DEF I
<1>5. IsFiniteSet(Recipients(S, q)) BY <1>4 DEF Recipients
<1> QED BY <1>3, <1>5, FS_CardinalityType

\* Fewer blobs, counted anew where they were dropped.
LEMMA FewerCounted ==
    ASSUME NEW S, NEW b, Counted(S, b), NEW R \in SUBSET S, NEW c \in [Queues -> [Keys -> Nat]],
           \A q \in Queues, k \in Keys : c[q][k] = TotalSize(Under(R, q, k))
    PROVE  Counted(R, c)
<1>0. S \in SUBSET Msgs /\ R \in SUBSET Msgs BY DEF Counted
<1>1. ASSUME NEW q \in Queues, NEW k \in Keys
      PROVE  /\ TotalSize(Under(R, q, k)) \in 0 .. MaxPerKeyBytes
             /\ Cardinality(Under(R, q, k)) <= MaxPerKeyBlobs
  <2>1. Under(S, q, k) \in SUBSET Msgs /\ Under(R, q, k) \in SUBSET Under(S, q, k) BY <1>0 DEF Under
  <2>2. TotalSize(Under(S, q, k)) \in 0 .. MaxPerKeyBytes BY DEF Counted
  <2>3. TotalSize(Under(R, q, k)) <= TotalSize(Under(S, q, k)) /\ TotalSize(Under(R, q, k)) \in Nat
    BY <2>1, TotalSizes
  <2>4. Cardinality(Under(R, q, k)) <= Cardinality(Under(S, q, k))
    BY <1>0, <2>1, Finite, FS_Subset
  <2>5. Cardinality(Under(S, q, k)) <= MaxPerKeyBlobs BY DEF Counted
  <2>6. Cardinality(Under(R, q, k)) \in Nat /\ Cardinality(Under(S, q, k)) \in Nat BY <1>0, Finite
  <2> QED BY <2>2, <2>3, <2>4, <2>5, <2>6, QueueLimits
<1>2. ASSUME NEW q \in Queues PROVE Cardinality(Recipients(R, q)) <= MaxKeys
  <2>1. Recipients(R, q) \in SUBSET Recipients(S, q) BY DEF Recipients
  <2>2. Cardinality(Recipients(R, q)) <= Cardinality(Recipients(S, q)) BY <1>0, <2>1, Finite, FS_Subset
  <2>3. Cardinality(Recipients(S, q)) <= MaxKeys BY DEF Counted
  <2>4. Cardinality(Recipients(R, q)) \in Nat /\ Cardinality(Recipients(S, q)) \in Nat BY <1>0, Finite
  <2> QED BY <2>2, <2>3, <2>4, QueueLimits
<1>3. c \in [Queues -> [Keys -> 0 .. MaxPerKeyBytes]] BY <1>1
<1> QED BY <1>0, <1>1, <1>2, <1>3 DEF Counted

\* The sweep of a queue counts what it keeps.
LEMMA SweepCounted ==
    ASSUME CountInv, NEW q \in Queues
    PROVE  Counted(SweptBlobs(q), [bytes EXCEPT ![q] = SweptBytes(q)])
<1>0. Counted(stored, bytes) /\ stored \in SUBSET Msgs /\ bytes \in [Queues -> [Keys -> 0 .. MaxPerKeyBytes]]
  BY DEF CountInv, Counted
<1>1. CASE Due(q)
  <2>1. PICK R : R = SweptBlobs(q) OBVIOUS
  <2>2. R = {m \in stored : In[m] = q => left[m] > 0} BY <1>1, <2>1 DEF SweptBlobs
  <2>3. PICK c : c = [bytes EXCEPT ![q] = SweptBytes(q)] OBVIOUS
  <2>4. SweptBytes(q) = [k \in Keys |-> TotalSize(Under(R, q, k))] BY <1>1, <2>1 DEF SweptBytes
  <2>5. \A k \in Keys : TotalSize(Under(R, q, k)) \in Nat
    <3>1. \A k \in Keys : Under(R, q, k) \in SUBSET Msgs BY <1>0, <2>2 DEF Under
    <3> QED BY <3>1, TotalSizes
  <2>6. c \in [Queues -> [Keys -> Nat]] BY <1>0, <2>3, <2>4, <2>5
  <2>7. ASSUME NEW p \in Queues, NEW k \in Keys PROVE c[p][k] = TotalSize(Under(R, p, k))
    <3>1. CASE p = q BY <1>0, <2>3, <2>4, <3>1
    <3>2. CASE p # q
      <4>1. Under(R, p, k) = Under(stored, p, k) BY <2>2, <3>2 DEF Under
      <4>2. c[p][k] = bytes[p][k] BY <1>0, <2>3, <3>2
      <4> QED BY <1>0, <4>1, <4>2 DEF Counted
    <3> QED BY <3>1, <3>2
  <2>8. R \in SUBSET stored BY <2>2
  <2>9. Counted(R, c) BY <1>0, <2>6, <2>7, <2>8, FewerCounted
  <2> QED BY <2>1, <2>3, <2>9
<1>2. CASE ~Due(q)
  <2>1. SweptBlobs(q) = stored /\ SweptBytes(q) = bytes[q] BY <1>2 DEF SweptBlobs, SweptBytes
  <2>2. [bytes EXCEPT ![q] = bytes[q]] = bytes BY <1>0
  <2> QED BY <1>0, <2>1, <2>2
<1> QED BY <1>1, <1>2

LEMMA SweptAtTypes ==
    ASSUME CountInv, NEW q \in Queues PROVE SweptAt(q) \in [Queues -> 0 .. SweepEvery]
BY QueueLimits DEF CountInv, SweptAt, Due

LEMMA SweptBlobsStored == ASSUME NEW q PROVE SweptBlobs(q) \subseteq stored
BY DEF SweptBlobs

\* One blob more that fits.
LEMMA OneMoreCounted ==
    ASSUME NEW S, NEW b, Counted(S, b), NEW m \in Msgs, m \notin S,
           Under(S, In[m], To[m]) = {} => Cardinality(Recipients(S, In[m])) < MaxKeys,
           Cardinality(Under(S, In[m], To[m])) < MaxPerKeyBlobs,
           b[In[m]][To[m]] + Size[m] <= MaxPerKeyBytes,
           NEW c, c = [b EXCEPT ![In[m]] = [b[In[m]] EXCEPT ![To[m]] = @ + Size[m]]]
    PROVE  Counted(S \cup {m}, c)
<1>0. /\ S \in SUBSET Msgs /\ S \cup {m} \in SUBSET Msgs /\ b \in [Queues -> [Keys -> 0 .. MaxPerKeyBytes]]
      /\ In[m] \in Queues /\ To[m] \in Keys /\ Size[m] \in Nat
  BY QueueLimits DEF Counted
<1>1. c \in [Queues -> [Keys -> 0 .. MaxPerKeyBytes]] BY <1>0, QueueLimits
<1>2. ASSUME NEW q \in Queues, NEW k \in Keys
      PROVE  /\ c[q][k] = TotalSize(Under(S \cup {m}, q, k))
             /\ Cardinality(Under(S \cup {m}, q, k)) <= MaxPerKeyBlobs
  <2>1. CASE q = In[m] /\ k = To[m]
    <3>1. Under(S \cup {m}, q, k) = Under(S, q, k) \cup {m} /\ m \notin Under(S, q, k)
      BY <2>1 DEF Under
    <3>2. Under(S, q, k) \in SUBSET Msgs BY <1>0 DEF Under
    <3>3. TotalSize(Under(S, q, k) \cup {m}) = TotalSize(Under(S, q, k)) + Size[m]
      BY <3>1, <3>2, TotalSizes
    <3>4. c[q][k] = b[q][k] + Size[m] BY <1>0, <2>1
    <3>5. b[q][k] = TotalSize(Under(S, q, k)) BY DEF Counted
    <3>6. IsFiniteSet(Under(S, q, k)) /\ Cardinality(Under(S, q, k)) \in Nat BY <1>0, Finite
    <3>7. Cardinality(Under(S, q, k) \cup {m}) = Cardinality(Under(S, q, k)) + 1
      BY <3>1, <3>6, FS_AddElement
    <3>8. Cardinality(Under(S, q, k)) + 1 <= MaxPerKeyBlobs BY <2>1, <3>6, QueueLimits
    <3> QED BY <3>1, <3>3, <3>4, <3>5, <3>7, <3>8
  <2>2. CASE ~(q = In[m] /\ k = To[m])
    <3>1. Under(S \cup {m}, q, k) = Under(S, q, k) BY <2>2 DEF Under
    <3>2. c[q][k] = b[q][k] BY <1>0, <2>2
    <3> QED BY <3>1, <3>2 DEF Counted
  <2> QED BY <2>1, <2>2
<1>3. ASSUME NEW q \in Queues PROVE Cardinality(Recipients(S \cup {m}, q)) <= MaxKeys
  <2>0. IsFiniteSet(Recipients(S, q)) /\ Cardinality(Recipients(S, q)) \in Nat BY <1>0, Finite
  <2>1. CASE q # In[m]
    <3>1. Recipients(S \cup {m}, q) = Recipients(S, q) BY <2>1 DEF Recipients
    <3> QED BY <3>1 DEF Counted
  <2>2. CASE q = In[m]
    <3>1. Recipients(S \cup {m}, q) = Recipients(S, q) \cup {To[m]} BY <2>2 DEF Recipients
    <3>2. CASE Under(S, q, To[m]) = {}
      <4>1. Cardinality(Recipients(S, q)) < MaxKeys BY <2>2, <3>2
      <4>2. Cardinality(Recipients(S, q) \cup {To[m]}) <= Cardinality(Recipients(S, q)) + 1
        <5>1. Cardinality(Recipients(S, q) \cup {To[m]}) = IF To[m] \in Recipients(S, q) THEN Cardinality(Recipients(S, q)) ELSE Cardinality(Recipients(S, q)) + 1
          BY <2>0, FS_AddElement
        <5> QED BY <2>0, <5>1
      <4>3. Cardinality(Recipients(S, q) \cup {To[m]}) \in Nat
        BY <2>0, FS_AddElement, FS_CardinalityType
      <4>4. PICK x, y \in Nat : /\ x = Cardinality(Recipients(S, q)) /\ y = Cardinality(Recipients(S, q) \cup {To[m]})
                                /\ x < MaxKeys /\ y <= x + 1
        BY <2>0, <4>1, <4>2, <4>3
      <4>5. y <= MaxKeys BY <4>4, QueueLimits
      <4> QED BY <3>1, <4>4, <4>5
    <3>3. CASE Under(S, q, To[m]) # {}
      <4>1. To[m] \in Recipients(S, q) BY <3>3 DEF Under, Recipients
      <4>2. Recipients(S \cup {m}, q) = Recipients(S, q) BY <3>1, <4>1
      <4> QED BY <4>2 DEF Counted
    <3> QED BY <3>2, <3>3
  <2> QED BY <2>1, <2>2
<1> QED BY <1>0, <1>1, <1>2, <1>3 DEF Counted

LEMMA CountInit == RdvInit => CountInv
<1> SUFFICES ASSUME RdvInit PROVE CountInv OBVIOUS
<1>1. stored = {} /\ bytes = [q \in Queues |-> [k \in Keys |-> 0]] /\ swept = [q \in Queues |-> SweepEvery]
  BY DEF RdvInit
<1>2. \A q, k : Under({}, q, k) = {} /\ Recipients({}, q) = {} BY DEF Under, Recipients
<1>3. Cardinality({}) = 0 BY FS_EmptySet
<1>4. bytes \in [Queues -> [Keys -> 0 .. MaxPerKeyBytes]] BY <1>1, QueueLimits
<1>5. \A q \in Queues, k \in Keys : bytes[q][k] = 0 BY <1>1
<1>6. \A q \in Queues, k \in Keys : bytes[q][k] = TotalSize(Under({}, q, k)) BY <1>2, <1>5, TotalSizes
<1>7. /\ \A q \in Queues, k \in Keys : Cardinality(Under({}, q, k)) <= MaxPerKeyBlobs
      /\ \A q \in Queues : Cardinality(Recipients({}, q)) <= MaxKeys
  BY <1>2, <1>3, QueueLimits
<1>8. Counted({}, bytes) BY <1>4, <1>6, <1>7 DEF Counted
<1> QED BY <1>1, <1>8, QueueLimits DEF CountInv

LEMMA CountDeposit ==
    ASSUME QueueInv, CountInv, NEW m \in Msgs, NEW ttl \in 0 .. MaxTTL, deposit(m, ttl) PROVE CountInv'
<1> DEFINE q == In[m]
<1>0. q \in Queues /\ To[m] \in Keys BY QueueLimits
<1>1. PICK S : S = SweptBlobs(q) OBVIOUS
<1>2. PICK b : b = [bytes EXCEPT ![q] = SweptBytes(q)] OBVIOUS
<1>3. Counted(S, b) BY <1>0, <1>1, <1>2, SweepCounted
<1>4. swept' \in [Queues -> 0 .. SweepEvery] BY <1>0, SweptAtTypes DEF deposit
<1>5. S \subseteq stored /\ \A n \in stored : n \in Msgs /\ times[n] > 0
  BY <1>1, SweptBlobsStored DEF CountInv, Counted
<1>6. times[m] = 0 /\ m \notin S /\ times \in [Msgs -> Nat]
  BY <1>5 DEF deposit, QueueInv, OnceInv, Types
<1>7. b[q] = SweptBytes(q) BY <1>0, <1>2 DEF CountInv, Counted
<1>8. CASE Fits(m) /\ stored' = S \cup {m} /\ times' = [times EXCEPT ![m] = @ + 1]
           /\ bytes' = [bytes EXCEPT ![q] = [SweptBytes(q) EXCEPT ![To[m]] = @ + Size[m]]]
  <2>1. /\ Under(S, q, To[m]) = {} => Cardinality(Recipients(S, q)) < MaxKeys
        /\ Cardinality(Under(S, q, To[m])) < MaxPerKeyBlobs
        /\ b[q][To[m]] + Size[m] <= MaxPerKeyBytes
    BY <1>1, <1>7, <1>8 DEF Fits, Recipients
  <2>2. bytes' = [b EXCEPT ![q] = [b[q] EXCEPT ![To[m]] = @ + Size[m]]]
    BY <1>0, <1>2, <1>7, <1>8 DEF CountInv, Counted
  <2>3. PICK c : c = bytes' OBVIOUS
  <2>4. Counted(S \cup {m}, c) BY <1>3, <1>6, <2>1, <2>2, <2>3, OneMoreCounted
  <2>5. \A n \in stored' : times'[n] > 0 BY <1>5, <1>6, <1>8
  <2>6. Counted(stored, bytes)' BY <1>8, <2>3, <2>4
  <2> QED BY <1>4, <2>5, <2>6 DEF CountInv
<1>9. CASE stored' = S /\ bytes' = b /\ UNCHANGED times
  <2>1. Counted(stored, bytes)' BY <1>3, <1>9
  <2>2. \A n \in stored' : times'[n] > 0 BY <1>5, <1>9
  <2> QED BY <1>4, <2>1, <2>2 DEF CountInv
<1> QED BY <1>1, <1>2, <1>8, <1>9 DEF deposit

LEMMA CountPickup ==
    ASSUME CountInv, NEW q \in Queues, NEW k, pickup(q, k) PROVE CountInv'
<1>1. PICK S, b : S = SweptBlobs(q) /\ b = [bytes EXCEPT ![q] = SweptBytes(q)] OBVIOUS
<1>2. Counted(S, b) BY <1>1, SweepCounted
<1>3. stored' = S /\ bytes' = b /\ swept' = SweptAt(q) /\ times' = times BY <1>1 DEF pickup
<1>4. Counted(stored, bytes)' BY <1>2, <1>3
<1>5. swept' \in [Queues -> 0 .. SweepEvery] BY <1>3, SweptAtTypes
<1>6. \A n \in stored' : times'[n] > 0 BY <1>1, <1>3, SweptBlobsStored DEF CountInv
<1> QED BY <1>4, <1>5, <1>6 DEF CountInv

LEMMA CountAck ==
    ASSUME CountInv, NEW q \in Queues, NEW k \in Keys, NEW S \in SUBSET Under(got, q, k), ack(q, k, S)
    PROVE  CountInv'
<1>0. Counted(stored, bytes) /\ stored \in SUBSET Msgs /\ bytes \in [Queues -> [Keys -> 0 .. MaxPerKeyBytes]]
  BY DEF CountInv, Counted
<1>1. PICK R : R = stored' OBVIOUS
<1>2. PICK c : c = bytes' OBVIOUS
<1>3. R = stored \ S /\ R \in SUBSET stored BY <1>1 DEF ack
<1>4. c = [bytes EXCEPT ![q][k] = IF Under(R, q, k) = {} THEN 0 ELSE @ - TotalSize(S \cap stored)]
  BY <1>1, <1>2 DEF ack, Under
<1>5. S \cap stored \in SUBSET Under(stored, q, k) /\ Under(R, q, k) = Under(stored, q, k) \ (S \cap stored)
  BY <1>3 DEF Under
<1>6. Under(stored, q, k) \in SUBSET Msgs /\ Under(R, q, k) \in SUBSET Msgs BY <1>0, <1>3 DEF Under
<1>7. TotalSize(Under(R, q, k)) = TotalSize(Under(stored, q, k)) - TotalSize(S \cap stored)
  BY <1>5, <1>6, TotalSizes
<1>8. TotalSize(Under(R, q, k)) \in Nat BY <1>6, TotalSizes
<1>9. bytes[q][k] = TotalSize(Under(stored, q, k)) BY <1>0 DEF Counted
<1>10. PICK v : v = IF Under(R, q, k) = {} THEN 0 ELSE bytes[q][k] - TotalSize(S \cap stored) OBVIOUS
<1>11. v = TotalSize(Under(R, q, k)) BY <1>7, <1>9, <1>10, TotalSizes
<1>12. c = [bytes EXCEPT ![q] = [bytes[q] EXCEPT ![k] = v]] BY <1>0, <1>4, <1>10
<1>13. c \in [Queues -> [Keys -> Nat]] BY <1>0, <1>8, <1>11, <1>12
<1>14. ASSUME NEW p \in Queues, NEW j \in Keys PROVE c[p][j] = TotalSize(Under(R, p, j))
  <2>1. CASE p = q /\ j = k BY <1>0, <1>11, <1>12, <2>1
  <2>2. CASE ~(p = q /\ j = k)
    <3>1. c[p][j] = bytes[p][j] BY <1>0, <1>12, <2>2
    <3>2. Under(R, p, j) = Under(stored, p, j) BY <1>3, <2>2 DEF Under
    <3> QED BY <1>0, <3>1, <3>2 DEF Counted
  <2> QED BY <2>1, <2>2
<1>15. Counted(R, c) BY <1>0, <1>3, <1>13, <1>14, FewerCounted
<1>16. Counted(stored, bytes)' BY <1>1, <1>2, <1>15
<1>17. swept' = swept /\ times' = times BY DEF ack
<1> QED BY <1>1, <1>3, <1>16, <1>17 DEF CountInv

LEMMA CountNext == ASSUME QueueInv, CountInv, [RdvNext]_rdvVars PROVE CountInv'
<1>1. CASE \E m \in Msgs, ttl \in 0 .. MaxTTL : deposit(m, ttl) BY <1>1, CountDeposit
<1>2. CASE \E p \in Pollers : poll(p) \/ wake(p)
  <2>1. PICK p \in Pollers : pickup(PollQueue[p], PollKey[p]) BY <1>2 DEF poll, wake
  <2>2. PollQueue[p] \in Queues BY RendezvousAssumption
  <2> QED BY <2>1, <2>2, CountPickup
<1>3. CASE \E q \in Queues, k \in Keys : \E S \in SUBSET Under(got, q, k) : ack(q, k, S)
  BY <1>3, CountAck
<1>4. CASE tick
  <2>1. UNCHANGED <<stored, bytes, times>> BY <1>4 DEF tick
  <2>2. swept' \in [Queues -> 0 .. SweepEvery] BY <1>4, QueueLimits DEF tick, CountInv
  <2> QED BY <2>1, <2>2 DEF CountInv, Counted
<1>5. CASE UNCHANGED <<stored, bytes, times, swept>> BY <1>5 DEF CountInv, Counted
<1>6. CASE \/ \E m \in Msgs : send(m) \/ CheckAndRecord(m) \/ notify(m)
           \/ \E p \in Pollers : wait(p) \/ giveUp(p)
           \/ UNCHANGED rdvVars
  BY <1>5, <1>6 DEF send, CheckAndRecord, notify, wait, giveUp, rdvVars, queueVars
<1> QED BY <1>1, <1>2, <1>3, <1>4, <1>6 DEF RdvNext

\* queue.go, service.go: for any messages, recipients, polls and limits, the bytes
\* counted are the bytes held, no cap is exceeded, a signed deposit is stored once and
\* a waiting poll is registered, through deposits, sweeps and acknowledgements.
THEOREM QueuesAreSafe == RdvSpec => []QueueSafe
<1>1. QueueInv /\ CountInv => QueueSafe
  <2> SUFFICES ASSUME QueueInv, CountInv PROVE QueueSafe OBVIOUS
  <2>1. BytesExact BY DEF CountInv, Counted, BytesExact
  <2>2. StoredOnce /\ WaitersRegistered BY DEF QueueInv, OnceInv, StoredOnce
  <2>3. RdvTypeOK BY DEF QueueInv, Types, CountInv, Counted, Recipients, RdvTypeOK
  <2> QED BY <2>1, <2>2, <2>3 DEF QueueSafe
<1>2. RdvInit => CountInv BY CountInit
<1>3. QueueInv /\ CountInv /\ [RdvNext]_rdvVars => CountInv' BY CountNext
<1> QED BY RendezvousInvariant, <1>1, <1>2, <1>3, PTL DEF RdvSpec
=============================================================================
