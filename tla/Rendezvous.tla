------------------------------ MODULE Rendezvous ------------------------------
(***************************************************************************)
(* The rendezvous role's store-and-forward queues (rendezvous/queue.go),   *)
(* the handlers in front of them with their long poll (service.go), and    *)
(* the guard that keeps a signed request from being applied twice          *)
(* (internal/keyauth/replay.go).  Senders deposit blobs for a key, the     *)
(* key's owner polls for them, and acknowledges what it has processed.     *)
(*                                                                         *)
(* A message is one signed deposit request.  The network may deliver it    *)
(* any number of times while its timestamp is fresh, and may lose any      *)
(* answer.  Rate limits, bad signatures and a full guard refuse a request  *)
(* before it touches anything, so they are requests that do not happen.    *)
(* Time is relative: a blob keeps what is left of its TTL, a nonce what is *)
(* left of the time it is remembered, a request the age of its timestamp.  *)
(***************************************************************************)
EXTENDS Integers, FiniteSets, FiniteSetsExt

CONSTANTS Keys,            \* recipients
          Queues,          \* the signal queue and the mailbox
          Msgs,            \* signed deposit requests
          To, In, Size,    \* recipient, queue and payload size of each
          Pollers,         \* connections of recipients that poll
          PollKey,         \* PollKey[p], PollQueue[p]: what poller p asks for
          PollQueue,
          MaxPerKeyBlobs,  \* queueCaps
          MaxPerKeyBytes,
          MaxKeys,
          MaxTTL,
          SweepEvery,
          Skew             \* Guard.skew

ASSUME RendezvousAssumption ==
    /\ To \in [Msgs -> Keys] /\ In \in [Msgs -> Queues] /\ Size \in [Msgs -> Nat]
    /\ PollKey \in [Pollers -> Keys] /\ PollQueue \in [Pollers -> Queues]
    /\ IsFiniteSet(Msgs)
    /\ {MaxPerKeyBlobs, MaxPerKeyBytes, MaxKeys, MaxTTL, SweepEvery, Skew} \subseteq Nat \ {0}

VARIABLES
    age,      \* how old the timestamp of a message is, 0 before it is sent
    seen,     \* Guard.seen: for how long the nonce of a message is remembered
    hpc,      \* where the deposit handler of a message is
    times,    \* how often a message was stored (history)
    stored,   \* queue.byKey: the messages pending in the queues
    left,     \* what is left of their TTL
    bytes,    \* queue.bytes
    swept,    \* time since queue.swep
    ppc,      \* where the poll handler of a poller is
    waits,    \* notifier.waits
    woken,    \* pollers whose channel has been closed
    got       \* messages their recipient has received

guardVars == <<age, seen>>
queueVars == <<times, stored, left, bytes, swept>>
pollVars  == <<ppc, waits, woken, got>>
rdvVars      == <<guardVars, hpc, queueVars, pollVars>>

-----------------------------------------------------------------------------
RdvInit ==
    /\ age = [m \in Msgs |-> 0] /\ seen = [m \in Msgs |-> 0]
    /\ hpc = [m \in Msgs |-> "none"] /\ times = [m \in Msgs |-> 0]
    /\ stored = {} /\ left = [m \in Msgs |-> 0]
    /\ bytes = [q \in Queues |-> [k \in Keys |-> 0]]
    /\ swept = [q \in Queues |-> SweepEvery]
    /\ ppc = [p \in Pollers |-> "idle"] /\ waits = [k \in Keys |-> {}] /\ woken = {}
    /\ got = {}

\* The messages of S that are in queue q under key k, and their total size.
Under(S, q, k) == {m \in S : In[m] = q /\ To[m] = k}
TotalSize(S) == MapThenSumSet(LAMBDA m : Size[m], S)

-----------------------------------------------------------------------------
(* sweepLocked, the first thing a deposit and a pickup do: at most once per     *)
(* SweepEvery the expired blobs are dropped and the bytes counted anew.         *)

Due(q) == swept[q] >= SweepEvery

\* What is stored after the sweep of queue q ...
SweptBlobs(q) == IF Due(q) THEN {m \in stored : In[m] = q => left[m] > 0} ELSE stored

\* Mutant: the sweep drops blobs and leaves the byte counts.
SweptBytes_Stale(q) == bytes[q]

\* ... and its byte counts.
SweptBytes(q) == IF Due(q) THEN [k \in Keys |-> TotalSize(Under(SweptBlobs(q), q, k))]
                 ELSE bytes[q]

SweptAt(q) == [swept EXCEPT ![q] = IF Due(q) THEN 0 ELSE @]

-----------------------------------------------------------------------------
(* Deposits. *)

\* The sender stamps and signs a request.  Its clock is not ahead of the relay's: the
\* stamp is some time old when the request arrives.
send(m) ==
    /\ age[m] = 0 /\ age' = [age EXCEPT ![m] = 1]
    /\ UNCHANGED <<seen, hpc, queueVars, pollVars>>

\* Mutant: a nonce is forgotten too early.
Remember_Short == Skew - 1

\* For how long a nonce is remembered.
Remember == Skew

\* A copy of the request arrives at depositHandler and passes CheckAndRecord: its
\* timestamp is fresh and its nonce is not remembered.
CheckAndRecord(m) ==
    /\ hpc[m] = "none"
    /\ age[m] \in 1 .. Skew /\ seen[m] = 0
    /\ seen' = [seen EXCEPT ![m] = Remember]
    /\ hpc' = [hpc EXCEPT ![m] = "checked"]
    /\ UNCHANGED <<age, queueVars, pollVars>>

\* deposit's three caps.
Fits(m) ==
    LET S == SweptBlobs(In[m])  P == Under(S, In[m], To[m]) IN
    /\ P = {} => Cardinality({To[n] : n \in {o \in S : In[o] = In[m]}}) < MaxKeys
    /\ Cardinality(P) < MaxPerKeyBlobs
    /\ SweptBytes(In[m])[To[m]] + Size[m] <= MaxPerKeyBytes

\* queue.deposit, with a TTL of the sender's choice clamped to MaxTTL, less what the
\* handler has taken since it read the clock.
deposit(m, ttl) ==
    /\ hpc[m] = "checked"
    /\ swept' = SweptAt(In[m])
    /\ \/ /\ Fits(m)
          /\ stored' = SweptBlobs(In[m]) \cup {m}
          /\ left' = [left EXCEPT ![m] = ttl]
          /\ bytes' = [bytes EXCEPT ![In[m]] = [SweptBytes(In[m]) EXCEPT ![To[m]] = @ + Size[m]]]
          /\ times' = [times EXCEPT ![m] = @ + 1]
          /\ hpc' = [hpc EXCEPT ![m] = "stored"]
       \/ /\ ~Fits(m)
          /\ stored' = SweptBlobs(In[m])
          /\ bytes' = [bytes EXCEPT ![In[m]] = SweptBytes(In[m])]
          /\ hpc' = [hpc EXCEPT ![m] = "none"]
          /\ UNCHANGED <<left, times>>
    /\ UNCHANGED <<guardVars, pollVars>>

\* Mutant: one waiter is told, not all of them.
notify_One(m) ==
    /\ hpc[m] = "stored" /\ hpc' = [hpc EXCEPT ![m] = "none"]
    /\ \E W \in {V \in SUBSET waits[To[m]] : waits[To[m]] # {} => Cardinality(V) = 1} :
          /\ woken' = woken \cup W
          /\ waits' = [waits EXCEPT ![To[m]] = @ \ W]
    /\ UNCHANGED <<guardVars, queueVars, ppc, got>>

\* notifier.notify: all waiters of the key, for either queue, are told; the sender
\* gets its answer, or does not.
notify(m) ==
    /\ hpc[m] = "stored" /\ hpc' = [hpc EXCEPT ![m] = "none"]
    /\ woken' = woken \cup waits[To[m]]
    /\ waits' = [waits EXCEPT ![To[m]] = {}]
    /\ UNCHANGED <<guardVars, queueVars, ppc, got>>

-----------------------------------------------------------------------------
(* Polls. *)

\* Mutant: expired blobs are left to the sweep.
Visible_Expired(q, k) == Under(SweptBlobs(q), q, k)

\* What pickup returns: blobs that have expired and were not swept are left out.
Visible(q, k) == {m \in Under(SweptBlobs(q), q, k) : left[m] > 0}

\* Mutant: a pickup deletes what it returns.
pickup_Deletes(q, k) ==
    /\ stored' = SweptBlobs(q) \ Visible(q, k)
    /\ bytes' = [bytes EXCEPT ![q] = [SweptBytes(q) EXCEPT ![k] = 0]]
    /\ swept' = SweptAt(q)
    /\ got' \in {got, got \cup Visible(q, k)}
    /\ UNCHANGED <<times, left>>

\* queue.pickup, and the answer, which the recipient gets or not.
pickup(q, k) ==
    /\ stored' = SweptBlobs(q)
    /\ bytes' = [bytes EXCEPT ![q] = SweptBytes(q)]
    /\ swept' = SweptAt(q)
    /\ got' \in {got, got \cup Visible(q, k)}
    /\ UNCHANGED <<times, left>>

\* pollHandler: the blobs there are, or nothing, at once or after a wait.
poll(p) ==
    /\ ppc[p] = "idle"
    /\ pickup(PollQueue[p], PollKey[p])
    /\ \/ UNCHANGED ppc
       \/ /\ Visible(PollQueue[p], PollKey[p]) = {}
          /\ ppc' = [ppc EXCEPT ![p] = "empty"]
    /\ UNCHANGED <<guardVars, hpc, waits, woken>>

\* longPoll registers its channel.
wait(p) ==
    /\ ppc[p] = "empty" /\ ppc' = [ppc EXCEPT ![p] = "waiting"]
    /\ waits' = [waits EXCEPT ![PollKey[p]] = @ \cup {p}]
    /\ UNCHANGED <<guardVars, hpc, queueVars, woken, got>>

\* notifier.cancel, deferred.
cancel(p) == waits' = [waits EXCEPT ![PollKey[p]] = @ \ {p}]

\* The channel is closed: longPoll looks once more, and answers.
wake(p) ==
    /\ ppc[p] = "waiting" /\ p \in woken
    /\ ppc' = [ppc EXCEPT ![p] = "idle"] /\ woken' = woken \ {p}
    /\ pickup(PollQueue[p], PollKey[p])
    /\ cancel(p)
    /\ UNCHANGED <<guardVars, hpc>>

\* The wait is over, or the client has gone: an empty answer.
giveUp(p) ==
    /\ ppc[p] = "waiting"
    /\ ppc' = [ppc EXCEPT ![p] = "idle"] /\ woken' = woken \ {p}
    /\ cancel(p)
    /\ UNCHANGED <<guardVars, hpc, queueVars, got>>

-----------------------------------------------------------------------------
\* ackHandler: the recipient deletes messages it has received and processed.
ack(q, k, S) ==
    /\ S # {} /\ S \subseteq Under(got, q, k)
    /\ Under(stored, q, k) # {}
    /\ stored' = stored \ S
    /\ bytes' = [bytes EXCEPT ![q][k] = IF Under(stored', q, k) = {} THEN 0
                                        ELSE @ - TotalSize(S \cap stored)]
    /\ UNCHANGED <<guardVars, hpc, times, left, swept, pollVars>>

tick ==
    /\ age' = [m \in Msgs |-> IF age[m] \in 1 .. Skew THEN age[m] + 1 ELSE age[m]]
    /\ seen' = [m \in Msgs |-> IF seen[m] > 0 THEN seen[m] - 1 ELSE 0]
    /\ left' = [m \in Msgs |-> IF left[m] > 0 THEN left[m] - 1 ELSE 0]
    /\ swept' = [q \in Queues |-> IF swept[q] < SweepEvery THEN swept[q] + 1 ELSE swept[q]]
    /\ UNCHANGED <<hpc, times, stored, bytes, pollVars>>

RdvNext ==
    \/ \E m \in Msgs : send(m) \/ CheckAndRecord(m) \/ notify(m)
    \/ \E m \in Msgs, ttl \in 0 .. MaxTTL : deposit(m, ttl)
    \/ \E p \in Pollers : poll(p) \/ wait(p) \/ wake(p) \/ giveUp(p)
    \/ \E q \in Queues, k \in Keys : \E S \in SUBSET Under(got, q, k) : ack(q, k, S)
    \/ tick

RdvSpec == RdvInit /\ [][RdvNext]_rdvVars

\* Handlers run.  Nothing is assumed of timers, clients or the network.
RdvFairness == /\ \A m \in Msgs : WF_rdvVars(notify(m))
               /\ \A p \in Pollers : WF_rdvVars(wake(p))

RdvFairSpec == RdvSpec /\ RdvFairness

-----------------------------------------------------------------------------
(* Properties. *)

\* Every variable has its type, and every queue is within its three caps.
RdvTypeOK ==
    /\ age \in [Msgs -> 0 .. Skew + 1] /\ seen \in [Msgs -> 0 .. Skew]
    /\ hpc \in [Msgs -> {"none", "checked", "stored"}] /\ times \in [Msgs -> Nat]
    /\ stored \subseteq Msgs /\ left \in [Msgs -> 0 .. MaxTTL]
    /\ bytes \in [Queues -> [Keys -> 0 .. MaxPerKeyBytes]]
    /\ \A q \in Queues, k \in Keys : Cardinality(Under(stored, q, k)) <= MaxPerKeyBlobs
    /\ \A q \in Queues : Cardinality({To[m] : m \in {n \in stored : In[n] = q}}) <= MaxKeys
    /\ swept \in [Queues -> 0 .. SweepEvery]
    /\ ppc \in [Pollers -> {"idle", "empty", "waiting"}]
    /\ waits \in [Keys -> SUBSET Pollers] /\ woken \subseteq Pollers /\ got \subseteq Msgs

\* The byte count of a key never drifts from the blobs it stands for, so no quota is
\* lost for good: through deposits, acknowledgements and lazy sweeps in any order.
BytesExact == \A q \in Queues, k \in Keys : bytes[q][k] = TotalSize(Under(stored, q, k))

\* A signed deposit is stored once, however often it is delivered: its nonce is
\* forgotten only when its timestamp is no longer fresh.
StoredOnce == \A m \in Msgs : times[m] <= 1

\* At-least-once delivery: a stored message leaves its queue only when its TTL has
\* passed or its recipient has received it.
KeptUntilReceived == [][\A m \in stored : m \in stored' \/ left[m] = 0 \/ m \in got]_rdvVars

\* A message is never delivered after its TTL, swept or not.
NotAfterTTL == [][\A m \in got' \ got : left[m] > 0]_rdvVars

\* A waiting long poll is known to the notifier, or has been told already: another
\* poll of the key that ends does not take its registration along.
WaitersRegistered ==
    \A p \in Pollers : ppc[p] = "waiting" => p \in waits[PollKey[p]] \/ p \in woken

\* A deposit ends every long poll that waits for its key, without the help of a timer.
DepositWakes ==
    \A p \in Pollers :
        (ppc[p] = "waiting" /\ \E m \in Msgs : hpc[m] = "stored" /\ To[m] = PollKey[p])
            ~> ppc[p] # "waiting"

(* The rendezvous queues: a deposit is stored once, the bytes counted are  *)
(* the bytes held, and a waiting poll is registered (queue.go,             *)
(* service.go).                                                            *)
QueueSafe == RdvTypeOK /\ BytesExact /\ StoredOnce /\ WaitersRegistered

(* What a step never does: drop a blob that is neither received nor        *)
(* expired, or hand one out after its TTL (pickup, ack, the lazy sweep).   *)
QueueSteps == KeptUntilReceived /\ NotAfterTTL
=============================================================================
