----------------------------- MODULE CPTokenStore -----------------------------
(***************************************************************************)
(* The control-plane token store (cpclient.go): it validates an agent's    *)
(* credential and the name it claims against the control plane, and caches *)
(* what the control plane said of the credential.  A cache entry never     *)
(* looks at another credential's, so the model has one credential, and     *)
(* several handshakes that present it at once.                             *)
(*                                                                         *)
(* Time is relative, as in EntitlementGate: the entry keeps what is left   *)
(* of its TTL, a read how long it has been out.                            *)
(***************************************************************************)
EXTENDS Integers

CONSTANTS Handshakes,    \* handshakes that present the credential
          TunnelNames,   \* tunnel names
          Claim,         \* Claim[c]: the name handshake c claims
          StoreTTL,      \* CPTokenStore.TTL
          StoreTimeout   \* Authorize's 10 s

ASSUME StoreAssumption ==
    /\ Claim \in [Handshakes -> TunnelNames]
    /\ StoreTTL \in Nat \ {0} /\ StoreTimeout \in Nat

VARIABLES
    cpNames,    \* authorized_relay_names of the credential's account
    cpRevoked,  \* the control plane answers 404, or revoked:true
    cache,      \* the credential's entry
    spc,        \* where each handshake is
    sans,       \* the control plane's answer to its read
    sage,       \* how long the read has been out
    admitted,   \* whether its last Authorize succeeded
    since       \* since[n]: time since the control plane last granted name n

storeVars == <<cpNames, cpRevoked, cache, spc, sans, sage, admitted, since>>

StoreMaxAge == StoreTTL + StoreTimeout

-----------------------------------------------------------------------------
NoStoreEntry == [present |-> FALSE, names |-> {}, left |-> 0]

\* The control plane grants name n now.
Granted(n) == ~cpRevoked /\ n \in cpNames

StoreInit ==
    /\ cpNames \in SUBSET TunnelNames /\ cpRevoked = FALSE
    /\ cache = NoStoreEntry
    /\ spc = [c \in Handshakes |-> "idle"]
    /\ sans = [c \in Handshakes |-> {}]
    /\ sage = [c \in Handshakes |-> 0]
    /\ admitted = [c \in Handshakes |-> FALSE]
    /\ since = [n \in TunnelNames |-> IF Granted(n) THEN 0 ELSE StoreMaxAge + 1]

conclude(c, ok) ==
    /\ spc' = [spc EXCEPT ![c] = "idle"]
    /\ sans' = [sans EXCEPT ![c] = {}]
    /\ sage' = [sage EXCEPT ![c] = 0]
    /\ admitted' = [admitted EXCEPT ![c] = ok]

\* time.Now().Before(e.expires)
Hit == cache.present /\ cache.left > 0

\* Mutant: a hit vouches for the credential, and so for any name.
HitAdmits_AnyName(c) == TRUE

\* The name binding holds on a hit as well.
HitAdmits(c) == Claim[c] \in cache.names

\* Authorize is called, and looks in the cache: a hit answers, a miss reads.
storeAuthorize(c) ==
    /\ spc[c] = "idle"
    /\ \/ Hit /\ conclude(c, HitAdmits(c))
       \/ ~Hit /\ spc' = [spc EXCEPT ![c] = "reading"] /\ UNCHANGED <<sans, sage, admitted>>
    /\ UNCHANGED <<cpNames, cpRevoked, cache, since>>

\* The control plane answers; the answer is on its way.
EntitlementForCredential(c) ==
    /\ spc[c] = "reading"
    /\ spc' = [spc EXCEPT ![c] = IF cpRevoked THEN "revoked" ELSE "granted"]
    /\ sans' = [sans EXCEPT ![c] = IF cpRevoked THEN {} ELSE cpNames]
    /\ UNCHANGED <<cpNames, cpRevoked, cache, sage, admitted, since>>

\* The read fails: the handshake is refused and the cache left as it is.
storeReadFails(c) ==
    /\ spc[c] \in {"reading", "revoked", "granted"}
    /\ conclude(c, FALSE)
    /\ UNCHANGED <<cpNames, cpRevoked, cache, since>>

\* ErrCredentialRevoked: the entry is purged.
purge(c) ==
    /\ spc[c] = "revoked"
    /\ cache' = NoStoreEntry
    /\ conclude(c, FALSE)
    /\ UNCHANGED <<cpNames, cpRevoked, since>>

\* The entry written for an answer.
Store(names) == [present |-> TRUE, names |-> names, left |-> StoreTTL]

\* The account's names are cached, and the claimed one is looked up in them.
store(c) ==
    /\ spc[c] = "granted"
    /\ cache' = Store(sans[c])
    /\ conclude(c, Claim[c] \in Store(sans[c]).names)
    /\ UNCHANGED <<cpNames, cpRevoked, since>>

-----------------------------------------------------------------------------
\* The account's names change, and the credential is revoked or reinstated.
credentialChanges(names, revoked) ==
    /\ <<names, revoked>> # <<cpNames, cpRevoked>>
    /\ cpNames' = names /\ cpRevoked' = revoked
    /\ since' = [n \in TunnelNames |-> IF Granted(n)' THEN 0 ELSE since[n]]
    /\ UNCHANGED <<cache, spc, sans, sage, admitted>>

storeTick ==
    /\ \A c \in Handshakes : spc[c] # "idle" => sage[c] < StoreTimeout
    /\ sage' = [c \in Handshakes |-> IF spc[c] # "idle" THEN sage[c] + 1 ELSE 0]
    /\ cache' = [cache EXCEPT !.left = IF @ > 0 THEN @ - 1 ELSE @]
    /\ since' = [n \in TunnelNames |-> IF Granted(n) \/ since[n] > StoreMaxAge THEN since[n] ELSE since[n] + 1]
    /\ UNCHANGED <<cpNames, cpRevoked, spc, sans, admitted>>

StoreNext ==
    \/ \E c \in Handshakes : \/ storeAuthorize(c) \/ EntitlementForCredential(c) \/ storeReadFails(c)
                          \/ purge(c) \/ store(c)
    \/ \E names \in SUBSET TunnelNames, revoked \in BOOLEAN : credentialChanges(names, revoked)
    \/ storeTick

StoreSpec == StoreInit /\ [][StoreNext]_storeVars

-----------------------------------------------------------------------------
(* Properties. *)

\* Every variable has its type; no entry outlives its TTL.
StoreTypeOK ==
    /\ cpNames \subseteq TunnelNames /\ cpRevoked \in BOOLEAN
    /\ cache \in [present : BOOLEAN, names : SUBSET TunnelNames, left : 0 .. StoreTTL]
    /\ spc \in [Handshakes -> {"idle", "reading", "revoked", "granted"}]
    /\ sans \in [Handshakes -> SUBSET TunnelNames]
    /\ sage \in [Handshakes -> 0 .. StoreTimeout]
    /\ admitted \in [Handshakes -> BOOLEAN]
    /\ since \in [TunnelNames -> 0 .. StoreMaxAge + 1]

\* Cross-account isolation: a name is only ever granted if the control plane granted
\* that very name to the credential within the last TTL and the time of one read.
GrantsRecent ==
    [][\A c \in Handshakes : storeAuthorize(c) \/ store(c) =>
           (spc'[c] = "idle" /\ admitted'[c] => since[Claim[c]] <= StoreMaxAge)]_storeVars

(* The token store grants only names the control plane recently granted to *)
(* the credential, across reads in flight (Authorize).                     *)
StoreSound == []StoreTypeOK /\ GrantsRecent
=============================================================================
