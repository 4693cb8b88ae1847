---------------------------- MODULE AccountProofs ----------------------------
(***************************************************************************)
(* What the gateway holds about those it serves: admissions, the tenants   *)
(* of a shared gateway, and the operator's command that manages them.      *)
(***************************************************************************)
EXTENDS MCTenancy, FiniteSetTheorems, TLAPS

-----------------------------------------------------------------------------
(***************************************************************************)
(* The admission of senders is sound, once per challenge and safe from     *)
(* burning, for every set of connections, nonces and keys and any window.  *)
(*                                                                         *)
(* admit looks a challenge up and spends it later, with the lock released  *)
(* in between, and a nonce that is not on the ledger is judged by the time *)
(* the sender presents.  What makes the second look-up enough is that a    *)
(* nonce is minted once: a checked answer is either in its window by the   *)
(* presented time, or presents a time its nonce was not minted at, and     *)
(* then it cannot be spent.                                                *)
(***************************************************************************)

Challenge == [nonce : Nonces, at : Nat]
Presented == [pc : {"idle", "checked"}, nonce : Nonces \cup {"none"}, at : Nat,
           key : Applicants \cup {"none"}, signer : Applicants \cup {"none"}, seen : Nat]

AdmTypes ==
    /\ now \in Nat
    /\ issued \in [DOMAIN issued -> Nat] /\ DOMAIN issued \subseteq Nonces
    /\ conn \in [Conns -> Presented]
    /\ minted \subseteq Challenge

\* A nonce is minted once, and the ledger has the time it was minted at.
MintInv ==
    /\ \A m, k \in minted : m.nonce = k.nonce => m = k
    /\ \A n \in DOMAIN issued : [nonce |-> n, at |-> issued[n]] \in minted

\* What an answer that passed the checks may be.
CheckedInv ==
    \A c \in Conns : conn[c].pc = "checked" =>
        /\ conn[c].signer = conn[c].key /\ policy(conn[c].key)
        /\ \/ conn[c].seen - conn[c].at \in 0..TTL
           \/ \E m \in minted : m.nonce = conn[c].nonce /\ m.at # conn[c].at

\* A challenge that has admitted is off the ledger.
SpentInv == \A a \in admissions : a.nonce \notin DOMAIN issued

AdmInv == AdmTypes /\ MintInv /\ CheckedInv /\ SpentInv /\ AdmissionSound /\ AdmitsOnce

-----------------------------------------------------------------------------
LEMMA AdmInitInv == AdmInit => AdmInv
<1> SUFFICES ASSUME AdmInit PROVE AdmInv  OBVIOUS
<1>1. DOMAIN issued = {}  BY DEF AdmInit
<1>2. AdmTypes  BY <1>1 DEF AdmInit, AdmTypes, NoAnswer, Presented
<1> QED
  BY <1>1, <1>2 DEF AdmInit, AdmInv, MintInv, CheckedInv, SpentInv, AdmissionSound,
                    AdmitsOnce, NoAnswer

LEMMA IssueStep ==
    ASSUME AdmInv, NEW n \in Nonces, issue_challenge(n)  PROVE AdmInv'
<1> DEFINE kept == {k \in DOMAIN issued : issued[k] >= now - TTL}
           new == [nonce |-> n, at |-> now]
<1>1. /\ issued' = [k \in kept \cup {n} |-> IF k = n THEN now ELSE issued[k]]
      /\ minted' = minted \cup {new}
      /\ UNCHANGED <<now, conn, admissions>>
      /\ \A m \in minted : m.nonce # n
  BY DEF issue_challenge
<1>2. DOMAIN issued' = kept \cup {n} /\ n \notin DOMAIN issued
      /\ \A k \in kept : issued'[k] = issued[k] /\ k \in DOMAIN issued /\ k # n
      /\ issued'[n] = now
  BY <1>1 DEF AdmInv, MintInv
<1> HIDE DEF kept
<1>3. AdmTypes'  BY <1>1, <1>2 DEF AdmInv, AdmTypes, Challenge
<1>4. MintInv'  BY <1>1, <1>2 DEF AdmInv, AdmTypes, MintInv
<1>5. CheckedInv'  BY <1>1 DEF AdmInv, CheckedInv, policy
<1>6. SpentInv'
  <2> SUFFICES ASSUME NEW a \in admissions PROVE a.nonce \notin kept \cup {n}
    BY <1>1, <1>2 DEF SpentInv
  <2>1. a.nonce \notin DOMAIN issued  BY DEF AdmInv, SpentInv
  <2>2. a.nonce # n  BY <1>1 DEF AdmInv, AdmissionSound
  <2> QED  BY <1>2, <2>1, <2>2
<1>7. AdmissionSound' /\ AdmitsOnce'  BY <1>1 DEF AdmInv, AdmissionSound, AdmitsOnce
<1> QED  BY <1>3, <1>4, <1>5, <1>6, <1>7 DEF AdmInv

LEMMA CheckStep ==
    ASSUME AdmInv, NEW c \in Conns, NEW n \in Nonces, NEW at \in 0..MaxTime,
           NEW key \in Applicants, NEW signer \in Applicants,
           admit_check(c, n, at, key, signer)
    PROVE  AdmInv'
<1> DEFINE a == [pc |-> "checked", nonce |-> n, at |-> at, key |-> key, signer |-> signer,
                 seen |-> now]
<1>1. conn' = [conn EXCEPT ![c] = a] /\ UNCHANGED <<now, issued, minted, admissions>>
      /\ Fresh(issued_at(n, at)) /\ signer = key /\ policy(key)
  BY DEF admit_check
<1>2. a \in Presented
      /\ a.signer = a.key /\ a.key = key /\ a.seen = now /\ a.at = at /\ a.nonce = n
  BY <1>1 DEF Presented, AdmInv, AdmTypes
<1> HIDE DEF a
<1>3. AdmTypes'  BY <1>1, <1>2 DEF AdmInv, AdmTypes
<1>4. MintInv' /\ SpentInv' /\ AdmissionSound' /\ AdmitsOnce'
  BY <1>1 DEF AdmInv, MintInv, SpentInv, AdmissionSound, AdmitsOnce
<1>5. now - at \in 0..TTL \/ \E m \in minted : m.nonce = n /\ m.at # at
  <2>1. CASE n \in DOMAIN issued /\ issued[n] # at
    BY <2>1 DEF AdmInv, MintInv
  <2>2. CASE n \notin DOMAIN issued \/ issued[n] = at
    <3>1. Fresh(at)  BY <1>1, <2>2 DEF issued_at
    <3> QED  BY <3>1, AdmissionAssumption DEF Fresh, AdmInv, AdmTypes
  <2> QED  BY <2>1, <2>2
<1>6. CheckedInv'
  <2> SUFFICES ASSUME NEW d \in Conns, conn'[d].pc = "checked"
               PROVE  /\ conn'[d].signer = conn'[d].key /\ policy(conn'[d].key)
                      /\ \/ conn'[d].seen - conn'[d].at \in 0..TTL
                         \/ \E m \in minted : m.nonce = conn'[d].nonce /\ m.at # conn'[d].at
    BY <1>1 DEF CheckedInv, policy
  <2>1. CASE d = c
    <3>1. conn'[d] = a  BY <1>1, <2>1 DEF AdmInv, AdmTypes
    <3> QED  BY <1>1, <1>2, <1>5, <3>1
  <2>2. CASE d # c
    <3>1. conn'[d] = conn[d]  BY <1>1, <2>2 DEF AdmInv, AdmTypes
    <3> QED  BY <3>1 DEF AdmInv, CheckedInv
  <2> QED  BY <2>1, <2>2
<1> QED  BY <1>3, <1>4, <1>6 DEF AdmInv

LEMMA ConsumeStep == ASSUME AdmInv, NEW c \in Conns, admit_consume(c)  PROVE AdmInv'
<1> DEFINE a == conn[c]
           new == [c |-> c, t |-> now, nonce |-> a.nonce, at |-> a.at, key |-> a.key,
                   signer |-> a.signer, seen |-> a.seen]
<1>1. a \in Presented /\ a.pc = "checked" /\ NoAnswer \in Presented /\ NoAnswer.pc = "idle"
  BY DEF AdmInv, AdmTypes, admit_consume, NoAnswer, Presented
<1>2. conn' = [conn EXCEPT ![c] = NoAnswer] /\ UNCHANGED <<now, minted>>
  BY DEF admit_consume
<1>3. CheckedInv'
  <2> SUFFICES ASSUME NEW d \in Conns, conn'[d].pc = "checked"  PROVE conn'[d] = conn[d]
    BY <1>2 DEF CheckedInv, AdmInv, policy
  <2> QED  BY <1>1, <1>2 DEF AdmInv, AdmTypes
<1>4. CASE ~Spendable(a.nonce, a.at)
  <2>1. UNCHANGED <<issued, admissions>>  BY <1>4 DEF admit_consume
  <2>2. AdmTypes'  BY <1>1, <1>2, <2>1 DEF AdmInv, AdmTypes
  <2>3. MintInv' /\ SpentInv' /\ AdmissionSound' /\ AdmitsOnce'
    BY <1>2, <2>1 DEF AdmInv, MintInv, SpentInv, AdmissionSound, AdmitsOnce
  <2> QED  BY <1>3, <2>2, <2>3 DEF AdmInv
<1>5. CASE Spendable(a.nonce, a.at)
  <2>1. issued' = [k \in DOMAIN issued \ {a.nonce} |-> issued[k]]
        /\ admissions' = admissions \cup {new}
    BY <1>5 DEF admit_consume, Spend, Keep
  <2>2. a.nonce \in DOMAIN issued /\ issued[a.nonce] = a.at  BY <1>5 DEF Spendable
  <2>3. [nonce |-> a.nonce, at |-> a.at] \in minted  BY <2>2 DEF AdmInv, MintInv
  <2>4. \A m \in minted : m.nonce = a.nonce => m.at = a.at
    BY <2>3 DEF AdmInv, MintInv
  <2>5. a.seen - a.at \in 0..TTL /\ a.signer = a.key /\ policy(a.key)
    BY <1>1, <2>4 DEF AdmInv, CheckedInv
  <2>6. new.nonce = a.nonce /\ new.at = a.at /\ new.key = a.key /\ new.signer = a.signer
        /\ new.seen = a.seen
    OBVIOUS
  <2> HIDE DEF new, a
  <2>7. DOMAIN issued' = DOMAIN issued \ {a.nonce}
        /\ \A k \in DOMAIN issued' : issued'[k] = issued[k]
    BY <2>1
  <2>8. AdmTypes'  BY <1>1, <1>2, <2>1, <2>7 DEF AdmInv, AdmTypes
  <2>9. MintInv'  BY <1>2, <2>7 DEF AdmInv, MintInv
  <2>10. SpentInv'  BY <2>1, <2>6, <2>7 DEF AdmInv, SpentInv
  <2>11. AdmissionSound'
    BY <1>2, <2>1, <2>3, <2>5, <2>6 DEF AdmInv, AdmissionSound, policy
  <2>12. AdmitsOnce'  BY <2>1, <2>2, <2>6 DEF AdmInv, AdmitsOnce, SpentInv
  <2> QED  BY <1>3, <2>8, <2>9, <2>10, <2>11, <2>12 DEF AdmInv
<1> QED  BY <1>4, <1>5

LEMMA ElapseStep == ASSUME AdmInv, Elapse  PROVE AdmInv'
<1>1. now' \in Nat /\ UNCHANGED <<issued, conn, minted, admissions>>
  BY DEF Elapse, AdmInv, AdmTypes
<1> QED
  BY <1>1 DEF AdmInv, AdmTypes, MintInv, CheckedInv, SpentInv, AdmissionSound, AdmitsOnce, policy

LEMMA AdmUnchanged == ASSUME AdmInv, UNCHANGED admVars  PROVE AdmInv'
BY DEF admVars, AdmInv, AdmTypes, MintInv, CheckedInv, SpentInv, AdmissionSound, AdmitsOnce, policy

LEMMA AdmNextInv == ASSUME AdmInv, [AdmNext]_admVars  PROVE AdmInv'
<1>1. ASSUME NEW n \in Nonces, NEW c \in Conns, NEW at \in 0..MaxTime, NEW key \in Applicants,
             NEW signer \in Applicants, admit_refuse(c, n, at, key, signer)
      PROVE  AdmInv'
  BY <1>1, AdmUnchanged DEF admit_refuse
<1> QED  BY <1>1, IssueStep, CheckStep, ConsumeStep, ElapseStep, AdmUnchanged DEF AdmNext

-----------------------------------------------------------------------------
\* An admission answers a challenge the gateway handed out at the time the answer
\* names, within its window, signed with a key the mode lets in.
THEOREM AdmissionIsSound == AdmSpec => []AdmissionSound
<1>1. AdmInv => AdmissionSound  BY DEF AdmInv
<1> QED  BY <1>1, AdmInitInv, AdmNextInv, PTL DEF AdmSpec

\* A challenge admits once, over all connections, although the lock of the nonce
\* ledger is released between the look-up and the spending.
THEOREM AdmissionIsOnce == AdmSpec => []AdmitsOnce
<1>1. AdmInv => AdmitsOnce  BY DEF AdmInv
<1> QED  BY <1>1, AdmInitInv, AdmNextInv, PTL DEF AdmSpec

\* A challenge leaves the ledger by an admission or out of its window: no failed
\* attempt of anyone else takes it from its sender.
THEOREM ChallengesNotBurned == AdmSpec => NotBurned
<1> DEFINE P == \A n \in DOMAIN issued \ DOMAIN issued' :
                   \/ \E a \in admissions' : a.nonce = n
                   \/ now - issued[n] > TTL
<1>1. ASSUME AdmInv, [AdmNext]_admVars  PROVE [P]_admVars
  <2>1. ASSUME NEW n \in Nonces, issue_challenge(n)  PROVE P
    <3> SUFFICES ASSUME NEW k \in DOMAIN issued, k \notin DOMAIN issued'
                 PROVE  now - issued[k] > TTL
      OBVIOUS
    <3>1. ~(issued[k] >= now - TTL)  BY <2>1 DEF issue_challenge
    <3>2. issued[k] \in Nat /\ now \in Nat  BY <1>1 DEF AdmInv, AdmTypes
    <3> QED  BY <3>1, <3>2, AdmissionAssumption
  <2>2. ASSUME NEW c \in Conns, admit_consume(c)  PROVE P
    <3>1. CASE Spendable(conn[c].nonce, conn[c].at)
      <4>1. DOMAIN issued' = DOMAIN issued \ {conn[c].nonce}
        BY <2>2, <3>1 DEF admit_consume, Spend, Keep
      <4> DEFINE b == [c |-> c, t |-> now, nonce |-> conn[c].nonce, at |-> conn[c].at,
                       key |-> conn[c].key, signer |-> conn[c].signer, seen |-> conn[c].seen]
      <4>2. b \in admissions' /\ b.nonce = conn[c].nonce
        BY <2>2, <3>1 DEF admit_consume
      <4> HIDE DEF b
      <4> QED  BY <4>1, <4>2
    <3>2. CASE ~Spendable(conn[c].nonce, conn[c].at)
      BY <2>2, <3>2 DEF admit_consume
    <3> QED  BY <3>1, <3>2
  <2>3. ASSUME NEW n \in Nonces, NEW c \in Conns, NEW at \in 0..MaxTime, NEW key \in Applicants,
               NEW signer \in Applicants,
               admit_check(c, n, at, key, signer) \/ admit_refuse(c, n, at, key, signer)
        PROVE  P
    BY <2>3 DEF admit_check, admit_refuse, admVars
  <2>4. ASSUME Elapse  PROVE P  BY <2>4 DEF Elapse
  <2>5. AdmNext => P
    <3> HIDE DEF P
    <3> QED  BY <2>1, <2>2, <2>3, <2>4 DEF AdmNext
  <2> QED  BY <1>1, <2>5
<1> QED  BY <1>1, AdmInitInv, AdmNextInv, PTL DEF AdmSpec, NotBurned

\* Admissions are sound, and one per challenge, over any number of connections
\* (admit, ChallengeLedger).
THEOREM AdmissionIsSafe == AdmSpec => []AdmissionSafe
BY AdmissionIsSound, AdmissionIsOnce, PTL DEF AdmissionSafe

-----------------------------------------------------------------------------
(***************************************************************************)
(* The tenants of a shared gateway stay apart, for any domains, names,     *)
(* keys, tokens and quotas.  The two tables of an allocator are inverses of *)
(* each other and hold no reserved name, because every write touches both; *)
(* what a domain owns is reserved there, and a domain that is not served   *)
(* owns nothing; what was metered is what is spent plus what is in use,    *)
(* across every reset; and a one-time token is used at most once because   *)
(* using it burns it in the same step.                                     *)
(***************************************************************************)

\* An allocator whose tables are inverses of each other, whose keys have one
\* name and whose names are neither reserved nor of the reserved form.
Alloc(a) ==
    /\ a = [vanity |-> a.vanity, reverse |-> a.reverse, reserved |-> a.reserved]
    /\ a.reverse = {<<a.vanity[lp], lp>> : lp \in DOMAIN a.vanity}
    /\ \A l1, l2 \in DOMAIN a.vanity : a.vanity[l1] = a.vanity[l2] => l1 = l2
    /\ DOMAIN a.vanity \cap (a.reserved \cup ReservedForm) = {}

Row(r) == /\ r = [target |-> r.target, exp |-> r.exp, one_time |-> r.one_time, burned |-> r.burned]
          /\ r.exp \in Int /\ r.one_time \in BOOLEAN /\ r.burned \in BOOLEAN

Tenant(t) ==
    /\ t = [directory |-> t.directory, aliases |-> t.aliases, random |-> t.random, blocked |-> t.blocked,
            suspended |-> t.suspended, quota |-> t.quota, usage |-> t.usage]
    /\ Alloc(t.aliases)
    /\ DOMAIN t.directory \subseteq t.aliases.reserved \cap Names
    /\ \A lp \in DOMAIN t.directory : t.directory[lp] \in Keys
    /\ DOMAIN t.random \subseteq Tokens /\ \A k \in DOMAIN t.random : Row(t.random[k])
    /\ t.blocked \subseteq Senders /\ t.suspended \subseteq Names
    /\ t.usage.messages \in Nat

TenantTypes ==
    /\ clock \in 0 .. MaxClock /\ global_blocked \subseteq Senders /\ reply \in {0, 2, 4, 5}
    /\ tenants = [d \in DOMAIN tenants |-> tenants[d]] /\ DOMAIN tenants \subseteq ValidDomains
    /\ meter \in [Domains -> 0 .. MaxMetered] /\ spent \in [Domains -> Nat]
    /\ uses \in [Domains -> [Tokens -> Nat]] /\ owned \in [Domains -> SUBSET Names]

TenantsInv == /\ \A d \in DOMAIN tenants : Tenant(tenants[d]) /\ owned[d] \subseteq tenants[d].aliases.reserved
              /\ \A d \in Domains \ DOMAIN tenants : owned[d] = {}

TenancyInv == TenantTypes /\ TenantsInv /\ OneTimeOnce /\ MeterExact

\* What a step does to the rows of random aliases: they stay as they are, or burn.
RowsStay(old, new) ==
    /\ DOMAIN old \subseteq DOMAIN new
    /\ \A k \in DOMAIN old : /\ new[k].exp = old[k].exp
                             /\ old[k].burned => new[k].burned
Retires == /\ clock' >= clock
           /\ \A d \in DOMAIN tenants \cap DOMAIN tenants' : RowsStay(tenants[d].random, tenants'[d].random)
Untouched == UNCHANGED <<tenants, global_blocked, meter, spent, uses, owned>>
StepKeeps == TenancyInv' /\ Retires /\ (reply' \in {4, 5} => Untouched)

LEMMA TenancyInit == Init => TenancyInv
<1> SUFFICES ASSUME Init PROVE TenancyInv OBVIOUS
<1>1. DOMAIN tenants = {} BY DEF Init
<1>2. tenants = [d \in DOMAIN tenants |-> tenants[d]]
  <2>1. \A f : f = <<>> => f = [d \in {} |-> f[d]] OBVIOUS
  <2> QED BY <1>1, <2>1 DEF Init
<1>3. TenantTypes BY <1>1, <1>2, MultiDomainAssumption DEF Init, TenantTypes
<1>4. TenantsInv /\ OneTimeOnce BY <1>1 DEF TenantsInv, OneTimeOnce, Init
<1>5. MeterExact BY <1>1 DEF MeterExact, Init, serves
<1> QED BY <1>3, <1>4, <1>5 DEF TenancyInv

-----------------------------------------------------------------------------
(* The allocator.                                                          *)

LEMMA NewAlloc == Alloc(NewAllocator)
<1>1. PICK a : a = NewAllocator OBVIOUS
<1>2. a.vanity = <<>> /\ a.reverse = {} /\ a.reserved = {} BY <1>1 DEF NewAllocator
<1>3. DOMAIN a.vanity = {} BY <1>2
<1>4. a = [vanity |-> a.vanity, reverse |-> a.reverse, reserved |-> a.reserved] BY <1>1, <1>2 DEF NewAllocator
<1> QED BY <1>1, <1>2, <1>3, <1>4 DEF Alloc

\* A key that gives up its name has none.
LEMMA DropKeeps ==
    ASSUME NEW a, Alloc(a), NEW key, NEW b, b = DropHeld(a, key)
    PROVE  /\ Alloc(b) /\ b.reserved = a.reserved
           /\ DOMAIN b.vanity \subseteq DOMAIN a.vanity /\ \A lp \in DOMAIN b.vanity : b.vanity[lp] # key
<1>1. CASE Held(a, key) = {}
  <2>1. b = a BY <1>1 DEF DropHeld
  <2>2. ASSUME NEW lp \in DOMAIN a.vanity, a.vanity[lp] = key PROVE FALSE
    <3>1. <<key, lp>> \in a.reverse BY <2>2 DEF Alloc
    <3>2. <<key, lp>> \in Held(a, key) BY <3>1 DEF Held
    <3> QED BY <1>1, <3>2
  <2> QED BY <2>1, <2>2
<1>2. CASE Held(a, key) # {}
  <2>1. PICK e : e \in Held(a, key) /\ b = [a EXCEPT !.reverse = @ \ {e}, !.vanity = Drop(@, e[2])]
    BY <1>2 DEF DropHeld
  <2>2. PICK l \in DOMAIN a.vanity : e = <<a.vanity[l], l>> /\ a.vanity[l] = key
    BY <2>1 DEF Held, Alloc
  <2>3. PICK V : V = Drop(a.vanity, l) OBVIOUS
  <2>4. DOMAIN V = DOMAIN a.vanity \ {l} /\ \A x \in DOMAIN V : V[x] = a.vanity[x] BY <2>3 DEF Drop
  <2>5. PICK R : R = a.reverse \ {e} OBVIOUS
  <2>6. e[2] = l BY <2>2
  <2>7. b = [a EXCEPT !.reverse = R, !.vanity = V] BY <2>1, <2>3, <2>5, <2>6 DEF Alloc
  <2>8. b = [vanity |-> V, reverse |-> R, reserved |-> a.reserved] BY <2>7 DEF Alloc
  <2>9. b.vanity = V /\ b.reverse = R /\ b.reserved = a.reserved BY <2>8
  <2>10. \A x \in DOMAIN V : V[x] # key BY <2>2, <2>4 DEF Alloc
  <2>11. R = {<<V[lp], lp>> : lp \in DOMAIN V}
    <3>1. ASSUME NEW x \in R PROVE x \in {<<V[lp], lp>> : lp \in DOMAIN V}
      <4>1. PICK lp \in DOMAIN a.vanity : x = <<a.vanity[lp], lp>> BY <2>5, <3>1 DEF Alloc
      <4>2. lp # l BY <2>2, <2>5, <3>1, <4>1
      <4> QED BY <2>4, <4>1, <4>2
    <3>2. ASSUME NEW lp \in DOMAIN V PROVE <<V[lp], lp>> \in R
      <4>1. <<V[lp], lp>> \in a.reverse BY <2>4 DEF Alloc
      <4>2. <<V[lp], lp>> # e BY <2>2, <2>4
      <4> QED BY <2>5, <4>1, <4>2
    <3> QED BY <3>1, <3>2
  <2>12. Alloc(b) BY <2>4, <2>8, <2>9, <2>11 DEF Alloc
  <2> QED BY <2>4, <2>9, <2>10, <2>12
<1> QED BY <1>1, <1>2

LEMMA GrantKeeps ==
    ASSUME NEW a, Alloc(a), NEW key, \A x \in DOMAIN a.vanity : a.vanity[x] # key,
           NEW lp, lp \notin DOMAIN a.vanity \cup a.reserved \cup ReservedForm, NEW b, b = Grant(a, key, lp)
    PROVE  Alloc(b) /\ b.reserved = a.reserved
<1>1. PICK V : V = Put(a.vanity, lp, key) OBVIOUS
<1>2. DOMAIN V = DOMAIN a.vanity \cup {lp} /\ V[lp] = key /\ \A x \in DOMAIN a.vanity : V[x] = a.vanity[x]
  BY <1>1 DEF Put
<1>3. PICK R : R = a.reverse \cup {<<key, lp>>} OBVIOUS
<1>4. b = [a EXCEPT !.vanity = V, !.reverse = R] BY <1>1, <1>3 DEF Grant, Alloc
<1>5. b = [vanity |-> V, reverse |-> R, reserved |-> a.reserved] BY <1>4 DEF Alloc
<1>6. b.vanity = V /\ b.reverse = R /\ b.reserved = a.reserved BY <1>5
<1>7. R = {<<V[x], x>> : x \in DOMAIN V} BY <1>2, <1>3 DEF Alloc
<1>8. \A l1, l2 \in DOMAIN V : V[l1] = V[l2] => l1 = l2 BY <1>2 DEF Alloc
<1>9. DOMAIN V \cap (a.reserved \cup ReservedForm) = {} BY <1>2 DEF Alloc
<1> QED BY <1>5, <1>6, <1>7, <1>8, <1>9 DEF Alloc

LEMMA AllocateKeeps ==
    ASSUME NEW a, Alloc(a), NEW key, NEW name, NEW r, r = allocate_vanity(a, key, name)
    PROVE  Alloc(r.a) /\ r.a.reserved = a.reserved /\ (r.err # "none" => r.a = a)
<1>1. PICK lp : lp = Lower[name] OBVIOUS
<1>2. CASE check_vanity(a, name) # "ok"
  <2>1. r = [err |-> check_vanity(a, name), a |-> a] BY <1>2 DEF allocate_vanity
  <2> QED BY <2>1
<1>3. CASE check_vanity(a, name) = "ok" /\ lp \in DOMAIN a.vanity
  <2>1. r.a = a BY <1>1, <1>3 DEF allocate_vanity
  <2> QED BY <2>1
<1>4. CASE check_vanity(a, name) = "ok" /\ lp \notin DOMAIN a.vanity
  <2>1. PICK b : b = DropHeld(a, key) OBVIOUS
  <2>2. /\ Alloc(b) /\ b.reserved = a.reserved
        /\ DOMAIN b.vanity \subseteq DOMAIN a.vanity /\ \A x \in DOMAIN b.vanity : b.vanity[x] # key
    BY <2>1, DropKeeps
  <2>3. r = [err |-> "none", a |-> Grant(b, key, lp)] BY <1>1, <1>4, <2>1 DEF allocate_vanity
  <2>4. lp \notin a.reserved \cup ReservedForm BY <1>1, <1>4 DEF check_vanity
  <2>5. r.a = Grant(b, key, lp) /\ r.err = "none" BY <2>3
  <2>6. Alloc(r.a) /\ r.a.reserved = b.reserved BY <1>4, <2>2, <2>4, <2>5, GrantKeeps
  <2> QED BY <2>2, <2>5, <2>6
<1> QED BY <1>2, <1>3, <1>4

LEMMA ReserveKeeps ==
    ASSUME NEW a, Alloc(a), NEW name, NEW b, b = reserve_localpart(a, name)
    PROVE  Alloc(b) /\ b.reserved = a.reserved \cup {Lower[name]}
<1>1. PICK lp : lp = Lower[name] OBVIOUS
<1>2. PICK V : V = Drop(a.vanity, lp) OBVIOUS
<1>3. DOMAIN V = DOMAIN a.vanity \ {lp} /\ \A x \in DOMAIN V : V[x] = a.vanity[x] BY <1>2 DEF Drop
<1>4. PICK R : R = {e \in a.reverse : e[2] # lp} OBVIOUS
<1>5. b = [vanity |-> V, reverse |-> R, reserved |-> a.reserved \cup {lp}]
  BY <1>1, <1>2, <1>4 DEF reserve_localpart
<1>6. b.vanity = V /\ b.reverse = R /\ b.reserved = a.reserved \cup {lp} BY <1>5
<1>7. R = {<<V[x], x>> : x \in DOMAIN V}
  <2>1. ASSUME NEW e \in R PROVE e \in {<<V[x], x>> : x \in DOMAIN V}
    <3>1. PICK x \in DOMAIN a.vanity : e = <<a.vanity[x], x>> BY <1>4, <2>1 DEF Alloc
    <3>2. x # lp BY <1>4, <2>1, <3>1
    <3> QED BY <1>3, <3>1, <3>2
  <2>2. ASSUME NEW x \in DOMAIN V PROVE <<V[x], x>> \in R
    <3>1. <<V[x], x>> \in a.reverse BY <1>3 DEF Alloc
    <3> QED BY <1>3, <1>4, <3>1
  <2> QED BY <2>1, <2>2
<1>8. b = [vanity |-> b.vanity, reverse |-> b.reverse, reserved |-> b.reserved] BY <1>5, <1>6
<1>9. \A l1, l2 \in DOMAIN V : V[l1] = V[l2] => l1 = l2 BY <1>3 DEF Alloc
<1>10. DOMAIN V \cap ((a.reserved \cup {lp}) \cup ReservedForm) = {} BY <1>3 DEF Alloc
<1> QED BY <1>1, <1>6, <1>7, <1>8, <1>9, <1>10 DEF Alloc

-----------------------------------------------------------------------------
(* Steps.                                                                  *)

LEMMA Classes ==
    /\ Answer(200) = 2 /\ Answer(201) = 2 /\ Answer(250) = 2 /\ Answer(400) = 4 /\ Answer(401) = 4
    /\ Answer(404) = 4 /\ Answer(409) = 4 /\ Answer(452) = 4 /\ Answer(550) = 5 /\ Answer(554) = 5
BY DEF Answer

LEMMA FailKeeps ==
    ASSUME TenancyInv, NEW status, Answer(status) \in {4, 5}, Fail(status)
    PROVE  StepKeeps
<1>1. Untouched /\ reply' \in {4, 5} /\ clock' = clock BY DEF Fail, Untouched
<1>2. TenantTypes' BY <1>1 DEF TenancyInv, TenantTypes, Untouched
<1>3. TenantsInv' BY <1>1 DEF TenancyInv, TenantsInv, Untouched
<1>4. OneTimeOnce' /\ MeterExact' BY <1>1 DEF TenancyInv, OneTimeOnce, MeterExact, Untouched, serves
<1>5. Retires BY <1>1 DEF Retires, RowsStay, TenancyInv, TenantTypes, Untouched
<1> QED BY <1>1, <1>2, <1>3, <1>4, <1>5 DEF StepKeeps, TenancyInv

\* A step that changes one tenant and the books about it.
LEMMA Changed ==
    ASSUME TenancyInv, NEW d \in DOMAIN tenants, NEW t, Tenant(t), tenants' = [tenants EXCEPT ![d] = t],
           UNCHANGED <<clock, global_blocked, spent>>, reply' \in {2, 4}, reply' = 4 => Untouched,
           owned' \in [Domains -> SUBSET Names], owned'[d] \subseteq t.aliases.reserved,
           uses' \in [Domains -> [Tokens -> Nat]],
           \A k \in DOMAIN t.random : t.random[k].one_time => uses'[d][k] <= IF t.random[k].burned THEN 1 ELSE 0,
           meter' \in [Domains -> 0 .. MaxMetered], meter'[d] = spent[d] + t.usage.messages,
           \A x \in Domains \ {d} : owned'[x] = owned[x] /\ uses'[x] = uses[x] /\ meter'[x] = meter[x],
           RowsStay(tenants[d].random, t.random)
    PROVE  StepKeeps
<1>1. /\ DOMAIN tenants' = DOMAIN tenants /\ tenants'[d] = t
      /\ \A x \in DOMAIN tenants \ {d} : tenants'[x] = tenants[x]
  OBVIOUS
<1>2. TenantTypes /\ TenantsInv /\ OneTimeOnce /\ MeterExact BY DEF TenancyInv
<1>3. DOMAIN tenants \subseteq ValidDomains /\ DOMAIN tenants \subseteq Domains
  BY <1>2, MultiDomainAssumption DEF TenantTypes
<1>4. TenantTypes'
  <2>1. tenants' = [x \in DOMAIN tenants' |-> tenants'[x]] OBVIOUS
  <2>2. DOMAIN tenants' \subseteq ValidDomains BY <1>1, <1>3
  <2> QED BY <1>2, <2>1, <2>2 DEF TenantTypes
<1>5. TenantsInv'
  <2>0. \A x \in Domains \ DOMAIN tenants' : owned'[x] = {} BY <1>1, <1>2, <1>3 DEF TenantsInv
  <2> SUFFICES ASSUME NEW x \in DOMAIN tenants
               PROVE  Tenant(tenants'[x]) /\ owned'[x] \subseteq tenants'[x].aliases.reserved
    BY <1>1, <2>0 DEF TenantsInv, Tenant, Alloc, Row
  <2>1. CASE x = d BY <1>1, <2>1
  <2>2. CASE x # d BY <1>1, <1>2, <1>3, <2>2 DEF TenantsInv
  <2> QED BY <2>1, <2>2
<1>6. OneTimeOnce'
  <2> SUFFICES ASSUME NEW x \in DOMAIN tenants, NEW k \in DOMAIN tenants'[x].random, tenants'[x].random[k].one_time
               PROVE  uses'[x][k] <= IF tenants'[x].random[k].burned THEN 1 ELSE 0
    BY <1>1 DEF OneTimeOnce
  <2>1. CASE x = d BY <1>1, <2>1
  <2>2. CASE x # d BY <1>1, <1>2, <1>3, <2>2 DEF OneTimeOnce
  <2> QED BY <2>1, <2>2
<1>7. MeterExact'
  <2> SUFFICES ASSUME NEW x \in Domains
               PROVE  meter'[x] = spent[x] + IF x \in DOMAIN tenants THEN tenants'[x].usage.messages ELSE 0
    BY <1>1 DEF MeterExact, serves
  <2>1. CASE x = d BY <1>1, <2>1
  <2>2. CASE x # d BY <1>1, <1>2, <2>2 DEF MeterExact, serves
  <2> QED BY <2>1, <2>2
<1>8. Retires
  <2>1. \A x \in DOMAIN tenants \ {d} : RowsStay(tenants[x].random, tenants'[x].random) BY <1>1 DEF RowsStay
  <2>2. RowsStay(tenants[d].random, tenants'[d].random) BY <1>1
  <2>3. clock \in Int BY <1>2 DEF TenantTypes
  <2>4. clock' >= clock BY <2>3
  <2> QED BY <1>1, <2>1, <2>2, <2>4 DEF Retires
<1> QED BY <1>4, <1>5, <1>6, <1>7, <1>8 DEF StepKeeps, TenancyInv

\* A step that changes one tenant alone, and charges nothing.
LEMMA UpdateKeeps ==
    ASSUME TenancyInv, NEW d \in Domains, serves(d), NEW t, NEW status, Answer(status) \in {2, 4},
           Update(d, t, status), Tenant(t), t.usage = tenants[d].usage,
           tenants[d].aliases.reserved \subseteq t.aliases.reserved, Answer(status) = 4 => t = tenants[d],
           DOMAIN t.random = DOMAIN tenants[d].random,
           \A k \in DOMAIN t.random : /\ t.random[k].exp = tenants[d].random[k].exp
                                      /\ t.random[k].one_time = tenants[d].random[k].one_time
                                      /\ tenants[d].random[k].burned => t.random[k].burned
    PROVE  StepKeeps
<1>1. /\ tenants' = [tenants EXCEPT ![d] = t] /\ reply' = Answer(status)
      /\ UNCHANGED <<clock, global_blocked, meter, spent, uses, owned>>
  BY DEF Update
<1>2. TenantTypes /\ TenantsInv /\ OneTimeOnce /\ MeterExact BY DEF TenancyInv
<1>3. d \in DOMAIN tenants BY DEF serves
<1>4. reply' = 4 => Untouched
  <2>1. tenants = [x \in DOMAIN tenants |-> tenants[x]] BY <1>2 DEF TenantTypes
  <2>2. t = tenants[d] => [tenants EXCEPT ![d] = t] = tenants BY <1>3, <2>1
  <2> QED BY <1>1, <2>2 DEF Untouched
<1>5. owned'[d] \subseteq t.aliases.reserved BY <1>1, <1>2, <1>3 DEF TenantsInv
<1>6. ASSUME NEW k \in DOMAIN t.random, t.random[k].one_time
      PROVE  uses'[d][k] <= IF t.random[k].burned THEN 1 ELSE 0
  <2>1. k \in DOMAIN tenants[d].random /\ tenants[d].random[k].one_time BY <1>6
  <2>2. uses[d][k] <= IF tenants[d].random[k].burned THEN 1 ELSE 0 BY <1>2, <1>3, <2>1 DEF OneTimeOnce
  <2>3. DOMAIN tenants[d].random \subseteq Tokens BY <1>2, <1>3 DEF TenantsInv, Tenant
  <2>4. uses[d][k] \in Nat BY <1>2, <2>1, <2>3 DEF TenantTypes
  <2> QED BY <1>1, <1>6, <2>2, <2>4
<1>7. meter'[d] = spent[d] + t.usage.messages BY <1>1, <1>2, <1>3 DEF MeterExact, serves
<1>8. /\ owned' \in [Domains -> SUBSET Names] /\ uses' \in [Domains -> [Tokens -> Nat]]
      /\ meter' \in [Domains -> 0 .. MaxMetered]
  BY <1>1, <1>2 DEF TenantTypes
<1>9. RowsStay(tenants[d].random, t.random) BY DEF RowsStay
<1>10. \A x \in Domains \ {d} : owned'[x] = owned[x] /\ uses'[x] = uses[x] /\ meter'[x] = meter[x] BY <1>1
<1> QED BY <1>1, <1>3, <1>4, <1>5, <1>6, <1>7, <1>8, <1>9, <1>10, Changed

\* A tenant from its parts.
Whole(dir, al, ran, bl, su, qu, us) ==
    [directory |-> dir, aliases |-> al, random |-> ran, blocked |-> bl, suspended |-> su, quota |-> qu, usage |-> us]

LEMMA WholeTenant ==
    ASSUME NEW dir, NEW al, NEW ran, NEW bl, NEW su, NEW qu, NEW us, NEW t, t = Whole(dir, al, ran, bl, su, qu, us),
           Alloc(al), DOMAIN dir \subseteq al.reserved \cap Names, \A lp \in DOMAIN dir : dir[lp] \in Keys,
           DOMAIN ran \subseteq Tokens, \A k \in DOMAIN ran : Row(ran[k]),
           bl \subseteq Senders, su \subseteq Names, us.messages \in Nat
    PROVE  /\ Tenant(t) /\ t.directory = dir /\ t.aliases = al /\ t.random = ran /\ t.blocked = bl
           /\ t.suspended = su /\ t.quota = qu /\ t.usage = us
<1>1. /\ t.directory = dir /\ t.aliases = al /\ t.random = ran /\ t.blocked = bl
      /\ t.suspended = su /\ t.quota = qu /\ t.usage = us
  BY DEF Whole
<1>2. t = [directory |-> t.directory, aliases |-> t.aliases, random |-> t.random, blocked |-> t.blocked,
           suspended |-> t.suspended, quota |-> t.quota, usage |-> t.usage]
  BY <1>1 DEF Whole
<1> QED BY <1>1, <1>2 DEF Tenant

LEMMA TenantOf ==
    ASSUME TenancyInv, NEW d, serves(d)
    PROVE  /\ Tenant(tenants[d]) /\ owned[d] \subseteq tenants[d].aliases.reserved /\ d \in DOMAIN tenants
           /\ d \in Domains /\ d \in ValidDomains
BY MultiDomainAssumption DEF TenancyInv, TenantsInv, TenantTypes, serves

\* The lists and the quota of a tenant.
LEMMA ListsKeep ==
    ASSUME TenancyInv, NEW d \in Domains, serves(d), NEW t, Update(d, t, 200), NEW o, o = tenants[d],
           NEW bl, bl \subseteq Senders, NEW su, su \subseteq Names, NEW qu,
           t = Whole(o.directory, o.aliases, o.random, bl, su, qu, o.usage)
    PROVE  StepKeeps
<1>1. Tenant(o) BY TenantOf
<1>2. /\ Alloc(o.aliases) /\ DOMAIN o.directory \subseteq o.aliases.reserved \cap Names
      /\ \A lp \in DOMAIN o.directory : o.directory[lp] \in Keys
      /\ DOMAIN o.random \subseteq Tokens /\ \A k \in DOMAIN o.random : Row(o.random[k])
      /\ o.usage.messages \in Nat
  BY <1>1 DEF Tenant
<1>3. Tenant(t) /\ t.usage = o.usage /\ t.aliases = o.aliases /\ t.random = o.random BY <1>2, WholeTenant
<1>4. Answer(200) = 2 BY Classes
<1>5. /\ t.usage = tenants[d].usage /\ tenants[d].aliases.reserved \subseteq t.aliases.reserved
      /\ t.random = tenants[d].random
  BY <1>3
<1> QED BY <1>3, <1>4, <1>5, UpdateKeeps

LEMMA LowerName == \A n \in Locals \cup Vanities \cup Users \cup Tokens : n \in Names /\ Lower[n] \in Names
BY AliasAssumption, MultiDomainAssumption

LEMMA ListStep ==
    ASSUME TenancyInv, NEW d \in Domains, NEW name \in Users,
           suspend(d, name) \/ unsuspend(d, name)
    PROVE  StepKeeps
<1>1. PICK o : o = tenants[d] OBVIOUS
<1>2. serves(d) => Tenant(o) BY <1>1, TenantOf
<1>3. serves(d) => /\ o = Whole(o.directory, o.aliases, o.random, o.blocked, o.suspended, o.quota, o.usage)
                   /\ o.blocked \subseteq Senders /\ o.suspended \subseteq Names
  BY <1>2 DEF Tenant, Whole
<1>4. Lower[name] \in Names BY LowerName
<1>5. CASE suspend(d, name)
  <2>1. PICK S : S = o.suspended \cup {Lower[name]} OBVIOUS
  <2>2. PICK t : t = [tenants[d] EXCEPT !.suspended = S] OBVIOUS
  <2>3. serves(d) => Update(d, t, 200) BY <1>1, <1>3, <1>5, <2>1, <2>2 DEF suspend, Whole
  <2>4. serves(d) => t = Whole(o.directory, o.aliases, o.random, o.blocked, S, o.quota, o.usage)
    BY <1>1, <1>3, <2>2 DEF Whole
  <2>5. serves(d) => S \subseteq Names BY <1>3, <1>4, <2>1
  <2>6. CASE serves(d) BY <1>1, <1>3, <2>3, <2>4, <2>5, <2>6, ListsKeep
  <2>7. CASE ~serves(d) BY <1>5, <2>7, FailKeeps, Classes DEF suspend, Update
  <2> QED BY <2>6, <2>7
<1>6. CASE unsuspend(d, name)
  <2>1. PICK S : S = o.suspended \ {Lower[name]} OBVIOUS
  <2>2. PICK t : t = [tenants[d] EXCEPT !.suspended = S] OBVIOUS
  <2>3. serves(d) => Update(d, t, 200) BY <1>1, <1>3, <1>6, <2>1, <2>2 DEF unsuspend, Whole
  <2>4. serves(d) => t = Whole(o.directory, o.aliases, o.random, o.blocked, S, o.quota, o.usage)
    BY <1>1, <1>3, <2>2 DEF Whole
  <2>5. serves(d) => S \subseteq Names BY <1>3, <2>1
  <2>6. CASE serves(d) BY <1>1, <1>3, <2>3, <2>4, <2>5, <2>6, ListsKeep
  <2>7. CASE ~serves(d) BY <1>6, <2>7, FailKeeps, Classes DEF unsuspend, Update
  <2> QED BY <2>6, <2>7
<1> QED BY <1>5, <1>6

LEMMA QuotaStep ==
    ASSUME TenancyInv, NEW d \in Domains, NEW q, set_quota(d, q)
    PROVE  StepKeeps
<1>1. PICK o : o = tenants[d] OBVIOUS
<1>2. serves(d) => Tenant(o) BY <1>1, TenantOf
<1>3. serves(d) => /\ o = Whole(o.directory, o.aliases, o.random, o.blocked, o.suspended, o.quota, o.usage)
                   /\ o.blocked \subseteq Senders /\ o.suspended \subseteq Names
  BY <1>2 DEF Tenant, Whole
<1>4. PICK t : t = [tenants[d] EXCEPT !.quota = q] OBVIOUS
<1>5. serves(d) => Update(d, t, 200) BY <1>4 DEF set_quota
<1>6. serves(d) => t = Whole(o.directory, o.aliases, o.random, o.blocked, o.suspended, q, o.usage)
  BY <1>1, <1>3, <1>4 DEF Whole
<1>7. CASE serves(d) BY <1>1, <1>3, <1>5, <1>6, <1>7, ListsKeep
<1>8. CASE ~serves(d) BY <1>8, FailKeeps, Classes DEF set_quota, Update
<1> QED BY <1>7, <1>8

\* A step that leaves tenants and books alone.
LEMMA QuietKeeps ==
    ASSUME TenancyInv, UNCHANGED <<tenants, meter, spent, uses, owned>>, clock' \in clock .. MaxClock,
           global_blocked' \subseteq Senders, reply' \in {0, 2, 4, 5}, reply' \in {4, 5} => Untouched
    PROVE  StepKeeps
<1>1. clock' >= clock /\ clock' \in 0 .. MaxClock BY MultiDomainAssumption DEF TenancyInv, TenantTypes
<1>2. TenantTypes' BY <1>1 DEF TenancyInv, TenantTypes
<1>3. TenantsInv' BY DEF TenancyInv, TenantsInv
<1>4. OneTimeOnce' /\ MeterExact' BY DEF TenancyInv, OneTimeOnce, MeterExact, serves
<1>5. Retires BY <1>1 DEF Retires, RowsStay
<1> QED BY <1>2, <1>3, <1>4, <1>5 DEF StepKeeps, TenancyInv

LEMMA BlockStep ==
    ASSUME TenancyInv, NEW d \in Domains, NEW sender \in Senders, NEW global \in BOOLEAN,
           block(d, sender, global) \/ unblock(d, sender, global)
    PROVE  StepKeeps
<1>1. PICK o : o = tenants[d] OBVIOUS
<1>2. serves(d) => Tenant(o) BY <1>1, TenantOf
<1>3. serves(d) => /\ o = Whole(o.directory, o.aliases, o.random, o.blocked, o.suspended, o.quota, o.usage)
                   /\ o.blocked \subseteq Senders /\ o.suspended \subseteq Names
  BY <1>2 DEF Tenant, Whole
<1>4. CASE global
  <2>1. /\ UNCHANGED <<tenants, meter, spent, uses, owned, clock>> /\ reply' = 2
        /\ global_blocked' \in {global_blocked \cup {sender}, global_blocked \ {sender}}
    BY <1>4, Classes DEF block, unblock
  <2>2. global_blocked' \subseteq Senders /\ clock' \in clock .. MaxClock
    BY <2>1, MultiDomainAssumption DEF TenancyInv, TenantTypes
  <2> QED BY <2>1, <2>2, QuietKeeps
<1>5. CASE ~global
  <2>1. PICK B : /\ B \in {o.blocked \cup {sender}, o.blocked \ {sender}}
                 /\ Update(d, [tenants[d] EXCEPT !.blocked = B], 200) \/ ~serves(d)
    <3>1. Update(d, [tenants[d] EXCEPT !.blocked = o.blocked \cup {sender}], 200)
          \/ Update(d, [tenants[d] EXCEPT !.blocked = o.blocked \ {sender}], 200) \/ ~serves(d)
      BY <1>1, <1>3, <1>5 DEF block, unblock, Whole
    <3> QED BY <3>1
  <2>2. CASE ~serves(d) BY <1>5, <2>2, FailKeeps, Classes DEF block, unblock, Update
  <2>3. CASE serves(d)
    <3>1. PICK t : t = [tenants[d] EXCEPT !.blocked = B] OBVIOUS
    <3>2. t = Whole(o.directory, o.aliases, o.random, B, o.suspended, o.quota, o.usage)
      BY <1>1, <1>3, <2>3, <3>1 DEF Whole
    <3>3. Update(d, t, 200) /\ B \subseteq Senders BY <1>3, <2>1, <2>3, <3>1
    <3> QED BY <1>1, <1>3, <2>3, <3>2, <3>3, ListsKeep
  <2> QED BY <2>2, <2>3
<1> QED BY <1>4, <1>5

LEMMA Parts ==
    ASSUME NEW o, Tenant(o)
    PROVE  /\ o = Whole(o.directory, o.aliases, o.random, o.blocked, o.suspended, o.quota, o.usage)
           /\ Alloc(o.aliases) /\ DOMAIN o.directory \subseteq o.aliases.reserved \cap Names
           /\ \A lp \in DOMAIN o.directory : o.directory[lp] \in Keys
           /\ DOMAIN o.random \subseteq Tokens /\ \A k \in DOMAIN o.random : Row(o.random[k])
           /\ o.blocked \subseteq Senders /\ o.suspended \subseteq Names /\ o.usage.messages \in Nat
BY DEF Tenant, Whole

\* The vanity names of a tenant.
LEMMA AliasesKeep ==
    ASSUME TenancyInv, NEW d \in Domains, serves(d), NEW t, NEW status, Update(d, t, status), NEW o, o = tenants[d],
           NEW al, Alloc(al), al.reserved = o.aliases.reserved, t = [o EXCEPT !.aliases = al],
           Answer(status) = 2 \/ (Answer(status) = 4 /\ al = o.aliases)
    PROVE  StepKeeps
<1>1. Tenant(o) BY TenantOf
<1>2. /\ o = Whole(o.directory, o.aliases, o.random, o.blocked, o.suspended, o.quota, o.usage)
      /\ DOMAIN o.directory \subseteq al.reserved \cap Names
      /\ \A lp \in DOMAIN o.directory : o.directory[lp] \in Keys
      /\ DOMAIN o.random \subseteq Tokens /\ \A k \in DOMAIN o.random : Row(o.random[k])
      /\ o.blocked \subseteq Senders /\ o.suspended \subseteq Names /\ o.usage.messages \in Nat
  BY <1>1, Parts
<1>3. t = Whole(o.directory, al, o.random, o.blocked, o.suspended, o.quota, o.usage) BY <1>2 DEF Whole
<1>4. Tenant(t) /\ t.usage = o.usage /\ t.aliases = al /\ t.random = o.random BY <1>2, <1>3, WholeTenant
<1>5. Answer(status) = 4 => t = tenants[d] BY <1>2, <1>3
<1>6. /\ t.usage = tenants[d].usage /\ tenants[d].aliases.reserved \subseteq t.aliases.reserved
      /\ t.random = tenants[d].random
  BY <1>4
<1>7. Answer(status) \in {2, 4} OBVIOUS
<1>8. /\ DOMAIN t.random = DOMAIN tenants[d].random
      /\ \A k \in DOMAIN t.random : /\ t.random[k].exp = tenants[d].random[k].exp
                                    /\ t.random[k].one_time = tenants[d].random[k].one_time
                                    /\ tenants[d].random[k].burned => t.random[k].burned
  BY <1>6
<1>9. TenancyInv /\ d \in Domains /\ serves(d) /\ Update(d, t, status) OBVIOUS
<1> QED BY ONLY <1>4, <1>5, <1>6, <1>7, <1>8, <1>9, UpdateKeeps

LEMMA AllocateStep ==
    ASSUME TenancyInv, NEW d \in Domains, NEW key, NEW name, allocate_name(d, key, name)
    PROVE  StepKeeps
<1>1. CASE ~serves(d) BY <1>1, FailKeeps, Classes DEF allocate_name
<1>2. CASE serves(d)
  <2>1. PICK o : o = tenants[d] OBVIOUS
  <2>2. PICK r : r = allocate_vanity(o.aliases, key, name) OBVIOUS
  <2>3. Alloc(o.aliases) BY <1>2, <2>1, TenantOf DEF Tenant
  <2>4. Alloc(r.a) /\ r.a.reserved = o.aliases.reserved /\ (r.err # "none" => r.a = o.aliases)
    BY <2>2, <2>3, AllocateKeeps
  <2>5. PICK status : status = IF r.err = "none" THEN 201 ELSE 409 OBVIOUS
  <2>6. PICK t : t = [o EXCEPT !.aliases = r.a] OBVIOUS
  <2>7. Update(d, t, status) BY <1>2, <2>1, <2>2, <2>5, <2>6 DEF allocate_name
  <2>8. Answer(status) = 2 \/ (Answer(status) = 4 /\ r.a = o.aliases) BY <2>4, <2>5, Classes
  <2> QED BY <1>2, <2>1, <2>4, <2>6, <2>7, <2>8, AliasesKeep
<1> QED BY <1>1, <1>2

LEMMA RevokeStep ==
    ASSUME TenancyInv, NEW d \in Domains, NEW key, revoke_vanity(d, key)
    PROVE  StepKeeps
<1>1. CASE ~serves(d) \/ Held(tenants[d].aliases, key) = {} BY <1>1, FailKeeps, Classes DEF revoke_vanity
<1>2. CASE ~(~serves(d) \/ Held(tenants[d].aliases, key) = {})
  <2>1. PICK o : o = tenants[d] OBVIOUS
  <2>2. PICK b : b = DropHeld(o.aliases, key) OBVIOUS
  <2>3. Tenant(o) BY <1>2, <2>1, TenantOf
  <2>4. Alloc(b) /\ b.reserved = o.aliases.reserved BY <2>2, <2>3, DropKeeps DEF Tenant
  <2>5. PICK t : t = [o EXCEPT !.aliases = b] OBVIOUS
  <2>6. o = Whole(o.directory, o.aliases, o.random, o.blocked, o.suspended, o.quota, o.usage) BY <2>3, Parts
  <2>7. t = [o EXCEPT !.aliases = release_vanity(@, key)] BY <2>2, <2>5, <2>6 DEF release_vanity, Whole
  <2>8. Update(d, t, 200) BY <1>2, <2>1, <2>7 DEF revoke_vanity
  <2>9. Answer(200) = 2 BY Classes
  <2> QED BY <1>2, <2>1, <2>4, <2>5, <2>8, <2>9, AliasesKeep
<1> QED BY <1>1, <1>2

LEMMA BurnStep ==
    ASSUME TenancyInv, NEW d \in Domains, NEW token, burn_random_alias(d, token)
    PROVE  StepKeeps
<1>1. CASE ~serves(d) \/ token \notin DOMAIN tenants[d].random BY <1>1, FailKeeps, Classes DEF burn_random_alias
<1>2. CASE serves(d) /\ token \in DOMAIN tenants[d].random
  <2>1. PICK o : o = tenants[d] OBVIOUS
  <2>2. Tenant(o) BY <1>2, <2>1, TenantOf
  <2>3. /\ o = Whole(o.directory, o.aliases, o.random, o.blocked, o.suspended, o.quota, o.usage)
        /\ Alloc(o.aliases) /\ DOMAIN o.directory \subseteq o.aliases.reserved \cap Names
        /\ \A lp \in DOMAIN o.directory : o.directory[lp] \in Keys
        /\ DOMAIN o.random \subseteq Tokens /\ \A k \in DOMAIN o.random : Row(o.random[k])
        /\ o.blocked \subseteq Senders /\ o.suspended \subseteq Names /\ o.usage.messages \in Nat
    BY <2>2, Parts
  <2>4. PICK w : w = [o.random[token] EXCEPT !.burned = TRUE] OBVIOUS
  <2>5. Row(o.random[token]) BY <1>2, <2>1, <2>3
  <2>6. /\ w = [target |-> o.random[token].target, exp |-> o.random[token].exp,
                one_time |-> o.random[token].one_time, burned |-> TRUE]
    BY <2>4, <2>5 DEF Row
  <2>7. Row(w) /\ w.exp = o.random[token].exp /\ w.one_time = o.random[token].one_time /\ w.burned = TRUE
    BY <2>5, <2>6 DEF Row
  <2>8. PICK R : R = [o.random EXCEPT ![token] = w] OBVIOUS
  <2>9. R = burn(o.random, token) BY <1>2, <2>1, <2>4, <2>8 DEF burn
  <2>10. DOMAIN R = DOMAIN o.random /\ R[token] = w /\ \A k \in DOMAIN o.random \ {token} : R[k] = o.random[k]
    BY <1>2, <2>1, <2>8
  <2>11. PICK t : t = [o EXCEPT !.random = burn(@, token)] OBVIOUS
  <2>12. t = Whole(o.directory, o.aliases, R, o.blocked, o.suspended, o.quota, o.usage)
    BY <2>3, <2>9, <2>11 DEF Whole
  <2>13. \A k \in DOMAIN R : Row(R[k]) BY <2>3, <2>7, <2>10
  <2>14. DOMAIN R \subseteq Tokens BY <2>3, <2>10
  <2>15. Tenant(t) /\ t.usage = o.usage /\ t.aliases = o.aliases /\ t.random = R
    BY <2>3, <2>12, <2>13, <2>14, WholeTenant
  <2>16. Update(d, t, 200) BY <1>2, <2>1, <2>11 DEF burn_random_alias
  <2>17. \A k \in DOMAIN t.random : /\ t.random[k].exp = tenants[d].random[k].exp
                                    /\ t.random[k].one_time = tenants[d].random[k].one_time
                                    /\ tenants[d].random[k].burned => t.random[k].burned
    BY <2>1, <2>7, <2>10, <2>15
  <2>18. /\ t.usage = tenants[d].usage /\ tenants[d].aliases.reserved \subseteq t.aliases.reserved
         /\ DOMAIN t.random = DOMAIN tenants[d].random
    BY <2>1, <2>10, <2>15
  <2>19. Answer(200) = 2 BY Classes
  <2> QED BY <1>2, <2>15, <2>16, <2>17, <2>18, <2>19, UpdateKeeps
<1> QED BY <1>1, <1>2

LEMMA MintStep ==
    ASSUME TenancyInv, NEW d \in Domains, NEW token \in Tokens, NEW dest, NEW ttl \in Ttls, NEW one_time \in BOOLEAN,
           mint_random_alias(d, token, dest, ttl, one_time)
    PROVE  StepKeeps
<1>1. CASE ~serves(d) BY <1>1, FailKeeps, Classes DEF mint_random_alias
<1>2. CASE serves(d)
  <2>1. PICK o : o = tenants[d] OBVIOUS
  <2>2. Tenant(o) /\ d \in DOMAIN tenants /\ owned[d] \subseteq o.aliases.reserved BY <1>2, <2>1, TenantOf
  <2>3. /\ o = Whole(o.directory, o.aliases, o.random, o.blocked, o.suspended, o.quota, o.usage)
        /\ Alloc(o.aliases) /\ DOMAIN o.directory \subseteq o.aliases.reserved \cap Names
        /\ \A lp \in DOMAIN o.directory : o.directory[lp] \in Keys
        /\ DOMAIN o.random \subseteq Tokens /\ \A k \in DOMAIN o.random : Row(o.random[k])
        /\ o.blocked \subseteq Senders /\ o.suspended \subseteq Names /\ o.usage.messages \in Nat
    BY <2>2, Parts
  <2>4. PICK exp : exp = IF ttl = -1 THEN -1 ELSE clock + ttl OBVIOUS
  <2>5. exp \in Int BY <2>4, MultiDomainAssumption DEF TenancyInv, TenantTypes
  <2>6. PICK w : w = [target |-> dest, exp |-> exp, one_time |-> one_time, burned |-> FALSE] OBVIOUS
  <2>7. Row(w) /\ w.burned = FALSE BY <2>5, <2>6 DEF Row
  <2>8. PICK R : R = Put(o.random, token, w) OBVIOUS
  <2>9. token \notin DOMAIN o.random BY <1>2, <2>1 DEF mint_random_alias, CanMint
  <2>10. DOMAIN R = DOMAIN o.random \cup {token} /\ R[token] = w /\ \A k \in DOMAIN o.random : R[k] = o.random[k]
    BY <2>8, <2>9 DEF Put
  <2>11. PICK t : t = [o EXCEPT !.random = R] OBVIOUS
  <2>12. t = Whole(o.directory, o.aliases, R, o.blocked, o.suspended, o.quota, o.usage) BY <2>3, <2>11 DEF Whole
  <2>13. DOMAIN R \subseteq Tokens /\ \A k \in DOMAIN R : Row(R[k]) BY <2>3, <2>7, <2>10
  <2>14. Tenant(t) /\ t.usage = o.usage /\ t.aliases = o.aliases /\ t.random = R BY <2>3, <2>12, <2>13, WholeTenant
  <2>15. R = mint_row(o.random, token, dest, exp, one_time) BY <2>6, <2>8 DEF mint_row
  <2>16. tenants' = [tenants EXCEPT ![d] = t]
    <3>1. tenants' = [tenants EXCEPT ![d].random = mint_row(@, token, dest, IF ttl = -1 THEN -1 ELSE clock + ttl, one_time)]
      BY <1>2 DEF mint_random_alias
    <3>2. tenants' = [tenants EXCEPT ![d] = [tenants[d] EXCEPT !.random =
                          mint_row(@, token, dest, IF ttl = -1 THEN -1 ELSE clock + ttl, one_time)]]
      BY <2>2, <3>1
    <3>3. t = [o EXCEPT !.random = mint_row(@, token, dest, exp, one_time)] BY <2>3, <2>11, <2>15 DEF Whole
    <3> QED BY <2>1, <2>4, <3>2, <3>3
  <2>17. /\ UNCHANGED <<clock, global_blocked, meter, spent, owned>> /\ reply' = 2
         /\ uses' = [uses EXCEPT ![d][token] = 0]
    BY <1>2, Classes DEF mint_random_alias
  <2>18. TenantTypes /\ OneTimeOnce /\ MeterExact BY DEF TenancyInv
  <2>19. /\ uses' \in [Domains -> [Tokens -> Nat]] /\ uses'[d][token] = 0
         /\ \A k \in Tokens \ {token} : uses'[d][k] = uses[d][k]
         /\ \A x \in Domains \ {d} : uses'[x] = uses[x]
    BY <2>17, <2>18 DEF TenantTypes
  <2>20. ASSUME NEW k \in DOMAIN t.random, t.random[k].one_time
         PROVE  uses'[d][k] <= IF t.random[k].burned THEN 1 ELSE 0
    <3>1. CASE k = token BY <2>7, <2>10, <2>14, <2>19, <3>1
    <3>2. CASE k # token
      <4>1. k \in DOMAIN o.random /\ t.random[k] = o.random[k] /\ k \in Tokens BY <2>3, <2>10, <2>14, <2>20, <3>2
      <4>2. uses[d][k] <= IF o.random[k].burned THEN 1 ELSE 0 BY <2>1, <2>2, <2>18, <2>20, <4>1 DEF OneTimeOnce
      <4> QED BY <2>19, <3>2, <4>1, <4>2
    <3> QED BY <3>1, <3>2
  <2>21. meter'[d] = spent[d] + t.usage.messages BY <2>1, <2>2, <2>14, <2>17, <2>18 DEF MeterExact, serves
  <2>22. owned' \in [Domains -> SUBSET Names] /\ meter' \in [Domains -> 0 .. MaxMetered]
    BY <2>17, <2>18 DEF TenantTypes
  <2>23. RowsStay(tenants[d].random, t.random) BY <2>1, <2>10, <2>14 DEF RowsStay
  <2>24. owned'[d] \subseteq t.aliases.reserved BY <2>2, <2>14, <2>17
  <2>25. \A x \in Domains \ {d} : owned'[x] = owned[x] /\ uses'[x] = uses[x] /\ meter'[x] = meter[x]
    BY <2>17, <2>19
  <2>26. reply' \in {2, 4} /\ (reply' = 4 => Untouched) /\ UNCHANGED <<clock, global_blocked, spent>> BY <2>17
  <2>27. uses' \in [Domains -> [Tokens -> Nat]] BY <2>19
  <2> QED BY <2>2, <2>14, <2>16, <2>20, <2>21, <2>22, <2>23, <2>24, <2>25, <2>26, <2>27, Changed
<1> QED BY <1>1, <1>2

\* A recipient's local part is reserved from then on.
LEMMA AddRecipientStep ==
    ASSUME TenancyInv, NEW d \in Domains, NEW path, NEW name \in Locals, NEW angle, NEW key \in Keys,
           add_recipient(path, d, name, angle, key)
    PROVE  StepKeeps
<1>1. CASE angle \/ path # d BY <1>1, FailKeeps, Classes DEF add_recipient
<1>2. CASE ~(angle \/ path # d) /\ ~serves(d) BY <1>2, FailKeeps, Classes DEF add_recipient
<1>3. CASE ~(angle \/ path # d) /\ serves(d)
  <2>1. PICK o : o = tenants[d] OBVIOUS
  <2>2. Tenant(o) /\ d \in DOMAIN tenants /\ owned[d] \subseteq o.aliases.reserved BY <1>3, <2>1, TenantOf
  <2>3. /\ o = Whole(o.directory, o.aliases, o.random, o.blocked, o.suspended, o.quota, o.usage)
        /\ Alloc(o.aliases) /\ DOMAIN o.directory \subseteq o.aliases.reserved \cap Names
        /\ \A lp \in DOMAIN o.directory : o.directory[lp] \in Keys
        /\ DOMAIN o.random \subseteq Tokens /\ \A k \in DOMAIN o.random : Row(o.random[k])
        /\ o.blocked \subseteq Senders /\ o.suspended \subseteq Names /\ o.usage.messages \in Nat
    BY <2>2, Parts
  <2>4. PICK lp : lp = Lower[name] OBVIOUS
  <2>5. lp \in Names BY <2>4, LowerName
  <2>6. PICK al : al = reserve_localpart(o.aliases, name) OBVIOUS
  <2>7. Alloc(al) /\ al.reserved = o.aliases.reserved \cup {lp} BY <2>3, <2>4, <2>6, ReserveKeeps
  <2>8. PICK dir : dir = Put(o.directory, lp, key) OBVIOUS
  <2>9. DOMAIN dir = DOMAIN o.directory \cup {lp} /\ \A x \in DOMAIN dir : dir[x] \in Keys BY <2>3, <2>8 DEF Put
  <2>10. PICK t : t = AddRecipient(o, name, key) OBVIOUS
  <2>11. t = Whole(dir, al, o.random, o.blocked, o.suspended, o.quota, o.usage)
    BY <2>3, <2>4, <2>6, <2>8, <2>10 DEF AddRecipient, Whole
  <2>12. DOMAIN dir \subseteq al.reserved \cap Names BY <2>3, <2>5, <2>7, <2>9
  <2>13. Tenant(t) /\ t.usage = o.usage /\ t.aliases = al /\ t.random = o.random
    BY <2>3, <2>7, <2>9, <2>11, <2>12, WholeTenant
  <2>14. /\ tenants' = [tenants EXCEPT ![d] = AddRecipient(@, name, key)] /\ reply' = 2
         /\ owned' = [owned EXCEPT ![d] = @ \cup {lp}]
         /\ UNCHANGED <<clock, global_blocked, meter, spent, uses>>
    BY <1>3, <2>4, Classes DEF add_recipient
  <2>15. tenants' = [tenants EXCEPT ![d] = t] BY <2>1, <2>2, <2>10, <2>14
  <2>16. TenantTypes /\ OneTimeOnce /\ MeterExact BY DEF TenancyInv
  <2>17. /\ owned' \in [Domains -> SUBSET Names] /\ owned'[d] = owned[d] \cup {lp}
         /\ \A x \in Domains \ {d} : owned'[x] = owned[x] /\ uses'[x] = uses[x] /\ meter'[x] = meter[x]
    BY <2>5, <2>14, <2>16 DEF TenantTypes
  <2>18. owned'[d] \subseteq t.aliases.reserved BY <2>2, <2>7, <2>13, <2>17
  <2>19. \A k \in DOMAIN t.random : t.random[k].one_time => uses'[d][k] <= IF t.random[k].burned THEN 1 ELSE 0
    BY <2>1, <2>2, <2>13, <2>14, <2>16 DEF OneTimeOnce
  <2>20. meter'[d] = spent[d] + t.usage.messages BY <2>1, <2>2, <2>13, <2>14, <2>16 DEF MeterExact, serves
  <2>21. uses' \in [Domains -> [Tokens -> Nat]] /\ meter' \in [Domains -> 0 .. MaxMetered]
    BY <2>14, <2>16 DEF TenantTypes
  <2>22. RowsStay(tenants[d].random, t.random) BY <2>1, <2>13 DEF RowsStay
  <2>23. reply' \in {2, 4} /\ (reply' = 4 => Untouched) /\ UNCHANGED <<clock, global_blocked, spent>> BY <2>14
  <2>24. TenancyInv /\ owned' \in [Domains -> SUBSET Names] BY <2>17
  <2>25. \A x \in Domains \ {d} : owned'[x] = owned[x] /\ uses'[x] = uses[x] /\ meter'[x] = meter[x] BY <2>17
  <2> QED BY ONLY <2>2, <2>13, <2>15, <2>18, <2>19, <2>20, <2>21, <2>22, <2>23, <2>24, <2>25, Changed
<1> QED BY <1>1, <1>2, <1>3

LEMMA RemoveRecipientStep ==
    ASSUME TenancyInv, NEW d \in Domains, NEW name, NEW angle, remove_recipient(d, name, angle)
    PROVE  StepKeeps
<1>1. CASE ~serves(d) \/ angle \/ Lower[name] \notin DOMAIN tenants[d].directory
  BY <1>1, FailKeeps, Classes DEF remove_recipient
<1>2. CASE ~(~serves(d) \/ angle \/ Lower[name] \notin DOMAIN tenants[d].directory)
  <2>1. PICK o : o = tenants[d] OBVIOUS
  <2>2. Tenant(o) BY <1>2, <2>1, TenantOf
  <2>3. /\ o = Whole(o.directory, o.aliases, o.random, o.blocked, o.suspended, o.quota, o.usage)
        /\ Alloc(o.aliases) /\ DOMAIN o.directory \subseteq o.aliases.reserved \cap Names
        /\ \A lp \in DOMAIN o.directory : o.directory[lp] \in Keys
        /\ DOMAIN o.random \subseteq Tokens /\ \A k \in DOMAIN o.random : Row(o.random[k])
        /\ o.blocked \subseteq Senders /\ o.suspended \subseteq Names /\ o.usage.messages \in Nat
    BY <2>2, Parts
  <2>4. PICK dir : dir = Drop(o.directory, Lower[name]) OBVIOUS
  <2>5. DOMAIN dir \subseteq DOMAIN o.directory /\ \A x \in DOMAIN dir : dir[x] = o.directory[x] BY <2>4 DEF Drop
  <2>6. PICK t : t = RemoveRecipient(o, name) OBVIOUS
  <2>7. t = Whole(dir, o.aliases, o.random, o.blocked, o.suspended, o.quota, o.usage)
    BY <2>3, <2>4, <2>6 DEF RemoveRecipient, Whole
  <2>8. DOMAIN dir \subseteq o.aliases.reserved \cap Names /\ \A x \in DOMAIN dir : dir[x] \in Keys BY <2>3, <2>5
  <2>9. Tenant(t) /\ t.usage = o.usage /\ t.aliases = o.aliases /\ t.random = o.random
    BY <2>3, <2>7, <2>8, WholeTenant
  <2>10. Update(d, t, 200) BY <1>2, <2>1, <2>6 DEF remove_recipient
  <2>11. /\ t.usage = tenants[d].usage /\ tenants[d].aliases.reserved \subseteq t.aliases.reserved
         /\ t.random = tenants[d].random
    BY <2>1, <2>9
  <2>12. Answer(200) = 2 BY Classes
  <2> QED BY <1>2, <2>9, <2>10, <2>11, <2>12, UpdateKeeps
<1> QED BY <1>1, <1>2

LEMMA AddDomainStep ==
    ASSUME TenancyInv, NEW d \in Domains, NEW quota, add_domain(d, quota)
    PROVE  StepKeeps
<1>1. CASE d \notin ValidDomains BY <1>1, FailKeeps, Classes DEF add_domain
<1>2. CASE d \in ValidDomains /\ serves(d) BY <1>2, FailKeeps, Classes DEF add_domain
<1>3. CASE d \in ValidDomains /\ ~serves(d)
  <2>1. PICK t : t = [NewTenant EXCEPT !.quota = quota] OBVIOUS
  <2>2. t = Whole(<<>>, NewAllocator, <<>>, {}, {}, quota, NewUsage) BY <2>1 DEF NewTenant, Whole
  <2>3. DOMAIN <<>> = {} /\ NewUsage.messages = 0 BY DEF NewUsage
  <2>4. Tenant(t) /\ t.usage = NewUsage /\ t.aliases = NewAllocator /\ t.random = <<>>
    BY <2>2, <2>3, NewAlloc, WholeTenant
  <2>5. /\ tenants' = Put(tenants, d, t) /\ reply' = 2
        /\ UNCHANGED <<clock, global_blocked, meter, spent, uses, owned>>
    BY <1>3, <2>1, Classes DEF add_domain
  <2>6. /\ DOMAIN tenants' = DOMAIN tenants \cup {d} /\ tenants'[d] = t /\ d \notin DOMAIN tenants
        /\ \A x \in DOMAIN tenants : tenants'[x] = tenants[x]
        /\ tenants' = [x \in DOMAIN tenants' |-> tenants'[x]]
    BY <1>3, <2>5 DEF Put, serves
  <2>7. TenantTypes /\ TenantsInv /\ OneTimeOnce /\ MeterExact BY DEF TenancyInv
  <2>8. TenantTypes' BY <1>3, <2>5, <2>6, <2>7 DEF TenantTypes
  <2>9. TenantsInv'
    <3>1. owned[d] = {} BY <1>3, <2>7 DEF TenantsInv, serves
    <3>2. ASSUME NEW x \in DOMAIN tenants' PROVE Tenant(tenants'[x]) /\ owned'[x] \subseteq tenants'[x].aliases.reserved
      <4>1. CASE x = d BY <2>4, <2>5, <2>6, <3>1, <4>1
      <4>2. CASE x # d BY <2>5, <2>6, <2>7, <3>2, <4>2 DEF TenantsInv
      <4> QED BY <4>1, <4>2
    <3>3. \A x \in Domains \ DOMAIN tenants' : owned'[x] = {} BY <2>5, <2>6, <2>7 DEF TenantsInv
    <3> QED BY <3>2, <3>3 DEF TenantsInv, Tenant, Alloc, Row
  <2>10. OneTimeOnce'
    <3> SUFFICES ASSUME NEW x \in DOMAIN tenants', NEW k \in DOMAIN tenants'[x].random, tenants'[x].random[k].one_time
                 PROVE  uses'[x][k] <= IF tenants'[x].random[k].burned THEN 1 ELSE 0
      BY DEF OneTimeOnce
    <3>1. x # d BY <2>3, <2>4, <2>6
    <3> QED BY <2>5, <2>6, <2>7, <3>1 DEF OneTimeOnce
  <2>11. MeterExact'
    <3> SUFFICES ASSUME NEW x \in Domains
                 PROVE  meter'[x] = spent'[x] + IF x \in DOMAIN tenants' THEN tenants'[x].usage.messages ELSE 0
      BY DEF MeterExact, serves
    <3>1. meter[x] = spent[x] + IF x \in DOMAIN tenants THEN tenants[x].usage.messages ELSE 0
      BY <2>7 DEF MeterExact, serves
    <3>2. CASE x = d BY <2>3, <2>4, <2>5, <2>6, <3>1, <3>2
    <3>3. CASE x # d BY <2>5, <2>6, <3>1, <3>3
    <3> QED BY <3>2, <3>3
  <2>12. Retires BY <2>5, <2>6, <2>7 DEF Retires, RowsStay, TenantTypes
  <2> QED BY <2>5, <2>8, <2>9, <2>10, <2>11, <2>12 DEF StepKeeps, TenancyInv
<1> QED BY <1>1, <1>2, <1>3

LEMMA RemoveDomainStep ==
    ASSUME TenancyInv, NEW d \in Domains, remove_domain(d)
    PROVE  StepKeeps
<1>1. CASE ~serves(d) BY <1>1, FailKeeps, Classes DEF remove_domain
<1>2. CASE serves(d)
  <2>1. /\ tenants' = Drop(tenants, d) /\ reply' = 2
        /\ spent' = [spent EXCEPT ![d] = @ + tenants[d].usage.messages]
        /\ uses' = [uses EXCEPT ![d] = [t \in Tokens |-> 0]]
        /\ owned' = [owned EXCEPT ![d] = {}]
        /\ UNCHANGED <<clock, global_blocked, meter>>
    BY <1>2, Classes DEF remove_domain
  <2>2. /\ DOMAIN tenants' = DOMAIN tenants \ {d} /\ d \in DOMAIN tenants
        /\ \A x \in DOMAIN tenants' : tenants'[x] = tenants[x]
        /\ tenants' = [x \in DOMAIN tenants' |-> tenants'[x]]
    BY <1>2, <2>1 DEF Drop, serves
  <2>3. TenantTypes /\ TenantsInv /\ OneTimeOnce /\ MeterExact BY DEF TenancyInv
  <2>4. DOMAIN tenants \subseteq ValidDomains /\ DOMAIN tenants \subseteq Domains
    BY <2>3, MultiDomainAssumption DEF TenantTypes
  <2>5. tenants[d].usage.messages \in Nat BY <1>2, TenantOf DEF Tenant
  <2>6. /\ spent' \in [Domains -> Nat] /\ spent'[d] = spent[d] + tenants[d].usage.messages
        /\ \A x \in Domains \ {d} : spent'[x] = spent[x]
    <3>1. PICK m \in Nat : m = tenants[d].usage.messages BY <2>5
    <3>2. spent' = [spent EXCEPT ![d] = spent[d] + m] BY <2>1, <2>3, <3>1 DEF TenantTypes
    <3>3. spent \in [Domains -> Nat] BY <2>3 DEF TenantTypes
    <3> QED BY <3>1, <3>2, <3>3
  <2>7. uses' \in [Domains -> [Tokens -> Nat]] /\ \A x \in Domains \ {d} : uses'[x] = uses[x]
    BY <2>1, <2>3 DEF TenantTypes
  <2>8. /\ owned' \in [Domains -> SUBSET Names] /\ owned'[d] = {}
        /\ \A x \in Domains \ {d} : owned'[x] = owned[x]
    BY <2>1, <2>3 DEF TenantTypes
  <2>9. TenantTypes' BY <2>1, <2>2, <2>3, <2>4, <2>6, <2>7, <2>8 DEF TenantTypes
  <2>10. TenantsInv'
    <3>1. \A x \in DOMAIN tenants' : Tenant(tenants'[x]) /\ owned'[x] \subseteq tenants'[x].aliases.reserved
      BY <2>2, <2>3, <2>4, <2>8 DEF TenantsInv
    <3>2. \A x \in Domains \ DOMAIN tenants' : owned'[x] = {} BY <2>2, <2>3, <2>8 DEF TenantsInv
    <3> QED BY <3>1, <3>2 DEF TenantsInv, Tenant, Alloc, Row
  <2>11. OneTimeOnce' BY <2>2, <2>3, <2>4, <2>7 DEF OneTimeOnce
  <2>12. MeterExact'
    <3> SUFFICES ASSUME NEW x \in Domains
                 PROVE  meter'[x] = spent'[x] + IF x \in DOMAIN tenants' THEN tenants'[x].usage.messages ELSE 0
      BY DEF MeterExact, serves
    <3>1. meter[x] = spent[x] + IF x \in DOMAIN tenants THEN tenants[x].usage.messages ELSE 0
      BY <2>3 DEF MeterExact, serves
    <3>2. CASE x = d
      <4>1. PICK m \in Nat : m = tenants[d].usage.messages BY <2>5
      <4>2. spent[d] \in Nat BY <2>3 DEF TenantTypes
      <4> QED BY <2>1, <2>2, <2>6, <3>1, <3>2, <4>1, <4>2
    <3>3. CASE x # d BY <2>1, <2>2, <2>6, <3>1, <3>3
    <3> QED BY <3>2, <3>3
  <2>13. Retires BY <2>1, <2>2, <2>3 DEF Retires, RowsStay, TenantTypes
  <2> QED BY <2>1, <2>9, <2>10, <2>11, <2>12, <2>13 DEF StepKeeps, TenancyInv
<1> QED BY <1>1, <1>2

LEMMA RouteErrors ==
    ASSUME NEW d, NEW sender, NEW lp
    PROVE  /\ RouteError(d, sender, lp) \in {0, 550, 554}
           /\ RouteError(d, sender, lp) = 0 => serves(d)
BY DEF RouteError

\* A one-time alias is burned by the lookup that it serves.
LEMMA RouteStep ==
    ASSUME TenancyInv, NEW d \in Domains, NEW sender, NEW name, route(sender, d, name)
    PROVE  StepKeeps
<1>1. PICK lp : lp = Lower[name] OBVIOUS
<1>2. PICK err : err = RouteError(d, sender, lp) OBVIOUS
<1>3. err \in {0, 550, 554} /\ (err = 0 => serves(d)) BY <1>2, RouteErrors
<1>4. PICK r : r = Resolution(tenants[d], lp) OBVIOUS
<1>5. CASE err # 0
  <2>1. Fail(err) BY <1>1, <1>2, <1>5 DEF route
  <2>2. Answer(err) \in {4, 5} BY <1>3, <1>5, Classes
  <2> QED BY <2>1, <2>2, FailKeeps
<1>6. CASE err = 0 /\ r.via = "none"
  <2>1. Fail(550) BY <1>1, <1>2, <1>4, <1>6 DEF route
  <2> QED BY <2>1, FailKeeps, Classes
<1>7. CASE err = 0 /\ r.via \notin {"none", "random"}
  <2>1. reply' = Answer(250) /\ tenants' = tenants /\ uses' = uses
        /\ UNCHANGED <<clock, global_blocked, meter, spent, owned>>
    BY <1>1, <1>2, <1>4, <1>7 DEF route
  <2>2. clock' \in clock .. MaxClock /\ global_blocked' \subseteq Senders
    BY <2>1, MultiDomainAssumption DEF TenancyInv, TenantTypes
  <2>3. reply' = 2 BY <2>1, Classes
  <2> QED BY <2>1, <2>2, <2>3, QuietKeeps
<1>8. CASE err = 0 /\ r.via = "random"
  <2>1. PICK o : o = tenants[d] OBVIOUS
  <2>2. Tenant(o) /\ d \in DOMAIN tenants /\ owned[d] \subseteq o.aliases.reserved BY <1>3, <1>8, <2>1, TenantOf
  <2>3. /\ o = Whole(o.directory, o.aliases, o.random, o.blocked, o.suspended, o.quota, o.usage)
        /\ Alloc(o.aliases) /\ DOMAIN o.directory \subseteq o.aliases.reserved \cap Names
        /\ \A x \in DOMAIN o.directory : o.directory[x] \in Keys
        /\ DOMAIN o.random \subseteq Tokens /\ \A k \in DOMAIN o.random : Row(o.random[k])
        /\ o.blocked \subseteq Senders /\ o.suspended \subseteq Names /\ o.usage.messages \in Nat
    BY <2>2, Parts
  <2>4. Live(o.random, lp, clock) BY <1>4, <1>8, <2>1 DEF Resolution
  <2>5. lp \in DOMAIN o.random /\ ~o.random[lp].burned BY <2>4 DEF Live
  <2>6. PICK w : w = [o.random[lp] EXCEPT !.burned = TRUE] OBVIOUS
  <2>7. Row(o.random[lp]) /\ lp \in Tokens BY <2>3, <2>5
  <2>8. /\ w = [target |-> o.random[lp].target, exp |-> o.random[lp].exp,
                one_time |-> o.random[lp].one_time, burned |-> TRUE]
    BY <2>6, <2>7 DEF Row
  <2>9. Row(w) /\ w.exp = o.random[lp].exp /\ w.one_time = o.random[lp].one_time /\ w.burned = TRUE
    BY <2>7, <2>8 DEF Row
  <2>10. PICK once \in BOOLEAN : once = o.random[lp].one_time BY <2>7 DEF Row
  <2>11. PICK R : R = spend(o.random, lp) OBVIOUS
  <2>12. R = IF once THEN [o.random EXCEPT ![lp] = w] ELSE o.random BY <2>5, <2>6, <2>10, <2>11 DEF spend
  <2>13. /\ DOMAIN R = DOMAIN o.random /\ (once => R[lp] = w)
         /\ \A k \in DOMAIN o.random : (~once \/ k # lp) => R[k] = o.random[k]
    BY <2>5, <2>12
  <2>14. PICK t : t = [o EXCEPT !.random = spend(@, lp)] OBVIOUS
  <2>15. t = Whole(o.directory, o.aliases, R, o.blocked, o.suspended, o.quota, o.usage)
    BY <2>3, <2>11, <2>14 DEF Whole
  <2>16. DOMAIN R \subseteq Tokens /\ \A k \in DOMAIN R : Row(R[k]) BY <2>3, <2>9, <2>13
  <2>17. Tenant(t) /\ t.usage = o.usage /\ t.aliases = o.aliases /\ t.random = R BY <2>3, <2>15, <2>16, WholeTenant
  <2>18. /\ reply' = Answer(250) /\ UNCHANGED <<clock, global_blocked, meter, spent, owned>>
         /\ tenants' = [tenants EXCEPT ![d].random = spend(@, lp)]
         /\ uses' = IF once THEN [uses EXCEPT ![d][lp] = @ + 1] ELSE uses
    BY <1>1, <1>2, <1>4, <1>8, <2>1, <2>10 DEF route
  <2>19. tenants' = [tenants EXCEPT ![d] = t]
    <3>1. tenants' = [tenants EXCEPT ![d] = [tenants[d] EXCEPT !.random = spend(@, lp)]] BY <2>2, <2>18
    <3> QED BY <2>1, <2>14, <3>1
  <2>20. TenantTypes /\ OneTimeOnce /\ MeterExact BY DEF TenancyInv
  <2>21. uses[d] \in [Tokens -> Nat] /\ uses[d][lp] \in Nat BY <2>7, <2>20 DEF TenantTypes
  <2>22. /\ uses' \in [Domains -> [Tokens -> Nat]]
         /\ once => uses'[d][lp] = uses[d][lp] + 1
         /\ \A k \in Tokens : (~once \/ k # lp) => uses'[d][k] = uses[d][k]
         /\ \A x \in Domains \ {d} : uses'[x] = uses[x]
    <3>1. CASE ~once BY <2>18, <2>20, <3>1 DEF TenantTypes
    <3>2. CASE once
      <4>1. PICK n \in Nat : n = uses[d][lp] + 1 BY <2>21
      <4>2. uses' = [uses EXCEPT ![d] = [uses[d] EXCEPT ![lp] = n]] BY <2>7, <2>18, <2>20, <3>2, <4>1 DEF TenantTypes
      <4>3. PICK g : g = [uses[d] EXCEPT ![lp] = n] OBVIOUS
      <4>4. g \in [Tokens -> Nat] /\ g[lp] = n /\ \A k \in Tokens \ {lp} : g[k] = uses[d][k] BY <2>7, <2>21, <4>3
      <4>5. uses' = [uses EXCEPT ![d] = g] /\ uses \in [Domains -> [Tokens -> Nat]]
        BY <2>20, <4>2, <4>3 DEF TenantTypes
      <4> QED BY <3>2, <4>1, <4>4, <4>5
    <3> QED BY <3>1, <3>2
  <2>23. ASSUME NEW k \in DOMAIN t.random, t.random[k].one_time
         PROVE  uses'[d][k] <= IF t.random[k].burned THEN 1 ELSE 0
    <3>1. k \in DOMAIN o.random /\ k \in Tokens BY <2>3, <2>13, <2>17
    <3>2. o.random[k].one_time => uses[d][k] <= IF o.random[k].burned THEN 1 ELSE 0
      BY <2>1, <2>2, <2>20, <3>1 DEF OneTimeOnce
    <3>3. CASE once /\ k = lp
      <4>1. uses[d][lp] <= 0 BY <2>5, <2>10, <3>2, <3>3
      <4>2. t.random[k] = w BY <2>13, <2>17, <3>3
      <4> QED BY <2>9, <2>21, <2>22, <3>3, <4>1, <4>2
    <3>4. CASE ~(once /\ k = lp)
      <4>1. t.random[k] = o.random[k] BY <2>13, <2>17, <3>1, <3>4
      <4>2. uses'[d][k] = uses[d][k] BY <2>22, <3>1, <3>4
      <4> QED BY <2>23, <3>2, <4>1, <4>2
    <3> QED BY <3>3, <3>4
  <2>24. meter'[d] = spent[d] + t.usage.messages BY <2>1, <2>2, <2>17, <2>18, <2>20 DEF MeterExact, serves
  <2>25. /\ owned' \in [Domains -> SUBSET Names] /\ meter' \in [Domains -> 0 .. MaxMetered]
         /\ uses' \in [Domains -> [Tokens -> Nat]]
    BY <2>18, <2>20, <2>22 DEF TenantTypes
  <2>26. RowsStay(tenants[d].random, t.random)
    <3>1. \A k \in DOMAIN o.random : R[k].exp = o.random[k].exp /\ (o.random[k].burned => R[k].burned)
      BY <2>9, <2>13
    <3> QED BY <2>1, <2>13, <2>17, <3>1 DEF RowsStay
  <2>27. owned'[d] \subseteq t.aliases.reserved BY <2>2, <2>17, <2>18
  <2>28. \A x \in Domains \ {d} : owned'[x] = owned[x] /\ uses'[x] = uses[x] /\ meter'[x] = meter[x]
    BY <2>18, <2>22
  <2>29. /\ reply' \in {2, 4} /\ (reply' = 4 => Untouched) /\ UNCHANGED <<clock, global_blocked, spent>>
         /\ TenancyInv
    BY <2>18, Classes
  <2> QED BY ONLY <2>2, <2>17, <2>19, <2>23, <2>24, <2>25, <2>26, <2>27, <2>28, <2>29, Changed
<1> QED BY <1>5, <1>6, <1>7, <1>8

LEMMA ChargeStep ==
    ASSUME TenancyInv, NEW d \in Domains, NEW size, meter[d] < MaxMetered, charge_relay(d, size)
    PROVE  StepKeeps
<1>1. PICK o : o = tenants[d] OBVIOUS
<1>2. PICK u : u = [messages |-> o.usage.messages + 1, bytes |-> o.usage.bytes + size] OBVIOUS
<1>3. CASE ~serves(d) BY <1>3, FailKeeps, Classes DEF charge_relay
<1>4. CASE serves(d) /\ (OverCap(o.quota.messages, u.messages) \/ OverCap(o.quota.bytes, u.bytes))
  BY <1>1, <1>2, <1>4, FailKeeps, Classes DEF charge_relay
<1>5. CASE serves(d) /\ ~(OverCap(o.quota.messages, u.messages) \/ OverCap(o.quota.bytes, u.bytes))
  <2>1. /\ tenants' = [tenants EXCEPT ![d].usage = u] /\ meter' = [meter EXCEPT ![d] = @ + 1]
        /\ reply' = Answer(250) /\ UNCHANGED <<clock, global_blocked, spent, uses, owned>>
    BY <1>1, <1>2, <1>5 DEF charge_relay
  <2>2. Tenant(o) /\ d \in DOMAIN tenants /\ owned[d] \subseteq o.aliases.reserved BY <1>1, <1>5, TenantOf
  <2>3. /\ o = Whole(o.directory, o.aliases, o.random, o.blocked, o.suspended, o.quota, o.usage)
        /\ Alloc(o.aliases) /\ DOMAIN o.directory \subseteq o.aliases.reserved \cap Names
        /\ \A x \in DOMAIN o.directory : o.directory[x] \in Keys
        /\ DOMAIN o.random \subseteq Tokens /\ \A k \in DOMAIN o.random : Row(o.random[k])
        /\ o.blocked \subseteq Senders /\ o.suspended \subseteq Names /\ o.usage.messages \in Nat
    BY <2>2, Parts
  <2>4. u.messages = o.usage.messages + 1 /\ u.messages \in Nat BY <1>2, <2>3
  <2>5. PICK t : t = [o EXCEPT !.usage = u] OBVIOUS
  <2>6. t = Whole(o.directory, o.aliases, o.random, o.blocked, o.suspended, o.quota, u) BY <2>3, <2>5 DEF Whole
  <2>7. Tenant(t) /\ t.usage = u /\ t.aliases = o.aliases /\ t.random = o.random BY <2>3, <2>4, <2>6, WholeTenant
  <2>8. tenants' = [tenants EXCEPT ![d] = t]
    <3>1. tenants' = [tenants EXCEPT ![d] = [tenants[d] EXCEPT !.usage = u]] BY <2>1, <2>2
    <3> QED BY <1>1, <2>5, <3>1
  <2>9. TenantTypes /\ OneTimeOnce /\ MeterExact BY DEF TenancyInv
  <2>10. meter \in [Domains -> 0 .. MaxMetered] /\ spent[d] \in Nat BY <2>9 DEF TenantTypes
  <2>11. /\ meter' \in [Domains -> 0 .. MaxMetered] /\ meter'[d] = meter[d] + 1
         /\ \A x \in Domains \ {d} : meter'[x] = meter[x]
    BY <2>1, <2>10, MultiDomainAssumption
  <2>12. meter[d] = spent[d] + o.usage.messages BY <1>1, <2>2, <2>9 DEF MeterExact, serves
  <2>13. meter'[d] = spent[d] + t.usage.messages BY <2>3, <2>4, <2>7, <2>10, <2>11, <2>12
  <2>14. \A k \in DOMAIN t.random : t.random[k].one_time => uses'[d][k] <= IF t.random[k].burned THEN 1 ELSE 0
    BY <1>1, <2>1, <2>2, <2>7, <2>9 DEF OneTimeOnce
  <2>15. /\ owned' \in [Domains -> SUBSET Names] /\ uses' \in [Domains -> [Tokens -> Nat]]
         /\ meter' \in [Domains -> 0 .. MaxMetered]
    BY <2>1, <2>9, <2>11 DEF TenantTypes
  <2>16. RowsStay(tenants[d].random, t.random) BY <1>1, <2>7 DEF RowsStay
  <2>17. owned'[d] \subseteq t.aliases.reserved BY <2>1, <2>2, <2>7
  <2>18. \A x \in Domains \ {d} : owned'[x] = owned[x] /\ uses'[x] = uses[x] /\ meter'[x] = meter[x]
    BY <2>1, <2>11
  <2>19. /\ reply' \in {2, 4} /\ (reply' = 4 => Untouched) /\ UNCHANGED <<clock, global_blocked, spent>>
         /\ TenancyInv
    BY <2>1, Classes
  <2> QED BY ONLY <2>2, <2>7, <2>8, <2>13, <2>14, <2>15, <2>16, <2>17, <2>18, <2>19, Changed
<1> QED BY <1>3, <1>4, <1>5

LEMMA RefusedStep ==
    ASSUME TenancyInv, NEW p, NEW known, NEW wellformed, handle_refused(p, known, wellformed)
    PROVE  StepKeeps
<1>1. Fail(401) \/ Fail(404) \/ Fail(400) BY DEF handle_refused
<1> QED BY <1>1, FailKeeps, Classes

LEMMA TenancyNext ==
    ASSUME TenancyInv, Next
    PROVE  StepKeeps
<1>1. ASSUME NEW d \in Domains, Aliases(d) PROVE StepKeeps
  BY <1>1, AllocateStep, RevokeStep, BurnStep, MintStep DEF Aliases
<1>2. ASSUME NEW d \in Domains, Directory(d) PROVE StepKeeps
  BY <1>2, AddRecipientStep, RemoveRecipientStep, ListStep DEF Directory
<1>3. ASSUME NEW d \in Domains, Mail(d) PROVE StepKeeps
  BY <1>3, RouteStep, ChargeStep DEF Mail
<1>4. ASSUME NEW d \in Domains, NEW quota \in Quotas, add_domain(d, quota) \/ set_quota(d, quota) PROVE StepKeeps
  BY <1>4, AddDomainStep, QuotaStep
<1>5. ASSUME NEW d \in Domains, remove_domain(d) PROVE StepKeeps BY <1>5, RemoveDomainStep
<1>6. ASSUME NEW d \in Domains, NEW sender \in Senders, NEW global \in BOOLEAN,
             block(d, sender, global) \/ unblock(d, sender, global)
      PROVE  StepKeeps
  BY <1>6, BlockStep
<1>7. CASE \E presented \in {"", AdminToken}, known, wellformed \in BOOLEAN :
              handle_refused(presented, known, wellformed)
  BY <1>7, RefusedStep
<1>8. CASE Tick
  <2>1. clock' \in clock .. MaxClock /\ UNCHANGED <<tenants, global_blocked, meter, reply, spent, uses, owned>>
    BY <1>8, MultiDomainAssumption DEF Tick, TenancyInv, TenantTypes
  <2>2. reply' \in {0, 2, 4, 5} /\ global_blocked' \subseteq Senders /\ Untouched
    BY <2>1 DEF TenancyInv, TenantTypes, Untouched
  <2> QED BY <2>1, <2>2, QuietKeeps
<1> QED BY <1>1, <1>2, <1>3, <1>4, <1>5, <1>6, <1>7, <1>8 DEF Next

LEMMA TenancyStep == TenancyInv /\ [Next]_vars => TenancyInv'
<1> SUFFICES ASSUME TenancyInv, [Next]_vars PROVE TenancyInv' OBVIOUS
<1>1. CASE Next BY <1>1, TenancyNext DEF StepKeeps
<1>2. CASE UNCHANGED vars
  <2>1. clock' \in clock .. MaxClock /\ Untouched /\ reply' = reply
    BY <1>2, MultiDomainAssumption DEF vars, Untouched, TenancyInv, TenantTypes
  <2>2. reply' \in {0, 2, 4, 5} /\ global_blocked' \subseteq Senders
    BY <2>1 DEF TenancyInv, TenantTypes, Untouched
  <2> QED BY <2>1, <2>2, QuietKeeps DEF Untouched, StepKeeps
<1> QED BY <1>1, <1>2

LEMMA TenancyHolds == Spec => []TenancyInv
BY TenancyInit, TenancyStep, PTL DEF Spec

-----------------------------------------------------------------------------
(* What the invariant means for addresses.                                 *)

\* The name a key shows leads back to it.
LEMMA RoundTrip ==
    ASSUME NEW a, Alloc(a), NEW key \in Keys, NEW registered, key \in registered \/ Held(a, key) # {}
    PROVE  key \in alias_resolve(a, alias_for(a, key), registered)
<1>1. CASE Held(a, key) = {}
  <2>1. alias_for(a, key) = KeyLocal[key] BY <1>1 DEF alias_for
  <2>2. KeyLocal[key] \in ReservedForm BY AliasAssumption
  <2>3. KeyLocal[key] \notin DOMAIN a.vanity BY <2>2 DEF Alloc
  <2> QED BY <1>1, <2>1, <2>3 DEF alias_resolve
<1>2. CASE Held(a, key) # {}
  <2>1. PICK e : e \in Held(a, key) /\ alias_for(a, key) = e[2] BY <1>2 DEF alias_for
  <2>2. PICK l \in DOMAIN a.vanity : e = <<a.vanity[l], l>> /\ a.vanity[l] = key BY <2>1 DEF Held, Alloc
  <2>3. alias_for(a, key) = l BY <2>1, <2>2
  <2> QED BY <2>2, <2>3 DEF alias_resolve
<1> QED BY <1>1, <1>2

\* A name that leads to a key through the aliases is a vanity name or a derived one.
LEMMA ViaAlias ==
    ASSUME NEW t, Tenant(t), NEW lp, Resolution(t, lp).via = "alias"
    PROVE  lp \in DOMAIN t.aliases.vanity \/ lp \in ReservedForm
<1>1. PICK registered : registered = {t.directory[l] : l \in DOMAIN t.directory} OBVIOUS
<1>2. alias_resolve(t.aliases, lp, registered) # {} BY <1>1 DEF Resolution
<1>3. registered \subseteq Keys BY <1>1 DEF Tenant
<1> QED BY <1>2, <1>3, AliasAssumption DEF alias_resolve

\* multidomain.rs, authz.rs, alias_map.rs: for any domains, keys, names and order of
\* requests the alias tables of a tenant agree, the alias a key shows leads back to
\* it, mail for an address of the directory reaches its owner and no vanity name
\* takes over a local part the directory had, a one-time alias serves once, and the
\* meter is what the ledgers of the tenants charged, the removed ones included.
THEOREM TenantsAreSafe == Spec => []TenantsSafe
<1>1. TenancyInv => TenantsSafe
  <2> SUFFICES ASSUME TenancyInv PROVE TenantsSafe OBVIOUS
  <2>1. TenantTypes /\ TenantsInv /\ OneTimeOnce /\ MeterExact BY DEF TenancyInv
  <2>2. AliasesConsistent BY <2>1 DEF TenantsInv, Tenant, Alloc, AliasesConsistent
  <2>3. AliasRoundTrip
    <3> SUFFICES ASSUME NEW d \in DOMAIN tenants, NEW key \in Keys,
                        key \in {tenants[d].directory[l] : l \in DOMAIN tenants[d].directory}
                          \/ Held(tenants[d].aliases, key) # {}
                 PROVE  key \in alias_resolve(tenants[d].aliases, alias_for(tenants[d].aliases, key),
                                  {tenants[d].directory[l] : l \in DOMAIN tenants[d].directory})
      BY DEF AliasRoundTrip
    <3>1. Alloc(tenants[d].aliases) BY <2>1 DEF TenantsInv, Tenant
    <3> QED BY <3>1, RoundTrip
  <2>4. MailReachesOwner
    <3> SUFFICES ASSUME NEW d \in DOMAIN tenants
                 PROVE  /\ \A lp \in DOMAIN tenants[d].directory :
                             Resolution(tenants[d], lp) = [via |-> "directory", to |-> tenants[d].directory[lp]]
                        /\ \A lp \in owned[d] : Resolution(tenants[d], lp).via = "alias" => lp \in ReservedForm
      BY DEF MailReachesOwner
    <3>1. \A lp \in DOMAIN tenants[d].directory :
             Resolution(tenants[d], lp) = [via |-> "directory", to |-> tenants[d].directory[lp]]
      BY DEF Resolution
    <3>2. Tenant(tenants[d]) /\ owned[d] \subseteq tenants[d].aliases.reserved BY <2>1 DEF TenantsInv
    <3>3. DOMAIN tenants[d].aliases.vanity \cap tenants[d].aliases.reserved = {} BY <3>2 DEF Tenant, Alloc
    <3> QED BY <3>1, <3>2, <3>3, ViaAlias
  <2>5. TypeOK
    <3> SUFFICES ASSUME NEW d \in DOMAIN tenants
                 PROVE  /\ DOMAIN tenants[d].directory \subseteq Names
                        /\ \A lp \in DOMAIN tenants[d].directory : tenants[d].directory[lp] \in Keys
                        /\ DOMAIN tenants[d].random \subseteq Tokens
                        /\ tenants[d].blocked \subseteq Senders /\ tenants[d].suspended \subseteq Names
                        /\ tenants[d].usage.messages \in 0 .. MaxMetered
      BY <2>1 DEF TypeOK, TenantTypes
    <3>1. Tenant(tenants[d]) /\ d \in Domains BY <2>1, TenantOf DEF TenantsInv, serves
    <3>2. /\ meter[d] = spent[d] + tenants[d].usage.messages /\ meter[d] \in 0 .. MaxMetered /\ spent[d] \in Nat
      BY <2>1, <3>1 DEF MeterExact, serves, TenantTypes
    <3>3. tenants[d].usage.messages \in 0 .. MaxMetered BY <3>1, <3>2, MultiDomainAssumption DEF Tenant
    <3> QED BY <3>1, <3>3 DEF Tenant
  <2> QED BY <2>1, <2>2, <2>3, <2>4, <2>5 DEF TenantsSafe
<1> QED BY <1>1, TenancyHolds, PTL

\* admin.rs: whatever is asked of the admin API, a request that is answered with an
\* error has changed nothing.
THEOREM ErrorsAreClean == Spec => ErrorsChangeNothing
<1>1. TenancyInv /\ [Next]_vars => [reply' \in {4, 5} => UNCHANGED <<tenants, global_blocked, meter, spent, uses, owned>>]_vars
  BY TenancyNext DEF StepKeeps, Untouched
<1> QED BY <1>1, TenancyHolds, PTL DEF Spec, ErrorsChangeNothing

\* alias_map.rs: a random alias that was burned or has expired stays dead as long as
\* its domain is served.
THEOREM RetiredStayRetired == Spec => RetiredForGood
<1> DEFINE Stays == \A d \in DOMAIN tenants \cap DOMAIN tenants' : \A token \in Tokens :
                       token \in DOMAIN tenants[d].random /\ ~Live(tenants[d].random, token, clock)
                       => ~Live(tenants'[d].random, token, clock')
<1>1. TenancyInv /\ [Next]_vars => [Stays]_vars
  <2> SUFFICES ASSUME TenancyInv, Next, NEW d \in DOMAIN tenants \cap DOMAIN tenants', NEW token \in Tokens,
                      token \in DOMAIN tenants[d].random, ~Live(tenants[d].random, token, clock)
               PROVE  ~Live(tenants'[d].random, token, clock')
    OBVIOUS
  <2>1. Retires BY TenancyNext DEF StepKeeps
  <2>2. PICK o : o = tenants[d].random[token] OBVIOUS
  <2>3. PICK n : n = tenants'[d].random[token] OBVIOUS
  <2>4. clock' >= clock /\ n.exp = o.exp /\ (o.burned => n.burned) BY <2>1, <2>2, <2>3 DEF Retires, RowsStay
  <2>5. o.burned \/ (o.exp # -1 /\ clock >= o.exp) BY <2>2 DEF Live, is_expired
  <2>6. Row(o) BY <2>2 DEF TenancyInv, TenantsInv, Tenant
  <2>7. clock \in Int /\ clock' \in Int BY TenancyNext DEF StepKeeps, TenancyInv, TenantTypes
  <2>8. n.burned \/ (n.exp # -1 /\ clock' >= n.exp) BY <2>4, <2>5, <2>6, <2>7 DEF Row
  <2> QED BY <2>3, <2>8 DEF Live, is_expired
<1> QED BY <1>1, TenancyHolds, PTL DEF Spec, RetiredForGood

-----------------------------------------------------------------------------
(***************************************************************************)
(* The pier command, for any files, tokens and requests: an exit code of   *)
(* success is only reached through every check, a plan is covered by a     *)
(* single grant, and what is printed can be carried out.                   *)
(***************************************************************************)

\* What the invocation has established when it is at a stage.
CliStageInv ==
    /\ cliStage \in {"run", "coordinator", "load", "authorise", "ended"}
    /\ cliStage # "ended" => exitCode = Running /\ cliResult.ok = FALSE
    /\ cliStage = "coordinator" => invocation.group # "certs"
    /\ cliStage = "load" => invocation.verb = "whoami" \/ (ik = target(invocation) /\ invocation.group # "certs")
    /\ cliStage = "authorise" => /\ ik = target(invocation) /\ invocation.group # "certs"
                                 /\ token_path(invocation) \in DOMAIN TokenFiles
                                 /\ authorisation = TokenFiles[token_path(invocation)]

CliInv == CliStageInv /\ ExitsHonestly /\ NoSumOfGrants /\ PlanHolds

LEMMA ExitCodes == /\ Exit.ok = 0 /\ Exit.usage = 2 /\ Exit.not_implemented = 3 /\ Exit.unauthorised = 4
                   /\ Running = 1 /\ Refused.ok = FALSE
BY DEF Exit, Running, Refused

\* A step that prints nothing keeps what was promised of the exit code alone.
LEMMA SilentStep ==
    ASSUME CliInv, cliStage # "ended", UNCHANGED <<invocation, cliResult>>, CliStageInv',
           exitCode' # Exit.ok
    PROVE  CliInv'
<1>1. cliResult'.ok = FALSE BY DEF CliInv, CliStageInv
<1>2. ExitsHonestly' BY <1>1 DEF ExitsHonestly
<1>3. NoSumOfGrants' /\ PlanHolds' BY <1>1 DEF NoSumOfGrants, PlanHolds
<1> QED BY <1>2, <1>3 DEF CliInv

\* A plan that is printed can be carried out.
LEMMA PlanCarries ==
    ASSUME NEW q, NEW p, p = plan(q), p.ok
    PROVE  LET caa == CHOOSE r \in p.records : r.kind \in {"issue", "issuewild"}
           IN  /\ p.challenge \in caa.value.validationmethods
               /\ (p.challenge = "dns-01") <=> (\E r \in p.records : r.name = "challenge")
               /\ caa.kind = "issuewild" => p.challenge = "dns-01"
               /\ p.assurance = "structural" => caa.value.binding # {}
<1>1. PICK dns01 \in BOOLEAN : dns01 = forced(q) BY DEF forced
<1>2. PICK account : account = IF q.acme_account # Absent THEN {"accounturi"} ELSE {} OBVIOUS
<1>3. PICK methods : methods = IF q.exclude_tls_alpn THEN {"dns-01"} ELSE {"dns-01", "tls-alpn-01"} OBVIOUS
<1>4. PICK val : val = [binding |-> account, validationmethods |-> methods] OBVIOUS
<1>5. PICK c1 : c1 = [kind |-> "CNAME", name |-> q.domain, value |-> q.ingress] OBVIOUS
<1>6. PICK c2 : c2 = [kind |-> "CNAME", name |-> "challenge", value |-> q.acme_delegation] OBVIOUS
<1>7. PICK c3 : c3 = [kind |-> IF q.domain = "wildcard" THEN "issuewild" ELSE "issue", name |-> "base", value |-> val]
  OBVIOUS
<1>8. PICK rs : rs = {c1} \cup (IF dns01 THEN {c2} ELSE {}) \cup {c3} OBVIOUS
<1>9. PICK good \in BOOLEAN :
         good = ~(\/ q.domain \notin {"name", "wildcard"} \/ q.ingress = Absent
                  \/ (q.caa_enforcement_established /\ q.acme_account = Absent)
                  \/ (dns01 /\ q.acme_delegation = Absent))
  OBVIOUS
<1>10. p = IF ~good THEN Refused
           ELSE [ok |-> TRUE, challenge |-> IF dns01 THEN "dns-01" ELSE "tls-alpn-01",
                 assurance |-> IF q.caa_enforcement_established THEN "structural" ELSE "declared", records |-> rs]
  BY <1>1, <1>2, <1>3, <1>4, <1>5, <1>6, <1>7, <1>8, <1>9 DEF plan
<1>11. good BY <1>10, ExitCodes
<1>12. /\ p.challenge = IF dns01 THEN "dns-01" ELSE "tls-alpn-01"
       /\ p.assurance = IF q.caa_enforcement_established THEN "structural" ELSE "declared"
       /\ p.records = rs
  BY <1>10, <1>11
<1>13. /\ c1.kind = "CNAME" /\ c1.name = q.domain /\ c2.kind = "CNAME" /\ c2.name = "challenge"
       /\ c3.kind = (IF q.domain = "wildcard" THEN "issuewild" ELSE "issue") /\ c3.name = "base" /\ c3.value = val
       /\ val.binding = account /\ val.validationmethods = methods
  BY <1>4, <1>5, <1>6, <1>7
<1>14. (CHOOSE r \in rs : r.kind \in {"issue", "issuewild"}) = c3 BY <1>8, <1>13
<1>15. q.domain \in {"name", "wildcard"} /\ (q.caa_enforcement_established => q.acme_account # Absent)
  BY <1>9, <1>11
<1>16. (q.domain = "wildcard" => dns01) /\ (q.exclude_tls_alpn => dns01) BY <1>1 DEF forced
<1>17. p.challenge \in methods BY <1>3, <1>12, <1>16
<1>18. (p.challenge = "dns-01") <=> (\E r \in rs : r.name = "challenge") BY <1>8, <1>12, <1>13, <1>15
<1>19. c3.kind = "issuewild" => p.challenge = "dns-01" BY <1>12, <1>13, <1>16
<1>20. p.assurance = "structural" => account # {} BY <1>2, <1>12, <1>15
<1> QED BY <1>12, <1>13, <1>14, <1>17, <1>18, <1>19, <1>20

LEMMA PlanOk == ASSUME NEW q PROVE plan(q).ok \in BOOLEAN
BY ExitCodes DEF plan, Refused

LEMMA RunStep == ASSUME CliInv, run PROVE CliInv'
<1>1. /\ cliStage = "run" /\ UNCHANGED <<invocation, ticks, ik, authorisation, loadedAt>>
      /\ exitCode = Running /\ cliResult.ok = FALSE
  BY DEF run, CliInv, CliStageInv
<1>2. CASE UNCHANGED cliResult
  <2>1. CliStageInv' /\ exitCode' # Exit.ok
    <3>1. CASE cliStage' = "ended"
      <4>1. exitCode' \in {Exit.usage, Exit.not_implemented} BY <3>1 DEF run, Exits, Continues
      <4> QED BY <3>1, <4>1, ExitCodes DEF CliStageInv
    <3>2. CASE cliStage' # "ended"
      <4>1. /\ UNCHANGED exitCode
            /\ \/ cliStage' = "load" /\ invocation.verb = "whoami"
               \/ cliStage' = "coordinator" /\ invocation.group # "certs"
        BY <3>2 DEF run, Exits, Continues
      <4>2. exitCode' = Running /\ cliResult'.ok = FALSE BY <1>1, <1>2, <4>1
      <4> QED BY <1>1, <4>1, <4>2, ExitCodes DEF CliStageInv
    <3> QED BY <3>1, <3>2
  <2> QED BY <1>1, <1>2, <2>1, SilentStep
<1>3. CASE cliResult' # cliResult
  <2>1. invocation.group = "certs" BY <1>3 DEF run, Exits, Continues
  <2>2. PICK q \in CertRequests : /\ cliResult' = plan(q) /\ cliStage' = "ended"
                                  /\ exitCode' = IF plan(q).ok THEN Exit.not_implemented ELSE Exit.usage
    BY <1>3 DEF run, Exits, Continues
  <2>3. PICK p : p = plan(q) OBVIOUS
  <2>4. p.ok \in BOOLEAN BY <2>3, PlanOk
  <2>5. cliResult' = p /\ exitCode' = IF p.ok THEN Exit.not_implemented ELSE Exit.usage BY <2>2, <2>3
  <2>6. CliStageInv' BY <2>2 DEF CliStageInv
  <2>7. ExitsHonestly' BY <2>4, <2>5, ExitCodes DEF ExitsHonestly
  <2>8. NoSumOfGrants' BY <1>1, <2>1 DEF NoSumOfGrants
  <2>9. PlanHolds'
    <3>1. CASE p.ok BY <2>3, <2>5, <3>1, PlanCarries DEF PlanHolds
    <3>2. CASE ~p.ok BY <2>5, <3>2 DEF PlanHolds
    <3> QED BY <3>1, <3>2
  <2> QED BY <2>6, <2>7, <2>8, <2>9 DEF CliInv
<1> QED BY <1>2, <1>3

LEMMA CoordinatorStep == ASSUME CliInv, coordinator PROVE CliInv'
<1>1. /\ cliStage = "coordinator" /\ UNCHANGED <<invocation, ticks, authorisation, cliResult, loadedAt>>
      /\ exitCode = Running /\ cliResult.ok = FALSE /\ invocation.group # "certs"
  BY DEF coordinator, CliInv, CliStageInv
<1>2. \/ cliStage' = "load" /\ ik' = target(invocation) /\ UNCHANGED exitCode
      \/ cliStage' = "ended" /\ exitCode' = Exit.unauthorised
  BY DEF coordinator, Exits, Continues
<1>3. CliStageInv' /\ exitCode' # Exit.ok BY <1>1, <1>2, ExitCodes DEF CliStageInv, target
<1> QED BY <1>1, <1>3, SilentStep

LEMMA LoadStep == ASSUME CliInv, load PROVE CliInv'
<1>1. /\ cliStage = "load" /\ UNCHANGED <<invocation, ticks, ik, cliResult>> /\ loadedAt' = ticks
      /\ exitCode = Running /\ cliResult.ok = FALSE
      /\ invocation.verb = "whoami" \/ (ik = target(invocation) /\ invocation.group # "certs")
  BY DEF load, CliInv, CliStageInv
<1>2. PICK p : p = token_path(invocation) OBVIOUS
<1>3. CASE p \in DOMAIN TokenFiles /\ from_bytes(TokenFiles[p], ticks) /\ invocation.verb = "whoami"
  <2>1. cliStage' = "ended" /\ exitCode' = Exit.ok BY <1>2, <1>3 DEF load, Exits
  <2>2. CliStageInv' BY <2>1 DEF CliStageInv
  <2>3. TokenFiles[p].signed /\ in_window(TokenFiles[p], ticks) BY <1>3 DEF from_bytes
  <2>4. ExitsHonestly'
    <3>1. token_path(invocation)' = p BY <1>1, <1>2 DEF token_path
    <3>2. in_window(TokenFiles[p], loadedAt') BY <1>1, <2>3
    <3>3. cliResult'.ok = FALSE /\ invocation'.verb = "whoami" BY <1>1, <1>3
    <3> QED BY <2>3, <3>1, <3>2, <3>3 DEF ExitsHonestly, in_window
  <2>5. NoSumOfGrants' /\ PlanHolds' BY <1>1 DEF NoSumOfGrants, PlanHolds
  <2> QED BY <2>2, <2>4, <2>5 DEF CliInv
<1>4. CASE p \in DOMAIN TokenFiles /\ from_bytes(TokenFiles[p], ticks) /\ invocation.verb # "whoami"
  <2>1. cliStage' = "authorise" /\ exitCode' = exitCode /\ authorisation' = TokenFiles[p]
    BY <1>2, <1>4 DEF load, Continues
  <2>2. CliStageInv' BY <1>1, <1>2, <1>4, <2>1 DEF CliStageInv, target, token_path
  <2> QED BY <1>1, <2>1, <2>2, ExitCodes, SilentStep
<1>5. CASE ~(p \in DOMAIN TokenFiles /\ from_bytes(TokenFiles[p], ticks))
  <2>1. cliStage' = "ended" /\ exitCode' = Exit.unauthorised BY <1>2, <1>5 DEF load, Exits
  <2>2. CliStageInv' BY <2>1 DEF CliStageInv
  <2> QED BY <1>1, <2>1, <2>2, ExitCodes, SilentStep
<1> QED BY <1>3, <1>4, <1>5

\* A resource that covers another agrees with it as far as it goes.
LEMMA Covers ==
    ASSUME NEW S, NEW s \in Seq(S), NEW t \in Seq(S), covers(s, t)
    PROVE  \A n \in DOMAIN s : n \in DOMAIN t /\ s[n] = t[n]
<1>1. Len(s) <= Len(t) /\ SubSeq(s, 1, Len(s)) = SubSeq(t, 1, Len(s)) BY DEF covers, IsPrefix
<1> SUFFICES ASSUME NEW n \in DOMAIN s PROVE n \in DOMAIN t /\ s[n] = t[n] OBVIOUS
<1>2. n \in 1 .. Len(s) /\ n \in DOMAIN t BY <1>1
<1>3. SubSeq(s, 1, Len(s))[n] = s[n] /\ SubSeq(t, 1, Len(s))[n] = t[n] BY <1>1, <1>2
<1> QED BY <1>1, <1>2, <1>3

LEMMA ScopeIsPath == ASSUME NEW i PROVE \E T : scope(i) \in Seq(T)
<1>1. PICK s : s = IF i.group \in DOMAIN service THEN service[i.group] ELSE i.service OBVIOUS
<1>2. scope(i) \in {<<>>, <<s>>, <<s, i.id>>} BY <1>1 DEF scope
<1>3. PICK T : T = {s, i.id} OBVIOUS
<1>4. s \in T /\ i.id \in T BY <1>3
<1>5. <<>> \in Seq(T) /\ <<s>> \in Seq(T) /\ <<s, i.id>> \in Seq(T) BY <1>4
<1> QED BY <1>2, <1>5

LEMMA AuthoriseStep == ASSUME CliInv, authorise PROVE CliInv'
<1>1. /\ cliStage = "authorise" /\ UNCHANGED <<invocation, ticks, ik, authorisation, loadedAt>>
      /\ cliResult.ok = FALSE /\ ik = target(invocation) /\ invocation.group # "certs"
      /\ token_path(invocation) \in DOMAIN TokenFiles /\ authorisation = TokenFiles[token_path(invocation)]
  BY DEF authorise, CliInv, CliStageInv
<1>2. CASE ~grants(authorisation.caps)
  <2>1. cliStage' = "ended" /\ exitCode' = Exit.unauthorised /\ cliResult' = cliResult BY <1>2 DEF authorise, Exits
  <2>2. CliStageInv' BY <2>1 DEF CliStageInv
  <2> QED BY <1>1, <2>1, <2>2, ExitCodes, SilentStep
<1>3. CASE grants(authorisation.caps)
  <2>1. PICK v : v = [ok |-> TRUE, ability |-> ability(invocation), resource |-> scope(invocation), at |-> ik] OBVIOUS
  <2>2. cliStage' = "ended" /\ exitCode' = Exit.not_implemented /\ cliResult' = v
    BY <1>3, <2>1 DEF authorise, Exits
  <2>3. v.ok = TRUE /\ v.ability = ability(invocation) /\ v.resource = scope(invocation) /\ v.at = ik BY <2>1
  <2>4. PICK cap \in TokenFiles[token_path(invocation)].caps :
           cap.coordinator = ik /\ cap.ability = ability(invocation) /\ covers(cap.resource, scope(invocation))
    BY <1>1, <1>3 DEF grants, bound
  <2>5. cap.resource \in Seq(STRING) BY <1>1, CliAssumption
  <2>6. PICK T : scope(invocation) \in Seq(T) BY ScopeIsPath
  <2>7. PICK S : S = STRING \cup T OBVIOUS
  <2>8. cap.resource \in Seq(S) /\ scope(invocation) \in Seq(S) BY <2>5, <2>6, <2>7
  <2>9. \A n \in DOMAIN cap.resource : n \in DOMAIN v.resource /\ cap.resource[n] = v.resource[n]
    BY <2>3, <2>4, <2>8, Covers
  <2>10. CliStageInv' BY <2>2 DEF CliStageInv
  <2>11. ExitsHonestly' BY <2>2, ExitCodes DEF ExitsHonestly
  <2>12. NoSumOfGrants' BY <1>1, <2>2, <2>3, <2>4, <2>9 DEF NoSumOfGrants, token_path, target
  <2>13. PlanHolds' BY <1>1 DEF PlanHolds
  <2> QED BY <2>10, <2>11, <2>12, <2>13 DEF CliInv
<1> QED BY <1>2, <1>3

\* run.rs, auth.rs, certs.rs: for any token files, commands and requests, the pier
\* command ends with the code of what it found, authorises a request only by one
\* capability that suffices alone, and prints only certificate plans that work.
THEOREM CommandIsSafe == CliSpec => []CommandSafe
<1>1. CliInit => CliInv
  <2> SUFFICES ASSUME CliInit PROVE CliInv OBVIOUS
  <2>1. CliStageInv BY ExitCodes DEF CliInit, CliStageInv
  <2>2. cliResult.ok = FALSE /\ exitCode = Running BY ExitCodes DEF CliInit
  <2> QED BY <2>1, <2>2, ExitCodes DEF CliInv, ExitsHonestly, NoSumOfGrants, PlanHolds
<1>2. CliInv /\ [CliNext]_cliVars => CliInv'
  <2> SUFFICES ASSUME CliInv, [CliNext]_cliVars PROVE CliInv' OBVIOUS
  <2>1. CASE Passing \/ UNCHANGED cliVars
    <3>1. UNCHANGED <<invocation, cliStage, ik, authorisation, exitCode, cliResult, loadedAt>>
      BY <2>1 DEF Passing, cliVars
    <3>2. CliStageInv' BY <3>1 DEF CliInv, CliStageInv, target, token_path
    <3>3. ExitsHonestly' /\ NoSumOfGrants' /\ PlanHolds'
      BY <3>1 DEF CliInv, ExitsHonestly, NoSumOfGrants, PlanHolds, target, token_path, in_window
    <3> QED BY <3>2, <3>3 DEF CliInv
  <2> QED BY <2>1, RunStep, CoordinatorStep, LoadStep, AuthoriseStep DEF CliNext
<1>3. CliInv => CommandSafe BY DEF CliInv, CommandSafe
<1> QED BY <1>1, <1>2, <1>3, PTL DEF CliSpec

-----------------------------------------------------------------------------
\* The parts of the composition do what they do alone.
LEMMA PartsRun == MCSpec => Spec /\ AdmSpec
<1>1. MCInit => Init /\ AdmInit BY DEF MCInit
<1>2. [MCNext]_allVars => [Next]_vars BY DEF MCNext, allVars
<1>3. [MCNext]_allVars => [AdmNext]_admVars BY DEF MCNext, allVars
<1> QED BY <1>1, <1>2, <1>3, PTL DEF MCSpec, Spec, AdmSpec

\* No step of the tenants' administration fails and changes something, or brings a
\* retired alias back, and no step of the admission takes a challenge from a sender who
\* could still answer it.
THEOREM StepsAreSafe == MCSpec => StepsSafe
BY PartsRun, ErrorsAreClean, RetiredStayRetired, ChallengesNotBurned, PTL DEF StepsSafe

=============================================================================
