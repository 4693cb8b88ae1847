----------------------------- MODULE MultiDomain ---------------------------
(***************************************************************************)
(* The multi-tenant state of pier-gateway, MultiDomainGateway              *)
(* (multidomain.rs) behind one mutex, with the handlers of the admin API   *)
(* (admin.rs) that change it, the routing of mail, the quota ledger        *)
(* (authz.rs) and the usage meter.  Requests come in any order from any    *)
(* number of connections; each holds the mutex once.                       *)
(***************************************************************************)
EXTENDS Integers, FiniteSets

(***************************************************************************)
(* The aliases of one domain of pier-gateway: the vanity names of          *)
(* AliasAllocator (authz.rs) and the random tokens of GatewayAliasMap      *)
(* (alias_map.rs).  A local part is a string; lower, the syntactic classes *)
(* the code tests and the local part derived from a key are parameters.    *)
(***************************************************************************)

CONSTANTS Keys,        \* identity keys
          Names,       \* the local parts, as spelled
          Lower,       \* their lower-case form
          Dotted,      \* those with a dot
          Illegal,     \* those outside the vanity character set or length
          ReservedForm,\* the prefix dmtap1- and the key-derived form
          KeyLocal     \* the local part derived from a key

ASSUME AliasAssumption ==
    /\ Lower \in [Names -> Names]
    /\ \A n \in Names : Lower[Lower[n]] = Lower[n]
    /\ KeyLocal \in [Keys -> {n \in ReservedForm : Lower[n] = n}]
    /\ ReservedForm \subseteq Names

Drop(f, x) == [y \in DOMAIN f \ {x} |-> f[y]]
Put(f, x, v) == [y \in DOMAIN f \cup {x} |-> IF y = x THEN v ELSE f[y]]

-----------------------------------------------------------------------------
(* AliasAllocator: vanity and reverse map names to keys and back, reserved *)
(* holds the local parts of the directory.                                 *)

\* reverse is a list in the code; its order never shows, since a key has at
\* most one entry (AliasesConsistent of MultiDomain).
NewAllocator == [vanity |-> <<>>, reverse |-> {}, reserved |-> {}]

\* check_vanity: the reason a name is refused, or "ok".
check_vanity(a, name) ==
    LET lp == Lower[name] IN
    CASE name \in Dotted -> "ContainsDot"
      [] lp \in Illegal -> "InvalidLocalPart"
      [] lp \in ReservedForm -> "ReservedCollision"
      [] lp \in a.reserved -> "ShadowsDirectoryIdentity"
      [] OTHER -> "ok"

\* The reverse entries of a key.
Held(a, key) == {e \in a.reverse : e[1] = key}

\* A reverse entry of the key, and its vanity name, are dropped.
DropHeld(a, key) ==
    IF Held(a, key) = {} THEN a
    ELSE LET e == CHOOSE h \in Held(a, key) : TRUE
         IN  [a EXCEPT !.reverse = @ \ {e}, !.vanity = Drop(@, e[2])]

Grant(a, key, lp) == [a EXCEPT !.vanity = Put(@, lp, key),
                               !.reverse = @ \cup {<<key, lp>>}]

\* allocate_vanity: a name of the key's own again is no change; another key's
\* is refused; otherwise the key's old name is given up for the new one.
allocate_vanity(a, key, name) ==
    LET lp == Lower[name]
        why == check_vanity(a, name)
    IN  IF why # "ok" THEN [err |-> why, a |-> a]
        ELSE IF lp \in DOMAIN a.vanity
        THEN [err |-> IF a.vanity[lp] = key THEN "none" ELSE "Taken", a |-> a]
        ELSE [err |-> "none", a |-> Grant(DropHeld(a, key), key, lp)]

release_vanity(a, key) == DropHeld(a, key)

\* reserve_localpart: whoever holds the name as a vanity loses it.
reserve_localpart(a, name) ==
    LET lp == Lower[name] IN
    [vanity |-> Drop(a.vanity, lp),
     reverse |-> {e \in a.reverse : e[2] # lp},
     reserved |-> a.reserved \cup {lp}]

\* alias_for: the address a key shows, its vanity name or the derived one.
alias_for(a, key) == IF Held(a, key) = {} THEN KeyLocal[key]
                     ELSE (CHOOSE e \in Held(a, key) : TRUE)[2]

\* resolve: the keys a local part stands for; vanity before derivation.
alias_resolve(a, lp, registered) ==
    IF lp \in DOMAIN a.vanity THEN {a.vanity[lp]}
    ELSE {k \in registered : KeyLocal[k] = lp}

-----------------------------------------------------------------------------
(* GatewayAliasMap: rows from tokens to what they stand for.  exp is the   *)
(* instant from which a row is expired, or -1.                             *)

mint_row(rows, token, target, exp, one_time) ==
    Put(rows, token, [target |-> target, exp |-> exp, one_time |-> one_time,
                      burned |-> FALSE])

is_expired(row, now) == row.exp # -1 /\ now >= row.exp
Live(rows, token, now) == /\ token \in DOMAIN rows
                          /\ ~rows[token].burned
                          /\ ~is_expired(rows[token], now)

\* The token of a dead row may be drawn again.
CanMint_Dead(rows, token, now) == ~Live(rows, token, now)

\* mint_row draws until no row, dead or alive, has the token.
CanMint(rows, token, now) == token \notin DOMAIN rows

\* A one-time row is burned by the lookup that returns its target.
spend(rows, token) ==
    IF rows[token].one_time THEN [rows EXCEPT ![token].burned = TRUE] ELSE rows

burn(rows, token) == IF token \in DOMAIN rows
                     THEN [rows EXCEPT ![token].burned = TRUE] ELSE rows
-----------------------------------------------------------------------------
CONSTANTS Domains,       \* the domain names requests use
          ValidDomains,  \* those that are DNS names
          Locals,        \* the local parts of addresses, as spelled
          Vanities,      \* the vanity names asked for, as spelled
          Users,         \* the users that requests suspend
          Targets,       \* what a random alias may stand for
          Tokens,        \* what the random generator may yield
          Senders,
          Quotas,        \* the caps a quota request sets; 0 is no cap
          Sizes,         \* the sizes of the messages
          Ttls,          \* lifetimes of random aliases, -1 is none
          AdminToken,    \* the token of the API, or "" when it is off
          MaxClock, MaxMetered   \* bounds of the model

ASSUME MultiDomainAssumption ==
    /\ Locals \cup Vanities \cup Users \cup Tokens \subseteq Names
    /\ ValidDomains \subseteq Domains
    /\ Quotas \subseteq [messages : Nat, bytes : Nat]
    /\ Sizes \subseteq Nat /\ Ttls \subseteq Int
    /\ MaxClock \in Nat /\ MaxMetered \in Nat

\* reply is the class of the last response; spent and uses are histories: the messages the
\* ledgers of removed tenants had charged, and the lookups of a one-time token;
\* owned is another, the local parts the directory of a tenant ever had.
VARIABLES clock, tenants, global_blocked, meter, reply, spent, uses, owned

vars == <<clock, tenants, global_blocked, meter, reply, spent, uses, owned>>

\* A cap of 0 is no limit on its axis.
NoQuota == [messages |-> 0, bytes |-> 0]
NewUsage == [messages |-> 0, bytes |-> 0]

NewTenant == [directory |-> <<>>, aliases |-> NewAllocator, random |-> <<>>,
              blocked |-> {}, suspended |-> {},
              quota |-> NoQuota, usage |-> NewUsage]

\* A response is kept as its class: 2 for success, 4 and 5 for errors.
Answer(status) == status \div 100

Init == /\ clock = 0
        /\ tenants = <<>>
        /\ global_blocked = {}
        /\ meter = [d \in Domains |-> 0]
        /\ reply = 0
        /\ spent = [d \in Domains |-> 0]
        /\ uses = [d \in Domains |-> [t \in Tokens |-> 0]]
        /\ owned = [d \in Domains |-> {}]

serves(d) == d \in DOMAIN tenants

-----------------------------------------------------------------------------
(* The admin API.                                                          *)

\* AdminAuth::authorize: without a token in the configuration nobody is.
authorize(presented) == AdminToken # "" /\ presented = AdminToken

\* A request that fails leaves everything alone.
Fail(status) == /\ reply' = Answer(status)
                /\ UNCHANGED <<clock, tenants, global_blocked, meter, spent, uses, owned>>

\* A request that changes the tenant d, or finds that d is not served.
Update(d, t, status) ==
    IF ~serves(d) THEN Fail(404)
    ELSE /\ tenants' = [tenants EXCEPT ![d] = t]
         /\ reply' = Answer(status)
         /\ UNCHANGED <<clock, global_blocked, meter, spent, uses, owned>>

\* handle for requests that reach no handler: no token, no such path, another
\* method, a missing or malformed field.
handle_refused(presented, known, wellformed) ==
    CASE ~authorize(presented) -> Fail(401)
      [] authorize(presented) /\ ~known -> Fail(404)
      [] authorize(presented) /\ known /\ ~wellformed -> Fail(400)
      [] OTHER -> FALSE

\* add_domain with its quota, in one hold of the mutex.
add_domain(d, quota) ==
    IF d \notin ValidDomains THEN Fail(400)
    ELSE IF serves(d) THEN Fail(409)
    ELSE /\ tenants' = Put(tenants, d, [NewTenant EXCEPT !.quota = quota])
         /\ reply' = Answer(201)
         /\ UNCHANGED <<clock, global_blocked, meter, spent, uses, owned>>

\* The tenant goes with its keys, aliases, lists and ledger; the meter stays.
remove_domain(d) ==
    IF ~serves(d) THEN Fail(404)
    ELSE /\ tenants' = Drop(tenants, d)
         /\ spent' = [spent EXCEPT ![d] = @ + tenants[d].usage.messages]
         /\ uses' = [uses EXCEPT ![d] = [t \in Tokens |-> 0]]
         /\ owned' = [owned EXCEPT ![d] = {}]
         /\ reply' = Answer(200)
         /\ UNCHANGED <<clock, global_blocked, meter>>

\* The directory entry and the reservation of its local part.
AddRecipient(t, name, key) ==
    [t EXCEPT !.directory = Put(@, Lower[name], key),
              !.aliases = reserve_localpart(@, name)]

\* The path names the domain of the address, which may not be in brackets.
add_recipient(path, d, name, angle, key) ==
    IF angle \/ path # d THEN Fail(400)
    ELSE IF ~serves(d) THEN Fail(404)
    ELSE /\ tenants' = [tenants EXCEPT ![d] = AddRecipient(@, name, key)]
         /\ owned' = [owned EXCEPT ![d] = @ \cup {Lower[name]}]
         /\ reply' = Answer(201)
         /\ UNCHANGED <<clock, global_blocked, meter, spent, uses>>

RemoveRecipient(t, name) == [t EXCEPT !.directory = Drop(@, Lower[name])]

\* The domain of the path is ignored; that of the address counts.
remove_recipient(d, name, angle) ==
    IF ~serves(d) \/ angle \/ Lower[name] \notin DOMAIN tenants[d].directory
    THEN Fail(404)
    ELSE Update(d, RemoveRecipient(tenants[d], name), 200)

\* Alias errors are conflicts; whatever the allocator returns is stored.
allocate_name(d, key, name) ==
    IF ~serves(d) THEN Fail(404)
    ELSE LET r == allocate_vanity(tenants[d].aliases, key, name)
         IN  Update(d, [tenants[d] EXCEPT !.aliases = r.a],
                    IF r.err = "none" THEN 201 ELSE 409)

revoke_vanity(d, key) ==
    IF ~serves(d) \/ Held(tenants[d].aliases, key) = {} THEN Fail(404)
    ELSE Update(d, [tenants[d] EXCEPT !.aliases = release_vanity(@, key)], 200)

mint_random_alias(d, token, target, ttl, one_time) ==
    IF ~serves(d) THEN Fail(404)
    ELSE /\ CanMint(tenants[d].random, token, clock)
         /\ tenants' = [tenants EXCEPT ![d].random =
                          mint_row(@, token, target,
                                   IF ttl = -1 THEN -1 ELSE clock + ttl, one_time)]
         /\ uses' = [uses EXCEPT ![d][token] = 0]
         /\ reply' = Answer(201)
         /\ UNCHANGED <<clock, global_blocked, meter, spent, owned>>

\* A token no row has is not found; a dead one burns again.
burn_random_alias(d, token) ==
    IF ~serves(d) \/ token \notin DOMAIN tenants[d].random THEN Fail(404)
    ELSE Update(d, [tenants[d] EXCEPT !.random = burn(@, token)], 200)

block(d, sender, global) ==
    IF global
    THEN /\ global_blocked' = global_blocked \cup {sender}
         /\ reply' = Answer(200)
         /\ UNCHANGED <<clock, tenants, meter, spent, uses, owned>>
    ELSE Update(d, [tenants[d] EXCEPT !.blocked = @ \cup {sender}], 200)

unblock(d, sender, global) ==
    IF global
    THEN /\ global_blocked' = global_blocked \ {sender}
         /\ reply' = Answer(200)
         /\ UNCHANGED <<clock, tenants, meter, spent, uses, owned>>
    ELSE Update(d, [tenants[d] EXCEPT !.blocked = @ \ {sender}], 200)

suspend(d, name) ==
    Update(d, [tenants[d] EXCEPT !.suspended = @ \cup {Lower[name]}], 200)

unsuspend(d, name) ==
    Update(d, [tenants[d] EXCEPT !.suspended = @ \ {Lower[name]}], 200)

set_quota(d, quota) == Update(d, [tenants[d] EXCEPT !.quota = quota], 200)

-----------------------------------------------------------------------------
(* Mail.                                                                   *)

\* The aliases are asked before the directory.
Resolution_AliasFirst(t, lp) ==
    LET registered == {t.directory[l] : l \in DOMAIN t.directory}
        keys == alias_resolve(t.aliases, lp, registered)
    IN  IF Live(t.random, lp, clock)
        THEN [via |-> "random", to |-> t.random[lp].target]
        ELSE IF keys # {} THEN [via |-> "alias", to |-> CHOOSE k \in keys : TRUE]
        ELSE IF lp \in DOMAIN t.directory
        THEN [via |-> "directory", to |-> t.directory[lp]]
        ELSE [via |-> "none", to |-> "none"]

\* Where a local part leads: the directory, a live random alias, a vanity
\* name, the name derived from a key of the directory.
Resolution(t, lp) ==
    LET registered == {t.directory[l] : l \in DOMAIN t.directory}
        keys == alias_resolve(t.aliases, lp, registered)
    IN  IF lp \in DOMAIN t.directory
        THEN [via |-> "directory", to |-> t.directory[lp]]
        ELSE IF Live(t.random, lp, clock)
        THEN [via |-> "random", to |-> t.random[lp].target]
        ELSE IF keys # {} THEN [via |-> "alias", to |-> CHOOSE k \in keys : TRUE]
        ELSE [via |-> "none", to |-> "none"]

RouteError(d, sender, lp) ==
    CASE sender \in global_blocked -> 554
      [] sender \notin global_blocked /\ ~serves(d) -> 550
      [] sender \notin global_blocked /\ serves(d) /\ sender \in tenants[d].blocked -> 554
      [] sender \notin global_blocked /\ serves(d) /\ lp \in tenants[d].suspended -> 550
      [] OTHER -> 0

\* route: the lists, then the resolution, which spends a one-time alias.
route(sender, d, name) ==
    LET lp == Lower[name]
        err == RouteError(d, sender, lp)
    IN  IF err # 0 THEN Fail(err)
        ELSE LET r == Resolution(tenants[d], lp) IN
        IF r.via = "none" THEN Fail(550)
        ELSE /\ reply' = Answer(250)
             /\ tenants' = IF r.via = "random"
                           THEN [tenants EXCEPT ![d].random = spend(@, lp)]
                           ELSE tenants
             /\ uses' = IF r.via = "random" /\ tenants[d].random[lp].one_time
                        THEN [uses EXCEPT ![d][lp] = @ + 1]
                        ELSE uses
             /\ UNCHANGED <<clock, global_blocked, meter, spent, owned>>

\* try_charge: the usage after one more message, or the usage as it is.
OverCap(cap, n) == cap # 0 /\ n > cap

\* The message is metered first and charged then.
charge_relay_MeterFirst(d, size) ==
    LET t == tenants[d]
        next == [messages |-> t.usage.messages + 1,
                 bytes |-> t.usage.bytes + size]
    IN  IF ~serves(d) THEN Fail(550)
        ELSE /\ meter' = [meter EXCEPT ![d] = @ + 1]
             /\ IF \/ OverCap(t.quota.messages, next.messages)
                   \/ OverCap(t.quota.bytes, next.bytes)
                THEN tenants' = tenants /\ reply' = Answer(452)
                ELSE /\ tenants' = [tenants EXCEPT ![d].usage = next]
                     /\ reply' = Answer(250)
             /\ UNCHANGED <<clock, global_blocked, spent, uses, owned>>

\* charge_and_meter: the ledger, then the meter.
charge_relay(d, size) ==
    LET t == tenants[d]
        next == [messages |-> t.usage.messages + 1,
                 bytes |-> t.usage.bytes + size]
    IN  IF ~serves(d) THEN Fail(550)
        ELSE IF \/ OverCap(t.quota.messages, next.messages)
                \/ OverCap(t.quota.bytes, next.bytes)
        THEN Fail(452)
        ELSE /\ tenants' = [tenants EXCEPT ![d].usage = next]
             /\ meter' = [meter EXCEPT ![d] = @ + 1]
             /\ reply' = Answer(250)
             /\ UNCHANGED <<clock, global_blocked, spent, uses, owned>>

Tick == /\ clock < MaxClock /\ clock' = clock + 1
        /\ UNCHANGED <<tenants, global_blocked, meter, reply, spent, uses, owned>>

Aliases(d) ==
    \/ \E key \in Keys, name \in Vanities : allocate_name(d, key, name)
    \/ \E key \in Keys : revoke_vanity(d, key)
    \/ \E token \in Tokens :
         \/ burn_random_alias(d, token)
         \/ \E to \in Targets, ttl \in Ttls, once \in BOOLEAN :
              mint_random_alias(d, token, to, ttl, once)

Directory(d) ==
    \/ \E name \in Locals, angle \in BOOLEAN :
         \/ remove_recipient(d, name, angle)
         \/ \E path \in Domains, key \in Keys :
              add_recipient(path, d, name, angle, key)
    \/ \E name \in Users : suspend(d, name) \/ unsuspend(d, name)

Mail(d) ==
    \/ \E sender \in Senders, name \in Locals \cup Tokens : route(sender, d, name)
    \/ \E size \in Sizes : meter[d] < MaxMetered /\ charge_relay(d, size)

Next ==
    \/ \E d \in Domains :
         \/ \E quota \in Quotas : add_domain(d, quota) \/ set_quota(d, quota)
         \/ remove_domain(d)
         \/ \E sender \in Senders, global \in BOOLEAN :
              block(d, sender, global) \/ unblock(d, sender, global)
         \/ Aliases(d) \/ Directory(d) \/ Mail(d)
    \/ \E presented \in {"", AdminToken}, known, wellformed \in BOOLEAN :
         handle_refused(presented, known, wellformed)
    \/ Tick

Spec == Init /\ [][Next]_vars

-----------------------------------------------------------------------------
(* Properties.                                                             *)

TypeOK ==
    /\ clock \in 0..MaxClock
    /\ DOMAIN tenants \subseteq ValidDomains
    /\ global_blocked \subseteq Senders
    /\ reply \in {0, 2, 4, 5}
    /\ \A d \in DOMAIN tenants :
         LET t == tenants[d] IN
         /\ DOMAIN t.directory \subseteq Names
         /\ \A lp \in DOMAIN t.directory : t.directory[lp] \in Keys
         /\ DOMAIN t.random \subseteq Tokens
         /\ t.blocked \subseteq Senders /\ t.suspended \subseteq Names
         /\ t.usage.messages \in 0..MaxMetered

\* authz.rs: vanity and reverse are inverses of each other, a key has one
\* vanity name, and none of them is a local part of the directory.
AliasesConsistent ==
    \A d \in DOMAIN tenants :
        LET a == tenants[d].aliases IN
        /\ a.reverse = {<<a.vanity[lp], lp>> : lp \in DOMAIN a.vanity}
        /\ \A l1, l2 \in DOMAIN a.vanity : a.vanity[l1] = a.vanity[l2] => l1 = l2
        /\ DOMAIN a.vanity \cap a.reserved = {}
        /\ DOMAIN tenants[d].directory \subseteq a.reserved

\* authz.rs, multidomain.rs: mail for an address of the directory goes to the
\* key the directory lists, whatever aliases exist, and a local part that was
\* once in the directory is nobody's vanity name after its removal either.
MailReachesOwner ==
    \A d \in DOMAIN tenants :
        LET t == tenants[d] IN
        /\ \A lp \in DOMAIN t.directory :
             Resolution(t, lp) = [via |-> "directory", to |-> t.directory[lp]]
        /\ \A lp \in owned[d] :
             Resolution(t, lp).via = "alias" => lp \in ReservedForm

\* authz.rs: the alias a key shows for itself leads back to that key as long
\* as the directory lists it or it holds the name.
AliasRoundTrip ==
    \A d \in DOMAIN tenants : \A key \in Keys :
        LET t == tenants[d]
            lp == alias_for(t.aliases, key)
            registered == {t.directory[l] : l \in DOMAIN t.directory}
        IN  (key \in registered \/ Held(t.aliases, key) # {}) =>
                key \in alias_resolve(t.aliases, lp, registered)

\* alias_map.rs: a one-time alias leads somewhere once at most.
OneTimeOnce ==
    \A d \in DOMAIN tenants : \A token \in DOMAIN tenants[d].random :
        LET row == tenants[d].random[token] IN
        row.one_time => uses[d][token] <= IF row.burned THEN 1 ELSE 0

\* authz.rs, multidomain.rs: what the meter counted for a domain is what the
\* ledgers of its tenants, the removed ones included, have charged.
MeterExact ==
    \A d \in Domains :
        meter[d] = spent[d] + IF serves(d) THEN tenants[d].usage.messages ELSE 0

\* admin.rs: a request that is answered with an error has changed nothing.
ErrorsChangeNothing ==
    [][reply' \in {4, 5} =>
         UNCHANGED <<tenants, global_blocked, meter, spent, uses, owned>>]_vars

\* alias_map.rs: a burned or expired alias never comes back to life while its
\* domain is served, whatever is minted later.
RetiredForGood ==
    [][\A d \in DOMAIN tenants \cap DOMAIN tenants' : \A token \in Tokens :
         token \in DOMAIN tenants[d].random
             /\ ~Live(tenants[d].random, token, clock)
         => ~Live(tenants'[d].random, token, clock')]_vars

(* Alias tables agree with one another, mail reaches the owner of its      *)
(* address, a one-time alias serves once, and the meter matches the        *)
(* ledgers (multidomain.rs, authz.rs, alias_map.rs).                       *)
TenantsSafe == /\ TypeOK /\ AliasesConsistent /\ AliasRoundTrip
               /\ MailReachesOwner /\ OneTimeOnce /\ MeterExact
=============================================================================
