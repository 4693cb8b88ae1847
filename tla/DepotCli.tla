------------------------------ MODULE DepotCli ------------------------------
(***************************************************************************)
(* pier-cli: one invocation of the pier command.  It resolves the command  *)
(* to a scope and an ability, finds the coordinator and the capability     *)
(* token, checks the one against the other and then refuses, for no        *)
(* transport is built.  The order of the steps decides what is read and    *)
(* how the process ends.  certs add plans a certificate instead.           *)
(*                                                                         *)
(* A scope is a path: <<>> is depot:*, <<s>> every instance of a service,  *)
(* <<s, i>> one of them, so a grant covers what it is a prefix of          *)
(* (ResourceRef::covers, check_coordinator_binding and the token's         *)
(* signature are kotva's).                                                 *)
(***************************************************************************)
EXTENDS Naturals, Sequences, SequencesExt

CONSTANTS Invocations,   \* what the shell may ask
          TokenFiles,    \* file name -> token, for the files that can be read
          CertRequests,  \* what certs add may be asked
          MaxTicks       \* bound: the clock of the machine

ASSUME CliAssumption ==
    \A f \in DOMAIN TokenFiles : \A cap \in TokenFiles[f].caps : cap.resource \in Seq(STRING)

VARIABLES invocation, ticks, cliStage,
          ik, authorisation,     \* the coordinator, the token loaded (the locals of run_depot)
          exitCode, cliResult,       \* how the process ended, and what it printed
          loadedAt               \* history: the time the token was looked at

cliVars == <<invocation, ticks, cliStage, ik, authorisation, exitCode, cliResult, loadedAt>>

Absent == "absent"
Exit == [ok |-> 0, usage |-> 2, not_implemented |-> 3, unauthorised |-> 4]
Running == 1

-----------------------------------------------------------------------------
(* TABLE: the ability each command puts on the wire.                       *)
BoxRows == [create |-> "provision", list |-> "list", show |-> "inspect", start |-> "start",
            stop |-> "stop", restart |-> "restart", snapshot |-> "snapshot", export |-> "export",
            destroy |-> "destroy", console |-> "console"]
VolumeRows == [create |-> "provision", list |-> "list", attach |-> "attach", detach |-> "detach",
               resize |-> "resize", snapshot |-> "snapshot", export |-> "export", destroy |-> "destroy"]
BucketRows == [create |-> "provision", list |-> "list", put |-> "write", get |-> "read",
               rm |-> "delete", serve |-> "serve", export |-> "export", destroy |-> "destroy"]
FnRows == [deploy |-> "deploy", invoke |-> "invoke", rollback |-> "rollback", list |-> "list",
           export |-> "export", destroy |-> "destroy"]
TABLE == [box |-> BoxRows, volume |-> VolumeRows, bucket |-> BucketRows, fn |-> FnRows,
          logs |-> [logs |-> "observe"], status |-> [status |-> "list"],
          certs |-> [add |-> "reconfigure"], auth |-> [token |-> "local", whoami |-> "local"]]
Services == {"box", "volume", "bucket", "edge-fn"}
service == [box |-> "box", volume |-> "volume", bucket |-> "bucket", fn |-> "edge-fn", certs |-> "box"]
lookup(i) == i.group \in DOMAIN TABLE /\ i.verb \in DOMAIN TABLE[i.group]
ability(i) == TABLE[i.group][i.verb]
Abilities == UNION {Range(TABLE[g]) : g \in DOMAIN TABLE} \ {"local"}

(* scope: the service of the command or of --service, then the instance.   *)
scope(i) ==
    LET s == IF i.group \in DOMAIN service THEN service[i.group] ELSE i.service
    IN  CASE s = Absent -> <<>>
          [] s # Absent /\ i.id = Absent -> <<s>>
          [] OTHER -> <<s, i.id>>
scoped(i) == i.group \in DOMAIN service \/ i.service \in Services \cup {Absent}

(* --token, else the environment; --coordinator, else the environment.     *)
token_path(i) == IF i.token # Absent THEN i.token ELSE i.env_token
target(i) == IF i.coordinator # Absent THEN i.coordinator ELSE i.env_coordinator
parse_coordinator(k) == k # "not an IK"

-----------------------------------------------------------------------------
(* certs::plan.                                                            *)
Refused == [ok |-> FALSE]
forced_WildcardOnly(q) == q.domain = "wildcard"
forced(q) == q.domain = "wildcard" \/ q.exclude_tls_alpn
plan(q) ==
    LET dns01 == forced(q)
        wildcard == q.domain = "wildcard"
        account == IF q.acme_account # Absent THEN {"accounturi"} ELSE {}
        methods == IF q.exclude_tls_alpn THEN {"dns-01"} ELSE {"dns-01", "tls-alpn-01"}
    IN  IF \/ q.domain \notin {"name", "wildcard"} \/ q.ingress = Absent
           \/ (q.caa_enforcement_established /\ q.acme_account = Absent)
           \/ (dns01 /\ q.acme_delegation = Absent)
        THEN Refused
        ELSE [ok |-> TRUE,
              challenge |-> IF dns01 THEN "dns-01" ELSE "tls-alpn-01",
              assurance |-> IF q.caa_enforcement_established THEN "structural" ELSE "declared",
              records |-> {[kind |-> "CNAME", name |-> q.domain, value |-> q.ingress]}
                    \cup (IF dns01 THEN {[kind |-> "CNAME", name |-> "challenge", value |-> q.acme_delegation]}
                          ELSE {})
                    \cup {[kind |-> IF wildcard THEN "issuewild" ELSE "issue", name |-> "base",
                           value |-> [binding |-> account, validationmethods |-> methods]]}]

-----------------------------------------------------------------------------
NoTokenYet == [caps |-> {}]
CliInit == /\ invocation \in Invocations /\ ticks = 0 /\ cliStage = "run"
           /\ ik = Absent /\ authorisation = NoTokenYet /\ exitCode = Running /\ cliResult = Refused /\ loadedAt = 0

Exits(c) == cliStage' = "ended" /\ exitCode' = c
Continues(s) == cliStage' = s /\ UNCHANGED exitCode

(* run, run_local and run_depot up to the first thing it reads.            *)
run ==
    /\ cliStage = "run"
    /\ UNCHANGED <<invocation, ticks, ik, authorisation, loadedAt>>
    /\ IF ~lookup(invocation) THEN Exits(Exit.usage) /\ UNCHANGED cliResult
       ELSE IF ability(invocation) = "local"
       THEN /\ UNCHANGED cliResult
            /\ IF invocation.verb = "whoami" THEN Continues("load") ELSE Exits(Exit.not_implemented)
       ELSE IF ~scoped(invocation) THEN Exits(Exit.usage) /\ UNCHANGED cliResult
       ELSE IF invocation.group = "certs"
       THEN \E q \in CertRequests :
               /\ cliResult' = plan(q)
               /\ Exits(IF plan(q).ok THEN Exit.not_implemented ELSE Exit.usage)
       ELSE Continues("coordinator") /\ UNCHANGED cliResult

coordinator ==
    /\ cliStage = "coordinator"
    /\ IF target(invocation) # Absent /\ parse_coordinator(target(invocation))
       THEN ik' = target(invocation) /\ Continues("load")
       ELSE Exits(Exit.unauthorised) /\ UNCHANGED ik
    /\ UNCHANGED <<invocation, ticks, authorisation, cliResult, loadedAt>>

(* load and from_bytes: the file, the signature, the window, and every     *)
(* capability through the registries.                                      *)
in_window(t, at) == t.nbf <= at /\ at < t.exp
usable(cap) == Len(cap.resource) <= 2 /\ (cap.resource # <<>> => cap.resource[1] \in Services)
                 /\ cap.ability \in Abilities
from_bytes(t, at) == t.signed /\ in_window(t, at) /\ \A cap \in t.caps : usable(cap)

load ==
    /\ cliStage = "load"
    /\ loadedAt' = ticks
    /\ LET p == token_path(invocation)
       IN  IF p \in DOMAIN TokenFiles /\ from_bytes(TokenFiles[p], ticks)
           THEN /\ authorisation' = TokenFiles[p]
                /\ IF invocation.verb = "whoami" THEN Exits(Exit.ok) ELSE Continues("authorise")
           ELSE Exits(Exit.unauthorised) /\ UNCHANGED authorisation
    /\ UNCHANGED <<invocation, ticks, ik, cliResult>>

(* authorise: one capability that is bound to the coordinator, has the     *)
(* ability and covers the scope.  The request is then not sent.            *)
covers(resource, wanted) == IsPrefix(resource, wanted)
bound(caps) == {cap \in caps : cap.coordinator = ik}
grants_Apart(caps) ==
    /\ \E cap \in bound(caps) : covers(cap.resource, scope(invocation))
    /\ \E cap \in bound(caps) : cap.ability = ability(invocation)
grants(caps) ==
    \E cap \in bound(caps) : cap.ability = ability(invocation) /\ covers(cap.resource, scope(invocation))

authorise ==
    /\ cliStage = "authorise"
    /\ IF grants(authorisation.caps)
       THEN /\ Exits(Exit.not_implemented)
            /\ cliResult' = [ok |-> TRUE, ability |-> ability(invocation), resource |-> scope(invocation), at |-> ik]
       ELSE Exits(Exit.unauthorised) /\ UNCHANGED cliResult
    /\ UNCHANGED <<invocation, ticks, ik, authorisation, loadedAt>>

Passing == /\ ticks < MaxTicks /\ cliStage # "ended" /\ ticks' = ticks + 1
           /\ UNCHANGED <<invocation, cliStage, ik, authorisation, exitCode, cliResult, loadedAt>>

CliNext == run \/ coordinator \/ load \/ authorise \/ Passing

CliSpec == CliInit /\ [][CliNext]_cliVars

-----------------------------------------------------------------------------
(* What the shell sees agrees with what happened: the command ends with    *)
(* zero only when it has shown a token that verified and was in its window *)
(* when it was looked at, and prints a result only when it says that the   *)
(* rest is not implemented (exit, run).                                    *)
ExitsHonestly ==
    /\ exitCode = Exit.ok => /\ invocation.verb = "whoami"
                         /\ TokenFiles[token_path(invocation)].signed
                         /\ in_window(TokenFiles[token_path(invocation)], loadedAt)
    /\ cliResult.ok => exitCode = Exit.not_implemented

(* A token is worth what its best capability is worth alone, at the        *)
(* coordinator that was named: a request is authorised only if one that is *)
(* bound there, for exactly that ability, reaches the scope, and never by  *)
(* putting two of them together (Authorisation::authorise).                *)
NoSumOfGrants ==
    cliResult.ok /\ invocation.group # "certs" =>
        \E cap \in TokenFiles[token_path(invocation)].caps :
            /\ cap.coordinator = target(invocation) /\ cap.coordinator = cliResult.at
            /\ cap.ability = cliResult.ability
            /\ \A n \in DOMAIN cap.resource :
                   n \in DOMAIN cliResult.resource /\ cap.resource[n] = cliResult.resource[n]

(* A certificate plan works as printed: its own CAA record permits the     *)
(* challenge it picked, a DNS challenge has its delegation, and a claim of *)
(* structural assurance is bound to an account (certs::plan).              *)
PlanHolds ==
    invocation.group = "certs" /\ cliResult.ok =>
        LET caa == CHOOSE r \in cliResult.records : r.kind \in {"issue", "issuewild"}
        IN  /\ cliResult.challenge \in caa.value.validationmethods
            /\ (cliResult.challenge = "dns-01") <=> (\E r \in cliResult.records : r.name = "challenge")
            /\ caa.kind = "issuewild" => cliResult.challenge = "dns-01"
            /\ cliResult.assurance = "structural" => caa.value.binding # {}

(* The pier command exits with the code of what it found, takes no two     *)
(* capabilities for one, and prints only certificate plans that can be     *)
(* carried out (run.rs, auth.rs, certs.rs).                                *)
CommandSafe == ExitsHonestly /\ NoSumOfGrants /\ PlanHolds
=============================================================================
