----------------------------- MODULE MCTenancy -----------------------------
(***************************************************************************)
(* The multi-domain gateway, the admission of senders and the pier command *)
(* with its capability tokens.  They share no state, so each is explored   *)
(* while the others have not begun: part says which one runs.  One domain  *)
(* and a name that is not one, two keys, a name in two spellings, names    *)
(* derived from the keys and one token; two connections that answer two    *)
(* challenges.  pier: tokens with one thing wrong with them, or with       *)
(* grants that are each half of what is asked.                             *)
(***************************************************************************)
EXTENDS MultiDomain, Admission, DepotCli

VARIABLE part

(* No invocation of pier.                                                  *)
CliNotRun == /\ invocation = [group |-> "none", verb |-> "none"] /\ ticks = 0 /\ cliStage = "ended"
             /\ ik = Absent /\ authorisation = NoTokenYet /\ exitCode = Running /\ cliResult = Refused
             /\ loadedAt = 0

allVars == <<part, vars, admVars, cliVars>>

MCInit == /\ part \in {"tenants", "admission", "pier"} /\ Init /\ AdmInit
          /\ IF part = "pier" THEN CliInit ELSE CliNotRun
MCNext == \/ part = "tenants" /\ Next /\ UNCHANGED <<part, admVars, cliVars>>
          \/ part = "admission" /\ AdmNext /\ UNCHANGED <<part, vars, cliVars>>
          \/ part = "pier" /\ CliNext /\ UNCHANGED <<part, vars, admVars>>
MCSpec == MCInit /\ [][MCNext]_allVars

MCLower == [n \in Names |-> IF n = "Bob" THEN "bob" ELSE n]
MCKeyLocal == [k \in Keys |-> IF k = "k1" THEN "ka" ELSE "kb"]
MCQuotas == {[messages |-> 0, bytes |-> 0], [messages |-> 1, bytes |-> 0]}

Cap(r, a, k) == [resource |-> r, ability |-> a, coordinator |-> k]
Good == [signed |-> TRUE, nbf |-> 0, exp |-> 2, caps |-> {Cap(<<"box">>, "list", "k1")}]
MCTokenFiles ==
    [good     |-> Good,
     wide     |-> [Good EXCEPT !.caps = {Cap(<<>>, a, "k1") : a \in {"list", "observe", "destroy"}}],
     forged   |-> [Good EXCEPT !.signed = FALSE],
     later    |-> [Good EXCEPT !.nbf = 1],
     coined   |-> [Good EXCEPT !.caps = @ \cup {Cap(<<"box">>, "terminate", "k1")}],
     unbound  |-> [Good EXCEPT !.caps = {Cap(<<"box">>, "list", Absent), Cap(<<"volume">>, "list", "k1")}],
     halves   |-> [Good EXCEPT !.caps = {Cap(<<"box", "i">>, "destroy", "k1"), Cap(<<"box", "j">>, "stop", "k1"),
                                        Cap(<<"volume">>, "destroy", "k1")}]]
(* The commands, each with every token and coordinator it may be given; the *)
(* two places those come from are told apart for one of them.               *)
Ask(g, v, ids, services, tokens, envs, iks) ==
    [group : {g}, verb : {v}, id : ids, service : services, token : tokens, env_token : envs,
     coordinator : iks, env_coordinator : IF envs = {Absent} THEN {Absent} ELSE {Absent, "k1"}]
AnyToken == DOMAIN MCTokenFiles \cup {Absent, "unreadable"}
AnyIk == {Absent, "k1", "k2", "not an IK"}
MCInvocations ==
    Ask("box", "list", {Absent, "i"}, {Absent}, AnyToken, {Absent, "good"}, AnyIk)
    \cup UNION {Ask(g, "destroy", {Absent, "i", "j"}, {Absent}, AnyToken, {Absent}, AnyIk) :
                   g \in {"box", "volume", "bucket", "fn"}}
    \cup UNION {Ask("box", v, {Absent, "j"}, {Absent}, {"halves", "wide"}, {Absent}, {"k1"}) :
                   v \in {"stop", "console", "coined"}}
    \cup Ask("logs", "logs", {Absent, "i"}, {"box", "edge-fn", "junk"}, {"good", "wide"}, {Absent}, {"k1"})
    \cup Ask("status", "status", {Absent}, {Absent}, AnyToken, {Absent}, {"k1"})
    \cup UNION {Ask("auth", v, {Absent}, {Absent}, AnyToken, {Absent, "later"}, {Absent}) :
                   v \in {"token", "whoami"}}
    \cup Ask("certs", "add", {Absent}, {Absent}, {Absent}, {Absent}, {Absent})
MCCertRequests == [domain : {"name", "wildcard", "inner wildcard", "not a name"}, ingress : {Absent, "edge"},
                   acme_delegation : {Absent, "zone"}, acme_account : {Absent, "uri"},
                   exclude_tls_alpn : BOOLEAN, caa_enforcement_established : BOOLEAN]

(* What a step never does: change something and fail, bring a retired      *)
(* alias back, or take a challenge from its sender (admin.rs, authz.rs).   *)
StepsSafe == ErrorsChangeNothing /\ RetiredForGood /\ NotBurned
=============================================================================
