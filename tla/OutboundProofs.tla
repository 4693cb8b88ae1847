---------------------------- MODULE OutboundProofs ----------------------------
(***************************************************************************)
(* What leaves the outbound gateway is authorised, encrypted and addressed *)
(* as the policy in force asks, within the limits of its account, and the  *)
(* outcome that is reported is true, for any requests, policies, answers   *)
(* of the network and limits.                                              *)
(*                                                                         *)
(* What a message satisfies when it leaves was decided at earlier steps,   *)
(* so the invariant says of every stage what the stages before it have     *)
(* established.  Over all threads of an account, the hits inside a window  *)
(* are all still kept and a strike is remembered as the end of a backoff.  *)
(***************************************************************************)
EXTENDS Outbound, FiniteSetTheorems, NaturalsInduction, SequenceTheorems, TLAPS

(* The stages that lie behind a given one.                                 *)
Sending == {"policy", "patterns", "mx", "dial", "ehlo", "starttls", "ehlo2", "envelope", "data", "body"}
Dialing == {"dial", "ehlo", "starttls", "ehlo2", "envelope", "data", "body"}
Connected == {"ehlo", "starttls", "ehlo2", "envelope", "data", "body"}
Greeted == {"envelope", "data", "body"}
Stages == Sending \cup {"new", "report", "done"}
Reports == {"none", "Blocked", "Delivered", "Deferred", "Failed"}

\* A request's record, whatever the network put into it.
Shape(v) == /\ v = [pc |-> v.pc, required |-> v.required, patterns |-> v.patterns, host |-> v.host,
                    tls |-> v.tls, caps |-> v.caps, report |-> v.report]
            /\ v.pc \in Stages /\ v.report \in Reports

\* What has been established about request q when its thread is in state v.
StageOK(q, v) ==
    /\ v.pc \in Sending => q.account \in Registered /\ may_claim(q.ik, q.from) /\ q.from \in Delegated
    /\ v.pc \in Dialing => v.patterns = {} \/ any_pattern_matches(v.patterns, v.host)
    /\ v.pc \in Connected => v.host \notin ForbiddenHosts
    /\ v.pc = "ehlo2" => v.tls
    /\ v.pc \in Greeted => (v.required => v.tls) /\ ("STARTTLS" \in v.caps => v.tls)
    /\ v.pc \in {"data", "body"} => ~CapsMissing(q, v.caps)

ReqInv == /\ req = [r \in Reqs |-> req[r]]
          /\ \A r \in Reqs : Shape(req[r]) /\ StageOK(Request[r], req[r])

\* One thread moves on.
LEMMA ReqMoves ==
    ASSUME ReqInv, NEW r \in Reqs, NEW p, NEW v, Shape(v), StageOK(Request[r], v), Step(r, p, v)
    PROVE  ReqInv' /\ \A x \in Reqs : req'[x] = IF x = r THEN v ELSE req[x]
BY DEF ReqInv, Step

\* A session that ended knows nothing any more.
LEMMA ReportOK ==
    ASSUME NEW r \in Reqs, NEW what \in Reports
    PROVE  /\ Shape(Report(r, what)) /\ StageOK(Request[r], Report(r, what))
           /\ Report(r, what).pc = "report" /\ Report(r, what).report = what
<1>1. PICK v : v = Report(r, what) OBVIOUS
<1>2. v = [pc |-> "report", required |-> FALSE, patterns |-> {}, host |-> <<>>, tls |-> FALSE,
           caps |-> {}, report |-> what]
  BY <1>1 DEF Report, NewReq
<1>3. v.pc = "report" /\ v.report = what BY <1>2
<1>4. Shape(v) BY <1>2, <1>3 DEF Shape, Stages
<1>5. StageOK(Request[r], v) BY <1>3 DEF StageOK, Sending, Dialing, Connected, Greeted
<1> QED BY <1>1, <1>3, <1>4, <1>5

\* A thread that only moves on to its next stage.
LEMMA GoFields ==
    ASSUME ReqInv, NEW r \in Reqs, NEW p \in Stages
    PROVE  /\ Shape(Go(r, p)) /\ Go(r, p).pc = p /\ Go(r, p).required = req[r].required
           /\ Go(r, p).patterns = req[r].patterns /\ Go(r, p).host = req[r].host
           /\ Go(r, p).tls = req[r].tls /\ Go(r, p).caps = req[r].caps /\ Go(r, p).report = req[r].report
<1>1. PICK v : v = Go(r, p) OBVIOUS
<1>2. Shape(req[r]) BY DEF ReqInv
<1>3. v = [pc |-> p, required |-> req[r].required, patterns |-> req[r].patterns, host |-> req[r].host,
           tls |-> req[r].tls, caps |-> req[r].caps, report |-> req[r].report]
  BY <1>1, <1>2 DEF Go, Shape
<1> QED BY <1>1, <1>2, <1>3 DEF Shape

LEMMA Classified ==
    ASSUME NEW code
    PROVE  /\ classify(code) \in Reports /\ classify(code) \notin {"none", "Blocked"}
           /\ classify(code) = "Delivered" <=> code = "2xx"
           /\ classify(code) = "Failed" => code \notin {"2xx", "4xx", "eof"}
BY DEF classify, Reports

\* A set of numbers that is not empty has a first.
LEMMA Minimum ==
    ASSUME NEW S, S \subseteq Nat, S # {}
    PROVE  \E x \in S : \A y \in S : x <= y
<1> DEFINE R == {ss \in Nat \X Nat : ss[1] < ss[2]}
<1>1. R = OpToRel(<, Nat) BY DEF OpToRel
<1>2. IsWellFoundedOn(R, Nat) BY <1>1, NatLessThanWellFounded, Zenon
<1>3. \A x, y \in Nat : <<y, x>> \in R <=> y < x OBVIOUS
<1> HIDE DEF R
<1>4. PICK x \in S : \A y \in S : ~(<<y, x>> \in R) BY <1>2, WFMin, Zenon
<1>5. ASSUME NEW y \in S PROVE x <= y
  <2>1. x \in Nat /\ y \in Nat OBVIOUS
  <2>2. ~(y < x) BY <2>1, <1>3, <1>4, Zenon
  <2> QED BY <2>1, <2>2
<1> QED BY <1>5

\* The host that is dialled is one of the eligible ones.
LEMMA DialsEligible ==
    ASSUME NEW hosts, NEW E, E \subseteq DOMAIN hosts, E # {}, DOMAIN hosts \subseteq Nat,
           \A i \in DOMAIN hosts : hosts[i].pref \in Nat
    PROVE  \E i \in E : dial_host(hosts, E) = hosts[i].host
<1> DEFINE Prefs == {hosts[i].pref : i \in E}
<1>1. Prefs \subseteq Nat /\ Prefs # {} OBVIOUS
<1>2. PICK m \in Prefs : \A y \in Prefs : m <= y BY <1>1, Minimum
<1> DEFINE First == {i \in E : hosts[i].pref = m}
<1>3. First \subseteq Nat /\ First # {} BY <1>2
<1>4. PICK i \in First : \A j \in First : i <= j BY <1>3, Minimum
<1>5. \A j \in E : hosts[i].pref < hosts[j].pref \/ (hosts[i].pref = hosts[j].pref /\ i <= j)
  <2> SUFFICES ASSUME NEW j \in E
               PROVE  hosts[i].pref < hosts[j].pref \/ (hosts[i].pref = hosts[j].pref /\ i <= j)
    OBVIOUS
  <2>1. hosts[j].pref \in Prefs OBVIOUS
  <2>2. m <= hosts[j].pref /\ m \in Nat /\ hosts[j].pref \in Nat BY <1>1, <1>2, <2>1
  <2>3. CASE j \in First BY <1>4, <2>3
  <2>4. CASE j \notin First BY <1>4, <2>2, <2>4
  <2> QED BY <2>3, <2>4
<1>6. i \in E BY <1>4
<1> DEFINE Best(k) == \A j \in E : \/ hosts[k].pref < hosts[j].pref
                                   \/ hosts[k].pref = hosts[j].pref /\ k <= j
<1>7. (CHOOSE k \in E : Best(k)) \in E BY <1>5, <1>6
<1> QED BY <1>7 DEF dial_host

-----------------------------------------------------------------------------
(* The stages of a send.                                                   *)

LEMMA SendKeeps ==
    ASSUME ReqInv, NEW r \in Reqs, send_authenticated(r),
           authorize_send(Request[r].account).v = "Allow" => Request[r].account \in Registered
    PROVE  ReqInv'
<1> DEFINE q == Request[r]
           g == authorize_send(q.account)
<1>1. CASE g.v # "Allow" \/ ~may_claim(q.ik, q.from)
  <2>1. PICK v : v = [Go(r, "done") EXCEPT !.report = "Blocked"] OBVIOUS
  <2>2. Step(r, "new", v) BY <1>1, <2>1 DEF send_authenticated
  <2>3. Shape(Go(r, "done")) /\ Go(r, "done").pc = "done" BY GoFields DEF Stages
  <2>4. Shape(v) /\ v.pc = "done"
    <3>1. PICK u : u = Go(r, "done") OBVIOUS
    <3>2. v = [pc |-> u.pc, required |-> u.required, patterns |-> u.patterns, host |-> u.host,
               tls |-> u.tls, caps |-> u.caps, report |-> "Blocked"]
      BY <2>1, <2>3, <3>1 DEF Shape
    <3> QED BY <2>3, <3>1, <3>2 DEF Shape, Reports
  <2>5. StageOK(q, v) BY <2>4 DEF StageOK, Sending, Dialing, Connected, Greeted
  <2> QED BY <2>2, <2>4, <2>5, ReqMoves
<1>2. CASE ~(g.v # "Allow" \/ ~may_claim(q.ik, q.from)) /\ (~translate_and_sign(q) \/ q.dest = <<>>)
  <2>1. Step(r, "new", Report(r, "Failed")) BY <1>2 DEF send_authenticated
  <2> QED BY <2>1, ReportOK, ReqMoves DEF Reports
<1>3. CASE g.v = "Allow" /\ may_claim(q.ik, q.from) /\ translate_and_sign(q) /\ q.dest # <<>>
  <2>1. Step(r, "new", Go(r, "policy")) BY <1>3 DEF send_authenticated
  <2>2. Shape(Go(r, "policy")) /\ Go(r, "policy").pc = "policy" BY GoFields DEF Stages, Sending
  <2>3. StageOK(q, Go(r, "policy"))
    BY <1>3, <2>2 DEF StageOK, Dialing, Connected, Greeted, translate_and_sign
  <2> QED BY <2>1, <2>2, <2>3, ReqMoves
<1> QED BY <1>1, <1>2, <1>3

LEMMA RequirementKeeps ==
    ASSUME ReqInv, NEW r \in Reqs, NEW a, send_requirement(r, a)
    PROVE  ReqInv'
<1>1. PICK v : v = [Go(r, "patterns") EXCEPT !.required = requirement_for(a)] OBVIOUS
<1>2. Step(r, "policy", v) /\ req[r].pc = "policy" BY <1>1 DEF send_requirement, Step
<1>3. PICK u : u = Go(r, "patterns") OBVIOUS
<1>4. Shape(u) /\ u.pc = "patterns" BY <1>3, GoFields DEF Stages, Sending
<1>5. v = [pc |-> u.pc, required |-> requirement_for(a), patterns |-> u.patterns, host |-> u.host,
           tls |-> u.tls, caps |-> u.caps, report |-> u.report]
  BY <1>1, <1>3, <1>4 DEF Shape
<1>6. Shape(v) /\ v.pc = "patterns" BY <1>4, <1>5 DEF Shape
<1>7. StageOK(Request[r], req[r]) BY DEF ReqInv
<1>8. StageOK(Request[r], v) BY <1>2, <1>6, <1>7 DEF StageOK, Sending, Dialing, Connected, Greeted
<1> QED BY <1>2, <1>6, <1>8, ReqMoves

LEMMA PatternsKeeps ==
    ASSUME ReqInv, NEW r \in Reqs, NEW a, send_patterns(r, a)
    PROVE  ReqInv'
<1>1. PICK v : v = [Go(r, "mx") EXCEPT !.patterns = allowed_mx_patterns(a)] OBVIOUS
<1>2. Step(r, "patterns", v) /\ req[r].pc = "patterns" BY <1>1 DEF send_patterns, Step
<1>3. PICK u : u = Go(r, "mx") OBVIOUS
<1>4. Shape(u) /\ u.pc = "mx" BY <1>3, GoFields DEF Stages, Sending
<1>5. v = [pc |-> u.pc, required |-> u.required, patterns |-> allowed_mx_patterns(a), host |-> u.host,
           tls |-> u.tls, caps |-> u.caps, report |-> u.report]
  BY <1>1, <1>3, <1>4 DEF Shape
<1>6. Shape(v) /\ v.pc = "mx" BY <1>4, <1>5 DEF Shape
<1>7. StageOK(Request[r], req[r]) BY DEF ReqInv
<1>8. StageOK(Request[r], v) BY <1>2, <1>6, <1>7 DEF StageOK, Sending, Dialing, Connected, Greeted
<1> QED BY <1>2, <1>6, <1>8, ReqMoves

\* Only a host that a pattern allows is dialled.
LEMMA MxKeeps ==
    ASSUME ReqInv, NEW r \in Reqs, NEW a \in MxAnswers, send_mx(r, a)
    PROVE  ReqInv'
<1>1. PICK hosts : hosts = resolve_mx(Request[r].dest, a) OBVIOUS
<1>2. PICK E : E = Eligible(hosts, req[r].patterns) OBVIOUS
<1>3. CASE E = {}
  <2>1. Step(r, "mx", Report(r, "Failed")) BY <1>1, <1>2, <1>3 DEF send_mx
  <2> QED BY <2>1, ReportOK, ReqMoves DEF Reports
<1>4. CASE E # {}
  <2>1. PICK h : h = dial_host(hosts, E) OBVIOUS
  <2>2. PICK v : v = [Go(r, "dial") EXCEPT !.host = h] OBVIOUS
  <2>3. Step(r, "mx", v) /\ req[r].pc = "mx" BY <1>1, <1>2, <1>4, <2>1, <2>2 DEF send_mx, Step
  <2>4. DOMAIN hosts \subseteq Nat /\ \A i \in DOMAIN hosts : hosts[i].pref \in Nat
    <3>1. PICK T : T = [pref : Nat, host : Seq(STRING)] OBVIOUS
    <3>2. a.hosts \in Seq(T) BY <3>1, OutboundAssumption
    <3>3. Request[r].dest \in Seq(STRING) BY OutboundAssumption
    <3>4. <<[pref |-> 0, host |-> Request[r].dest]>> \in Seq(T) BY <3>1, <3>3
    <3>5. hosts \in Seq(T) BY <1>1, <3>2, <3>4 DEF resolve_mx
    <3>6. \A i \in DOMAIN hosts : hosts[i] \in T /\ i \in Nat BY <3>5
    <3> QED BY <3>1, <3>6
  <2>5. E \subseteq DOMAIN hosts BY <1>2 DEF Eligible
  <2>6. PICK i \in E : h = hosts[i].host BY <1>4, <2>1, <2>4, <2>5, DialsEligible
  <2>7. req[r].patterns = {} \/ any_pattern_matches(req[r].patterns, h) BY <1>2, <2>6 DEF Eligible
  <2>8. PICK u : u = Go(r, "dial") OBVIOUS
  <2>9. Shape(u) /\ u.pc = "dial" /\ u.patterns = req[r].patterns BY <2>8, GoFields DEF Stages, Sending
  <2>10. v = [pc |-> u.pc, required |-> u.required, patterns |-> u.patterns, host |-> h,
             tls |-> u.tls, caps |-> u.caps, report |-> u.report]
    BY <2>2, <2>8, <2>9 DEF Shape
  <2>11. Shape(v) /\ v.pc = "dial" /\ v.patterns = req[r].patterns /\ v.host = h BY <2>9, <2>10 DEF Shape
  <2>12. StageOK(Request[r], req[r]) BY DEF ReqInv
  <2>13. StageOK(Request[r], v) BY <2>3, <2>7, <2>11, <2>12 DEF StageOK, Sending, Dialing, Connected, Greeted
  <2> QED BY <2>3, <2>11, <2>13, ReqMoves
<1> QED BY <1>3, <1>4

LEMMA DialKeeps ==
    ASSUME ReqInv, NEW r \in Reqs, NEW code, dial_addr(r, code)
    PROVE  ReqInv'
<1>1. CASE req[r].host \in ForbiddenHosts
  <2>1. Step(r, "dial", Report(r, "Deferred")) BY <1>1 DEF dial_addr
  <2> QED BY <2>1, ReportOK, ReqMoves DEF Reports
<1>2. CASE req[r].host \notin ForbiddenHosts /\ code # "2xx"
  <2>1. Step(r, "dial", Report(r, classify(code))) BY <1>2 DEF dial_addr, Expect2xx
  <2> QED BY <2>1, Classified, ReportOK, ReqMoves
<1>3. CASE req[r].host \notin ForbiddenHosts /\ code = "2xx"
  <2>1. Step(r, "dial", Go(r, "ehlo")) /\ req[r].pc = "dial" BY <1>3 DEF dial_addr, Expect2xx, Step
  <2>2. /\ Shape(Go(r, "ehlo")) /\ Go(r, "ehlo").pc = "ehlo" /\ Go(r, "ehlo").patterns = req[r].patterns
        /\ Go(r, "ehlo").host = req[r].host
    BY GoFields DEF Stages, Sending
  <2>3. StageOK(Request[r], req[r]) BY DEF ReqInv
  <2>4. StageOK(Request[r], Go(r, "ehlo"))
    BY <1>3, <2>1, <2>2, <2>3 DEF StageOK, Sending, Dialing, Connected, Greeted
  <2> QED BY <2>1, <2>2, <2>4, ReqMoves
<1> QED BY <1>1, <1>2, <1>3

\* A thread that moves on with new capabilities.
WithCaps(r, p, caps) == [Go(r, p) EXCEPT !.caps = caps]
LEMMA WithCapsFields ==
    ASSUME ReqInv, NEW r \in Reqs, NEW p \in Stages, NEW caps, NEW v, v = WithCaps(r, p, caps)
    PROVE  /\ Shape(v) /\ v.pc = p /\ v.required = req[r].required /\ v.patterns = req[r].patterns
           /\ v.host = req[r].host /\ v.tls = req[r].tls /\ v.caps = caps /\ v.report = req[r].report
<1>1. PICK u : u = Go(r, p) OBVIOUS
<1>2. /\ Shape(u) /\ u.pc = p /\ u.required = req[r].required
      /\ u.patterns = req[r].patterns /\ u.host = req[r].host /\ u.tls = req[r].tls
      /\ u.report = req[r].report
  BY <1>1, GoFields
<1>3. v = [pc |-> u.pc, required |-> u.required, patterns |-> u.patterns, host |-> u.host,
           tls |-> u.tls, caps |-> caps, report |-> u.report]
  BY <1>1, <1>2 DEF Shape, WithCaps
<1>4. /\ v.pc = u.pc /\ v.required = u.required /\ v.patterns = u.patterns /\ v.host = u.host
      /\ v.tls = u.tls /\ v.caps = caps /\ v.report = u.report
  BY <1>3
<1>5. v = [pc |-> v.pc, required |-> v.required, patterns |-> v.patterns, host |-> v.host,
           tls |-> v.tls, caps |-> v.caps, report |-> v.report]
  BY <1>3, <1>4
<1>6. Shape(v) BY <1>2, <1>4, <1>5 DEF Shape
<1> QED BY <1>2, <1>4, <1>6

LEMMA EhloKeeps ==
    ASSUME ReqInv, NEW r \in Reqs, NEW code, NEW caps, ehlo(r, code, caps)
    PROVE  ReqInv'
<1>0. StageOK(Request[r], req[r]) BY DEF ReqInv
<1>1. CASE code # "2xx"
  <2>1. PICK what \in {"Deferred", "Failed"} : Step(r, "ehlo", Report(r, what)) BY <1>1 DEF ehlo, EhloFails
  <2> QED BY <2>1, ReportOK, ReqMoves DEF Reports
<1>2. CASE code = "2xx" /\ "STARTTLS" \in caps
  <2>1. PICK v : v = WithCaps(r, "starttls", caps) OBVIOUS
  <2>2. Step(r, "ehlo", v) /\ req[r].pc = "ehlo" BY <1>2, <2>1 DEF ehlo, AfterEhlo, Step, WithCaps
  <2>3. Shape(v) /\ v.pc = "starttls" /\ v.patterns = req[r].patterns /\ v.host = req[r].host
    BY <2>1, WithCapsFields DEF Stages, Sending
  <2>4. StageOK(Request[r], v) BY <1>0, <2>2, <2>3 DEF StageOK, Sending, Dialing, Connected, Greeted
  <2> QED BY <2>2, <2>3, <2>4, ReqMoves
<1>3. CASE code = "2xx" /\ "STARTTLS" \notin caps /\ req[r].required
  <2>1. Step(r, "ehlo", Report(r, "Failed")) BY <1>3 DEF ehlo, AfterEhlo
  <2> QED BY <2>1, ReportOK, ReqMoves DEF Reports
<1>4. CASE code = "2xx" /\ "STARTTLS" \notin caps /\ ~req[r].required
  <2>1. PICK v : v = WithCaps(r, "envelope", caps) OBVIOUS
  <2>2. Step(r, "ehlo", v) /\ req[r].pc = "ehlo" BY <1>4, <2>1 DEF ehlo, AfterEhlo, Step, WithCaps
  <2>3. /\ Shape(v) /\ v.pc = "envelope" /\ v.patterns = req[r].patterns /\ v.host = req[r].host
        /\ v.caps = caps /\ v.required = req[r].required
    BY <2>1, WithCapsFields DEF Stages, Sending
  <2>4. StageOK(Request[r], v) BY <1>0, <1>4, <2>2, <2>3 DEF StageOK, Sending, Dialing, Connected, Greeted
  <2> QED BY <2>2, <2>3, <2>4, ReqMoves
<1> QED BY <1>1, <1>2, <1>3, <1>4

LEMMA StarttlsKeeps ==
    ASSUME ReqInv, NEW r \in Reqs, NEW code, NEW valid, starttls(r, code, valid)
    PROVE  ReqInv'
<1>1. CASE code = "eof" \/ code # "2xx" \/ ~valid
  <2>1. PICK what \in {"Deferred", "Failed"} : Step(r, "starttls", Report(r, what)) BY <1>1 DEF starttls
  <2> QED BY <2>1, ReportOK, ReqMoves DEF Reports
<1>2. CASE code # "eof" /\ code = "2xx" /\ valid
  <2>1. PICK v : v = [Go(r, "ehlo2") EXCEPT !.tls = TRUE] OBVIOUS
  <2>2. Step(r, "starttls", v) /\ req[r].pc = "starttls" BY <1>2, <2>1 DEF starttls, Step
  <2>3. PICK u : u = Go(r, "ehlo2") OBVIOUS
  <2>4. /\ Shape(u) /\ u.pc = "ehlo2" /\ u.patterns = req[r].patterns /\ u.host = req[r].host
    BY <2>3, GoFields DEF Stages, Sending
  <2>5. v = [pc |-> u.pc, required |-> u.required, patterns |-> u.patterns, host |-> u.host,
             tls |-> TRUE, caps |-> u.caps, report |-> u.report]
    BY <2>1, <2>3, <2>4 DEF Shape
  <2>6. Shape(v) /\ v.pc = "ehlo2" /\ v.patterns = req[r].patterns /\ v.host = req[r].host /\ v.tls = TRUE
    BY <2>4, <2>5 DEF Shape
  <2>7. StageOK(Request[r], req[r]) BY DEF ReqInv
  <2>8. StageOK(Request[r], v) BY <2>2, <2>6, <2>7 DEF StageOK, Sending, Dialing, Connected, Greeted
  <2> QED BY <2>2, <2>6, <2>8, ReqMoves
<1> QED BY <1>1, <1>2

LEMMA EhloAgainKeeps ==
    ASSUME ReqInv, NEW r \in Reqs, NEW code, NEW caps, ehlo_again(r, code, caps)
    PROVE  ReqInv'
<1>0. StageOK(Request[r], req[r]) BY DEF ReqInv
<1>1. CASE code # "2xx"
  <2>1. PICK what \in {"Deferred", "Failed"} : Step(r, "ehlo2", Report(r, what)) BY <1>1 DEF ehlo_again, EhloFails
  <2> QED BY <2>1, ReportOK, ReqMoves DEF Reports
<1>2. CASE code = "2xx"
  <2>1. PICK v : v = WithCaps(r, "envelope", caps) OBVIOUS
  <2>2. Step(r, "ehlo2", v) /\ req[r].pc = "ehlo2" BY <1>2, <2>1 DEF ehlo_again, Step, WithCaps
  <2>3. /\ Shape(v) /\ v.pc = "envelope" /\ v.patterns = req[r].patterns /\ v.host = req[r].host
        /\ v.tls = req[r].tls
    BY <2>1, WithCapsFields DEF Stages, Sending
  <2>4. StageOK(Request[r], v) BY <1>0, <2>2, <2>3 DEF StageOK, Sending, Dialing, Connected, Greeted
  <2> QED BY <2>2, <2>3, <2>4, ReqMoves
<1> QED BY <1>1, <1>2

LEMMA EnvelopeKeeps ==
    ASSUME ReqInv, NEW r \in Reqs, NEW code, envelope(r, code)
    PROVE  ReqInv'
<1>1. CASE CapsMissing(Request[r], req[r].caps)
  <2>1. Step(r, "envelope", Report(r, "Failed")) BY <1>1 DEF envelope
  <2> QED BY <2>1, ReportOK, ReqMoves DEF Reports
<1>2. CASE ~CapsMissing(Request[r], req[r].caps) /\ code # "2xx"
  <2>1. Step(r, "envelope", Report(r, classify(code))) BY <1>2 DEF envelope, Expect2xx
  <2> QED BY <2>1, Classified, ReportOK, ReqMoves
<1>3. CASE ~CapsMissing(Request[r], req[r].caps) /\ code = "2xx"
  <2>1. Step(r, "envelope", Go(r, "data")) /\ req[r].pc = "envelope" BY <1>3 DEF envelope, Expect2xx, Step
  <2>2. PICK v : v = Go(r, "data") OBVIOUS
  <2>3. /\ Shape(v) /\ v.pc = "data" /\ v.patterns = req[r].patterns /\ v.host = req[r].host
        /\ v.required = req[r].required /\ v.tls = req[r].tls /\ v.caps = req[r].caps
    BY <2>2, GoFields DEF Stages, Sending
  <2>4. StageOK(Request[r], req[r]) BY DEF ReqInv
  <2>5. StageOK(Request[r], v)
    BY <1>3, <2>1, <2>3, <2>4 DEF StageOK, Sending, Dialing, Connected, Greeted
  <2> QED BY <2>1, <2>2, <2>3, <2>5, ReqMoves
<1> QED BY <1>1, <1>2, <1>3

LEMMA DataKeeps ==
    ASSUME ReqInv, NEW r \in Reqs, NEW code, cmd_data(r, code)
    PROVE  ReqInv'
<1>1. CASE code # "354"
  <2>1. Step(r, "data", Report(r, classify(code))) BY <1>1 DEF cmd_data
  <2> QED BY <2>1, Classified, ReportOK, ReqMoves
<1>2. CASE code = "354"
  <2>1. Step(r, "data", Go(r, "body")) /\ req[r].pc = "data" BY <1>2 DEF cmd_data, Step
  <2>2. PICK v : v = Go(r, "body") OBVIOUS
  <2>3. /\ Shape(v) /\ v.pc = "body" /\ v.patterns = req[r].patterns /\ v.host = req[r].host
        /\ v.required = req[r].required /\ v.tls = req[r].tls /\ v.caps = req[r].caps
    BY <2>2, GoFields DEF Stages, Sending
  <2>4. StageOK(Request[r], req[r]) BY DEF ReqInv
  <2>5. StageOK(Request[r], v) BY <2>1, <2>3, <2>4 DEF StageOK, Sending, Dialing, Connected, Greeted
  <2> QED BY <2>1, <2>2, <2>3, <2>5, ReqMoves
<1> QED BY <1>1, <1>2

\* What goes out satisfies what its stages established.
LEMMA BodyKeeps ==
    ASSUME ReqInv, SentAsAllowed, NEW r \in Reqs, NEW code, NEW took, send_body(r, code, took)
    PROVE  ReqInv' /\ SentAsAllowed'
<1>1. Step(r, "body", Report(r, classify(code))) /\ req[r].pc = "body" BY DEF send_body, FinalReport, Step
<1>2. ReqInv' BY <1>1, Classified, ReportOK, ReqMoves
<1>3. PICK w : /\ wire' = wire \cup {w}
               /\ w = [r |-> r, host |-> req[r].host, tls |-> req[r].tls, caps |-> req[r].caps, took |-> took,
                       required |-> req[r].required, patterns |-> req[r].patterns]
  BY DEF send_body
<1>4. /\ w.r = r /\ w.host = req[r].host /\ w.tls = req[r].tls /\ w.caps = req[r].caps
      /\ w.required = req[r].required /\ w.patterns = req[r].patterns
  BY <1>3
<1>5. StageOK(Request[r], req[r]) BY DEF ReqInv
<1>6. /\ Request[r].account \in Registered /\ Owner[Request[r].from] = Request[r].ik
      /\ Request[r].from \in Delegated /\ req[r].host \notin ForbiddenHosts
      /\ req[r].patterns = {} \/ any_pattern_matches(req[r].patterns, req[r].host)
      /\ (req[r].required => req[r].tls) /\ ("STARTTLS" \in req[r].caps => req[r].tls)
      /\ ~CapsMissing(Request[r], req[r].caps)
  BY <1>1, <1>5 DEF StageOK, Sending, Dialing, Connected, Greeted, may_claim
<1>7. req[r].patterns # {} =>
         \E p \in req[r].patterns : p = req[r].host \/ (p[1] = "*" /\ Tail(p) = Tail(req[r].host))
  BY <1>6 DEF any_pattern_matches, mx_pattern_matches
<1>8. SentAsAllowed' BY <1>3, <1>4, <1>6, <1>7 DEF SentAsAllowed, CapsMissing
<1> QED BY <1>2, <1>8

LEMMA ReportedKeeps ==
    ASSUME ReqInv, NEW r \in Reqs, report(r)
    PROVE  ReqInv'
<1>1. Step(r, "report", Go(r, "done")) BY DEF report
<1>2. Shape(Go(r, "done")) /\ Go(r, "done").pc = "done" BY GoFields DEF Stages
<1>3. StageOK(Request[r], Go(r, "done")) BY <1>2 DEF StageOK, Sending, Dialing, Connected, Greeted
<1> QED BY <1>1, <1>2, <1>3, ReqMoves

-----------------------------------------------------------------------------
(* The guard.                                                              *)
SenderRecs == [rate : SUBSET Hits, volume : SUBSET Hits, strikes : Nat, until : Nat]

GuardTypes == /\ clock \in 0 .. MaxClock
              /\ sender \in [Accounts -> SenderRecs]
              /\ log \in Seq([account : Accounts, t : Nat])

\* The sends of an account inside a window, and a list of hits that has them all.
Recent(a, w) == {j \in 1 .. Len(log) : log[j].account = a /\ log[j].t >= clock - w}
Kept(a, hits, w) == /\ IsFiniteSet(hits)
                    /\ \A j \in Recent(a, w) : [n |-> j, t |-> log[j].t] \in hits
WindowsInv == \A a \in Accounts : /\ Kept(a, sender[a].volume, VolumeWindow)
                                  /\ Kept(a, sender[a].rate, RateWindow)

\* A reported failure is behind us, and its backoff is not over before its time.
StruckInv == \A f \in struck : /\ f.account \in Accounts /\ f.t \in 0 .. clock /\ f.n \in 0 .. Len(log)
                               /\ sender[f.account].until >= f.t + BackoffBase

GuardInv == GuardTypes /\ WindowsInv /\ StruckInv /\ VolumeHolds /\ BackoffHolds

LEMMA Limits ==
    /\ RateLimit \in Nat /\ RateWindow \in Nat /\ VolumeCap \in Nat /\ VolumeWindow \in Nat
    /\ BackoffBase \in Nat /\ BackoffMaxShift \in Nat /\ MaxClock \in Nat
    /\ \A r \in Reqs : Request[r].account \in Accounts
BY OutboundAssumption DEF Accounts

LEMMA LogEntries ==
    ASSUME GuardTypes
    PROVE  /\ Len(log) \in Nat /\ DOMAIN log = 1 .. Len(log)
           /\ \A j \in 1 .. Len(log) : log[j].account \in Accounts /\ log[j].t \in Nat
<1>1. PICK T : T = [account : Accounts, t : Nat] OBVIOUS
<1>2. log \in Seq(T) BY <1>1 DEF GuardTypes
<1>3. \A j \in 1 .. Len(log) : log[j] \in T BY <1>2
<1> QED BY <1>1, <1>2, <1>3

\* Emptying a window of what is outside it keeps what is inside.
LEMMA WindowKept ==
    ASSUME NEW a, NEW hits, NEW w, Kept(a, hits, w)
    PROVE  Kept(a, Window(hits, w), w) /\ Window(hits, w) \subseteq hits
<1>1. Window(hits, w) \subseteq hits BY DEF Window
<1>2. IsFiniteSet(Window(hits, w)) BY <1>1, FS_Subset DEF Kept
<1>3. \A j \in Recent(a, w) : [n |-> j, t |-> log[j].t] \in Window(hits, w) BY DEF Kept, Window, Recent
<1> QED BY <1>1, <1>2, <1>3 DEF Kept

\* A window that has all recent sends counts them.
LEMMA WindowCounts ==
    ASSUME NEW a, NEW hits, NEW w, Kept(a, hits, w)
    PROVE  /\ IsFiniteSet(Recent(a, w)) /\ Cardinality(Recent(a, w)) <= Cardinality(Window(hits, w))
           /\ Cardinality(Recent(a, w)) \in Nat /\ Cardinality(Window(hits, w)) \in Nat
<1> DEFINE S == Recent(a, w)
           H == Window(hits, w)
           f == [j \in S |-> [n |-> j, t |-> log[j].t]]
<1>1. IsFiniteSet(H) /\ \A j \in S : [n |-> j, t |-> log[j].t] \in H BY WindowKept DEF Kept
<1> HIDE DEF S, H
<1>2. f \in [S -> H] BY <1>1
<1>3. \A x, y \in S : f[x] = f[y] => x = y
  <2> SUFFICES ASSUME NEW x \in S, NEW y \in S, f[x] = f[y] PROVE x = y OBVIOUS
  <2>1. f[x].n = x /\ f[y].n = y OBVIOUS
  <2> QED BY <2>1
<1> HIDE DEF f
<1>4. f \in Injection(S, H) BY <1>2, <1>3 DEF Injection, IsInjective
<1>5. IsFiniteSet(S) /\ Cardinality(S) <= Cardinality(H) BY <1>1, <1>4, FS_Injection
<1> QED BY <1>1, <1>5, FS_CardinalityType DEF S, H

\* What authorize_send answers and leaves behind.
LEMMA Authorized ==
    ASSUME GuardTypes, WindowsInv, NEW a \in Accounts
    PROVE  LET g == authorize_send(a)
           IN  /\ g.s \in SenderRecs /\ g.s.until = sender[a].until /\ g.v \in {"Allow", "Refuse", "Throttle"}
               /\ g.v = "Allow" => /\ a \in Registered /\ clock >= sender[a].until
                                   /\ g.s.volume = Window(sender[a].volume, VolumeWindow) \cup {Hit}
                                   /\ g.s.rate = Window(sender[a].rate, RateWindow) \cup {Hit}
                                   /\ Cardinality(Window(sender[a].volume, VolumeWindow)) < VolumeCap
                                   /\ Cardinality(Window(sender[a].rate, RateWindow)) < RateLimit
               /\ g.v # "Allow" => /\ g.s.volume \in {sender[a].volume, Window(sender[a].volume, VolumeWindow)}
                                   /\ g.s.rate \in {sender[a].rate, Window(sender[a].rate, RateWindow)}
<1>1. PICK s : s = sender[a] OBVIOUS
<1>2. PICK V : V = Window(s.volume, VolumeWindow) OBVIOUS
<1>3. PICK R : R = Window(s.rate, RateWindow) OBVIOUS
<1>4. PICK h : h = Hit OBVIOUS
<1>5. s \in SenderRecs /\ clock \in Nat /\ s.until \in Nat BY <1>1 DEF GuardTypes, SenderRecs
<1>6. V \subseteq s.volume /\ R \subseteq s.rate BY <1>2, <1>3 DEF Window
<1>7. h \in Hits BY <1>4, LogEntries, <1>5 DEF Hit, Hits
<1>8. V \in SUBSET Hits /\ R \in SUBSET Hits /\ V \cup {h} \in SUBSET Hits /\ R \cup {h} \in SUBSET Hits
  BY <1>5, <1>6, <1>7 DEF SenderRecs
<1>9. /\ Cardinality(V) \in Nat /\ Cardinality(R) \in Nat
  BY <1>1, <1>2, <1>3, WindowCounts DEF WindowsInv
<1>10. authorize_send(a) =
          IF ~is_authenticated(a) THEN [v |-> "Refuse", s |-> s]
          ELSE IF clock < s.until THEN [v |-> "Throttle", s |-> s]
          ELSE IF Cardinality(V) >= VolumeCap THEN [v |-> "Refuse", s |-> [s EXCEPT !.volume = V]]
          ELSE IF Cardinality(R) >= RateLimit
          THEN [v |-> "Throttle", s |-> [s EXCEPT !.volume = V, !.rate = R]]
          ELSE [v |-> "Allow", s |-> [s EXCEPT !.volume = V \cup {h}, !.rate = R \cup {h}]]
  BY <1>1, <1>2, <1>3, <1>4 DEF authorize_send
<1>11. PICK g : g = authorize_send(a) OBVIOUS
<1>12. CASE ~is_authenticated(a) \/ clock < s.until
  <2>1. g.s = s /\ g.v \in {"Refuse", "Throttle"} BY <1>10, <1>11, <1>12
  <2> QED BY <1>1, <1>5, <1>11, <2>1
<1>13. CASE is_authenticated(a) /\ ~(clock < s.until) /\ Cardinality(V) >= VolumeCap
  <2>1. g.v = "Refuse" /\ g.s = [s EXCEPT !.volume = V] BY <1>10, <1>11, <1>13
  <2>2. g.s \in SenderRecs /\ g.s.until = s.until /\ g.s.volume = V /\ g.s.rate = s.rate
    BY <1>5, <1>8, <2>1 DEF SenderRecs
  <2> QED BY <1>1, <1>2, <1>11, <2>1, <2>2
<1>14. CASE is_authenticated(a) /\ ~(clock < s.until) /\ ~(Cardinality(V) >= VolumeCap) /\ Cardinality(R) >= RateLimit
  <2>1. g.v = "Throttle" /\ g.s = [s EXCEPT !.volume = V, !.rate = R] BY <1>10, <1>11, <1>14
  <2>2. g.s \in SenderRecs /\ g.s.until = s.until /\ g.s.volume = V /\ g.s.rate = R
    BY <1>5, <1>8, <2>1 DEF SenderRecs
  <2> QED BY <1>1, <1>2, <1>3, <1>11, <2>1, <2>2
<1>15. CASE is_authenticated(a) /\ ~(clock < s.until) /\ ~(Cardinality(V) >= VolumeCap) /\ ~(Cardinality(R) >= RateLimit)
  <2>1. g.v = "Allow" /\ g.s = [s EXCEPT !.volume = V \cup {h}, !.rate = R \cup {h}] BY <1>10, <1>11, <1>15
  <2>2. g.s \in SenderRecs /\ g.s.until = s.until /\ g.s.volume = V \cup {h} /\ g.s.rate = R \cup {h}
    <3>1. PICK X : X = V \cup {h} OBVIOUS
    <3>2. PICK Y : Y = R \cup {h} OBVIOUS
    <3>3. X \in SUBSET Hits /\ Y \in SUBSET Hits BY <1>8, <3>1, <3>2
    <3>4. g.s = [s EXCEPT !.volume = X, !.rate = Y] BY <2>1, <3>1, <3>2
    <3>5. g.s \in SenderRecs /\ g.s.until = s.until /\ g.s.volume = X /\ g.s.rate = Y
      BY <1>5, <3>3, <3>4 DEF SenderRecs
    <3> QED BY <3>1, <3>2, <3>5
  <2>3. a \in Registered /\ clock >= s.until /\ Cardinality(V) < VolumeCap /\ Cardinality(R) < RateLimit
    <3>1. a \in Registered BY <1>15 DEF is_authenticated
    <3>2. clock >= s.until BY <1>5, <1>15
    <3>3. Cardinality(V) < VolumeCap /\ Cardinality(R) < RateLimit BY <1>9, <1>15, Limits
    <3> QED BY <3>1, <3>2, <3>3
  <2> QED BY <1>1, <1>2, <1>3, <1>4, <1>11, <2>1, <2>2, <2>3
<1> QED BY <1>12, <1>13, <1>14, <1>15

\* A list of hits after a send: nothing recent is lost, and the send is in it.
LEMMA KeptOnSend ==
    ASSUME GuardTypes, NEW a \in Accounts, NEW b \in Accounts, NEW hits, NEW w \in Nat, Kept(b, hits, w),
           log' = Append(log, [account |-> a, t |-> clock]), UNCHANGED clock,
           NEW next, b = a => next = Window(hits, w) \cup {Hit}, b # a => next = hits
    PROVE  Kept(b, next, w)'
<1> DEFINE N == Len(log)
           e == [account |-> a, t |-> clock]
<1>1. N \in Nat /\ Len(log') = N + 1 /\ log'[N + 1] = e /\ (\A j \in 1 .. N : log'[j] = log[j]) /\ clock \in Nat
  <2>1. PICK T : T = [account : Accounts, t : Nat] OBVIOUS
  <2>2. log \in Seq(T) /\ clock \in Nat BY <2>1 DEF GuardTypes
  <2>3. e \in T /\ log' = Append(log, e) BY <2>1, <2>2
  <2> HIDE DEF e
  <2> QED BY <2>2, <2>3
<1>2. IsFiniteSet(next)
  <2>1. IsFiniteSet(Window(hits, w)) BY WindowKept DEF Kept
  <2> QED BY <2>1, FS_AddElement DEF Kept
<1>3. ASSUME NEW j \in Recent(b, w)' PROVE [n |-> j, t |-> log'[j].t] \in next
  <2>1. CASE j \in 1 .. N
    <3>1. j \in Recent(b, w) /\ log'[j] = log[j] BY <1>1, <1>3, <2>1 DEF Recent
    <3>2. [n |-> j, t |-> log[j].t] \in Window(hits, w) /\ [n |-> j, t |-> log[j].t] \in hits
      BY <3>1, WindowKept DEF Kept
    <3>3. CASE b = a BY <3>1, <3>2, <3>3
    <3>4. CASE b # a BY <3>1, <3>2, <3>4
    <3> QED BY <3>3, <3>4
  <2>2. CASE j \notin 1 .. N
    <3>1. j = N + 1 BY <1>1, <1>3, <2>2 DEF Recent
    <3>2. b = a /\ log'[j].t = clock BY <1>1, <1>3, <3>1 DEF Recent
    <3>3. [n |-> j, t |-> log'[j].t] = Hit BY <3>1, <3>2 DEF Hit
    <3> QED BY <3>2, <3>3
  <2> QED BY <2>1, <2>2
<1> QED BY <1>2, <1>3 DEF Kept

\* One more send of an account whose window still has room.
LEMMA CountOnSend ==
    ASSUME GuardTypes, NEW a \in Accounts, NEW hits, NEW w \in Nat, NEW cap \in Nat, Kept(a, hits, w),
           Cardinality(Window(hits, w)) < cap, NEW N, N = Len(log) + 1, NEW l2,
           l2 = Append(log, [account |-> a, t |-> clock])
    PROVE  Cardinality({j \in 1 .. N : l2[j].account = l2[N].account /\ l2[j].t >= l2[N].t - w}) <= cap
<1> DEFINE e == [account |-> a, t |-> clock]
<1>1. N - 1 \in Nat /\ Len(log) = N - 1 /\ l2[N] = e /\ (\A j \in 1 .. (N - 1) : l2[j] = log[j]) /\ clock \in Nat
  <2>1. PICK T : T = [account : Accounts, t : Nat] OBVIOUS
  <2>2. log \in Seq(T) /\ clock \in Nat BY <2>1 DEF GuardTypes
  <2>3. e \in T /\ l2 = Append(log, e) BY <2>1, <2>2
  <2> HIDE DEF e
  <2> QED BY <2>2, <2>3
<1>2. {j \in 1 .. N : l2[j].account = l2[N].account /\ l2[j].t >= l2[N].t - w} = Recent(a, w) \cup {N}
  <2>1. l2[N].account = a /\ l2[N].t = clock /\ clock >= clock - w BY <1>1
  <2>2. \A j : j \in 1 .. N <=> j \in 1 .. (N - 1) \/ j = N BY <1>1
  <2> QED BY <1>1, <2>1, <2>2 DEF Recent
<1>3. N \notin Recent(a, w) BY <1>1 DEF Recent
<1>4. IsFiniteSet(Recent(a, w)) /\ Cardinality(Recent(a, w)) <= Cardinality(Window(hits, w))
      /\ Cardinality(Recent(a, w)) \in Nat /\ Cardinality(Window(hits, w)) \in Nat
  BY WindowCounts
<1>5. Cardinality(Recent(a, w) \cup {N}) = Cardinality(Recent(a, w)) + 1 BY <1>3, <1>4, FS_AddElement
<1>6. Cardinality(Recent(a, w)) + 1 <= cap BY <1>4
<1> QED BY <1>2, <1>5, <1>6

LEMMA GuardSends ==
    ASSUME GuardInv, NEW r \in Reqs, send_authenticated(r)
    PROVE  GuardInv' /\ (authorize_send(Request[r].account).v = "Allow" => Request[r].account \in Registered)
<1>1. PICK a \in Accounts : a = Request[r].account BY Limits
<1>2. PICK g : g = authorize_send(a) OBVIOUS
<1>3. /\ sender' = [sender EXCEPT ![a] = g.s] /\ UNCHANGED <<clock, struck>>
      /\ log' = IF g.v = "Allow" THEN Append(log, [account |-> a, t |-> clock]) ELSE log
  BY <1>1, <1>2 DEF send_authenticated
<1>4. GuardTypes /\ WindowsInv /\ StruckInv /\ VolumeHolds /\ BackoffHolds BY DEF GuardInv
<1>5. /\ g.s \in SenderRecs /\ g.s.until = sender[a].until
      /\ g.v = "Allow" => /\ a \in Registered /\ clock >= sender[a].until
                          /\ g.s.volume = Window(sender[a].volume, VolumeWindow) \cup {Hit}
                          /\ g.s.rate = Window(sender[a].rate, RateWindow) \cup {Hit}
                          /\ Cardinality(Window(sender[a].volume, VolumeWindow)) < VolumeCap
                          /\ Cardinality(Window(sender[a].rate, RateWindow)) < RateLimit
      /\ g.v # "Allow" => /\ g.s.volume \in {sender[a].volume, Window(sender[a].volume, VolumeWindow)}
                          /\ g.s.rate \in {sender[a].rate, Window(sender[a].rate, RateWindow)}
  BY <1>2, <1>4, Authorized
<1>6. \A b \in Accounts : sender'[b] = IF b = a THEN g.s ELSE sender[b] BY <1>3, <1>4 DEF GuardTypes
<1>7. sender' \in [Accounts -> SenderRecs] BY <1>3, <1>4, <1>5 DEF GuardTypes
<1>8. Len(log) \in Nat /\ DOMAIN log = 1 .. Len(log) /\ clock \in Nat BY <1>4, LogEntries DEF GuardTypes
<1>9. CASE g.v # "Allow"
  <2>1. GuardTypes' BY <1>3, <1>4, <1>7, <1>9 DEF GuardTypes
  <2>2. ASSUME NEW b \in Accounts
        PROVE  (Kept(b, sender[b].volume, VolumeWindow) /\ Kept(b, sender[b].rate, RateWindow))'
    <3>1. PICK v2 : v2 = sender'[b].volume OBVIOUS
    <3>2. PICK r2 : r2 = sender'[b].rate OBVIOUS
    <3>3. Kept(b, sender[b].volume, VolumeWindow) /\ Kept(b, sender[b].rate, RateWindow) BY <1>4 DEF WindowsInv
    <3>4. /\ Kept(b, Window(sender[b].volume, VolumeWindow), VolumeWindow)
          /\ Kept(b, Window(sender[b].rate, RateWindow), RateWindow)
      BY <3>3, WindowKept
    <3>5. /\ v2 \in {sender[b].volume, Window(sender[b].volume, VolumeWindow)}
          /\ r2 \in {sender[b].rate, Window(sender[b].rate, RateWindow)}
      BY <1>5, <1>6, <1>9, <3>1, <3>2
    <3>6. Kept(b, v2, VolumeWindow) /\ Kept(b, r2, RateWindow) BY <3>3, <3>4, <3>5
    <3>7. Kept(b, v2, VolumeWindow)' /\ Kept(b, r2, RateWindow)' BY <1>3, <1>9, <3>6 DEF Kept, Recent
    <3> QED BY <3>1, <3>2, <3>7 DEF Kept
  <2>3. WindowsInv' BY <2>2 DEF WindowsInv
  <2>4. StruckInv' BY <1>3, <1>4, <1>5, <1>6, <1>9 DEF StruckInv
  <2>5. VolumeHolds' /\ BackoffHolds' BY <1>3, <1>4, <1>9 DEF VolumeHolds, BackoffHolds
  <2> QED BY <1>1, <1>2, <1>9, <2>1, <2>3, <2>4, <2>5 DEF GuardInv
<1>10. CASE g.v = "Allow"
  <2> DEFINE N == Len(log) + 1
             e == [account |-> a, t |-> clock]
  <2>0. log' = Append(log, e) BY <1>3, <1>10
  <2>1. /\ log' \in Seq([account : Accounts, t : Nat]) /\ Len(log') = N /\ DOMAIN log' = 1 .. N
        /\ log'[N] = e /\ \A j \in 1 .. Len(log) : log'[j] = log[j]
    <3>1. PICK T : T = [account : Accounts, t : Nat] OBVIOUS
    <3>2. log \in Seq(T) /\ e \in T BY <1>4, <1>8, <3>1 DEF GuardTypes
    <3> HIDE DEF e
    <3>3. Append(log, e) \in Seq(T) BY <3>2
    <3>4. Len(log') = N /\ DOMAIN log' = 1 .. N /\ log'[N] = e /\ \A j \in 1 .. Len(log) : log'[j] = log[j]
      BY <2>0, <3>2
    <3> QED BY <2>0, <3>1, <3>3, <3>4
  <2>2. GuardTypes' BY <1>3, <1>4, <1>7, <2>1 DEF GuardTypes
  <2>3. ASSUME NEW b \in Accounts
        PROVE  (Kept(b, sender[b].volume, VolumeWindow) /\ Kept(b, sender[b].rate, RateWindow))'
    <3>1. Kept(b, sender[b].volume, VolumeWindow) /\ Kept(b, sender[b].rate, RateWindow) BY <1>4 DEF WindowsInv
    <3>2. PICK v2 : v2 = sender'[b].volume OBVIOUS
    <3>3. PICK r2 : r2 = sender'[b].rate OBVIOUS
    <3>4. /\ b = a => v2 = Window(sender[b].volume, VolumeWindow) \cup {Hit}
          /\ b # a => v2 = sender[b].volume
          /\ b = a => r2 = Window(sender[b].rate, RateWindow) \cup {Hit}
          /\ b # a => r2 = sender[b].rate
      BY <1>5, <1>6, <1>10, <3>2, <3>3
    <3>5. PICK v1 : v1 = sender[b].volume OBVIOUS
    <3>6. PICK r1 : r1 = sender[b].rate OBVIOUS
    <3>7. Kept(b, v2, VolumeWindow)'
      <4>1. /\ Kept(b, v1, VolumeWindow) /\ (b = a => v2 = Window(v1, VolumeWindow) \cup {Hit})
            /\ (b # a => v2 = v1) /\ VolumeWindow \in Nat
        BY <3>1, <3>4, <3>5, Limits
      <4> QED BY <1>3, <1>4, <2>0, <4>1, KeptOnSend
    <3>8. Kept(b, r2, RateWindow)'
      <4>1. /\ Kept(b, r1, RateWindow) /\ (b = a => r2 = Window(r1, RateWindow) \cup {Hit})
            /\ (b # a => r2 = r1) /\ RateWindow \in Nat
        BY <3>1, <3>4, <3>6, Limits
      <4> QED BY <1>3, <1>4, <2>0, <4>1, KeptOnSend
    <3> QED BY <3>2, <3>3, <3>7, <3>8 DEF Kept
  <2>4. WindowsInv' BY <2>3 DEF WindowsInv
  <2>5. StruckInv'
    <3>1. ASSUME NEW f \in struck' PROVE /\ f.account \in Accounts /\ f.t \in 0 .. clock' /\ f.n \in 0 .. Len(log')
                                         /\ sender'[f.account].until >= f.t + BackoffBase
      <4>1. f \in struck BY <1>3, <3>1
      <4>2. /\ f.account \in Accounts /\ f.t \in 0 .. clock /\ f.n \in 0 .. Len(log)
            /\ sender[f.account].until >= f.t + BackoffBase
        BY <1>4, <4>1 DEF StruckInv
      <4>3. sender'[f.account].until = sender[f.account].until BY <1>5, <1>6, <4>2
      <4>4. f.n \in 0 .. Len(log') BY <1>8, <2>1, <4>2
      <4> QED BY <1>3, <4>2, <4>3, <4>4
    <3> QED BY <3>1 DEF StruckInv
  <2>6. BackoffHolds'
    <3> SUFFICES ASSUME NEW f \in struck', NEW i \in DOMAIN log', i > f.n, log'[i].account = f.account
                 PROVE  log'[i].t >= f.t + BackoffBase
      BY DEF BackoffHolds
    <3>1. f \in struck BY <1>3
    <3>2. CASE i \in DOMAIN log
      <4>1. log'[i] = log[i] BY <1>8, <2>1, <3>2
      <4> QED BY <1>4, <3>1, <3>2, <4>1 DEF BackoffHolds
    <3>3. CASE i \notin DOMAIN log
      <4>1. i = N BY <1>8, <2>1, <3>3
      <4>2. f.account = a /\ log'[i].t = clock BY <2>1, <4>1
      <4>3. sender[a].until >= f.t + BackoffBase /\ f.t \in Nat BY <1>4, <1>8, <3>1, <4>2 DEF StruckInv
      <4>4. sender[a].until \in Nat BY <1>4 DEF GuardTypes, SenderRecs
      <4> QED BY <1>5, <1>8, <1>10, <4>2, <4>3, <4>4, Limits
    <3> QED BY <3>2, <3>3
  <2>7. VolumeHolds'
    <3> DEFINE Within(l, i, w) == {j \in 1 .. i : l[j].account = l[i].account /\ l[j].t >= l[i].t - w}
    <3> SUFFICES ASSUME NEW i \in DOMAIN log'
                 PROVE  /\ Cardinality(Within(log', i, VolumeWindow)) <= VolumeCap
                        /\ Cardinality(Within(log', i, RateWindow)) <= RateLimit
      BY DEF VolumeHolds
    <3>1. CASE i \in DOMAIN log
      <4>1. \A j \in 1 .. i : log'[j] = log[j] BY <1>8, <2>1, <3>1
      <4>2. i \in 1 .. i BY <1>8, <3>1
      <4>3. \A w : Within(log', i, w) = Within(log, i, w) BY <4>1, <4>2
      <4>4. /\ Cardinality(Within(log, i, VolumeWindow)) <= VolumeCap
            /\ Cardinality(Within(log, i, RateWindow)) <= RateLimit
        BY <1>4, <3>1 DEF VolumeHolds
      <4> HIDE DEF Within
      <4> QED BY <4>3, <4>4
    <3>2. CASE i \notin DOMAIN log
      <4>1. i = N BY <1>8, <2>1, <3>2
      <4>2. PICK l2 : l2 = log' OBVIOUS
      <4>3. PICK v1 : v1 = sender[a].volume OBVIOUS
      <4>4. PICK r1 : r1 = sender[a].rate OBVIOUS
      <4>5. Kept(a, v1, VolumeWindow) /\ Kept(a, r1, RateWindow) BY <1>4, <4>3, <4>4 DEF WindowsInv
      <4>6. Cardinality(Window(v1, VolumeWindow)) < VolumeCap /\ Cardinality(Window(r1, RateWindow)) < RateLimit
        BY <1>5, <1>10, <4>3, <4>4
      <4>7. i = Len(log) + 1 /\ l2 = Append(log, [account |-> a, t |-> clock]) BY <2>0, <4>1, <4>2
      <4>8. Cardinality({j \in 1 .. i : l2[j].account = l2[i].account /\ l2[j].t >= l2[i].t - VolumeWindow}) <= VolumeCap
        <5> HIDE DEF Within, N, e
        <5> QED BY <1>4, <4>5, <4>6, <4>7, CountOnSend, Limits
      <4>9. Cardinality({j \in 1 .. i : l2[j].account = l2[i].account /\ l2[j].t >= l2[i].t - RateWindow}) <= RateLimit
        <5> HIDE DEF Within, N, e
        <5> QED BY <1>4, <4>5, <4>6, <4>7, CountOnSend, Limits
      <4> QED BY <4>2, <4>8, <4>9
    <3> QED BY <3>1, <3>2
  <2> QED BY <1>1, <1>2, <1>5, <2>2, <2>4, <2>5, <2>6, <2>7 DEF GuardInv
<1> QED BY <1>9, <1>10


\* A backoff that a failure arms lasts at least BackoffBase, whatever the strikes.
LEMMA BackoffLasts ==
    ASSUME NEW n \in Nat
    PROVE  LET shift == IF n > BackoffMaxShift THEN BackoffMaxShift ELSE n
           IN  BackoffBase * 2^shift \in Nat /\ BackoffBase * 2^shift >= BackoffBase
<1>1. PICK shift : shift = IF n > BackoffMaxShift THEN BackoffMaxShift ELSE n OBVIOUS
<1>2. shift \in 0 .. BackoffMaxShift BY <1>1, Limits
<1>3. PICK p : p = 2^shift OBVIOUS
<1>4. p \in Nat /\ p >= 1 BY <1>2, <1>3, OutboundAssumption
<1>5. BackoffBase \in Nat BY Limits
<1>6. BackoffBase * p \in Nat /\ BackoffBase * p >= BackoffBase BY <1>4, <1>5
<1> QED BY <1>1, <1>3, <1>6

\* What report_outcome leaves of a sender.
LEMMA Outcome ==
    ASSUME NEW s \in SenderRecs, clock \in Nat, NEW d \in BOOLEAN, NEW t, t = report_outcome(s, d)
    PROVE  /\ t \in SenderRecs /\ t.volume = s.volume /\ t.rate = s.rate
           /\ d => t.until = s.until
           /\ ~d => t.until >= clock + BackoffBase
<1>1. s.strikes \in Nat /\ s.until \in Nat /\ s.rate \in SUBSET Hits /\ s.volume \in SUBSET Hits BY DEF SenderRecs
<1>2. CASE d
  <2>1. PICK k : k = IF s.strikes > 0 THEN s.strikes - 1 ELSE 0 OBVIOUS
  <2>2. k \in Nat BY <1>1, <2>1
  <2>3. t = [s EXCEPT !.strikes = k] BY <1>2, <2>1 DEF report_outcome
  <2> QED BY <1>2, <2>2, <2>3 DEF SenderRecs
<1>3. CASE ~d
  <2>1. PICK u : u = clock + BackoffBase * 2^(IF s.strikes > BackoffMaxShift THEN BackoffMaxShift ELSE s.strikes)
    OBVIOUS
  <2>2. PICK m : m = BackoffBase * 2^(IF s.strikes > BackoffMaxShift THEN BackoffMaxShift ELSE s.strikes) OBVIOUS
  <2>3. m \in Nat /\ m >= BackoffBase BY <1>1, <2>2, BackoffLasts
  <2>4. u = clock + m BY <2>1, <2>2
  <2>5. u \in Nat /\ u >= clock + BackoffBase BY <2>3, <2>4, Limits
  <2>6. t = [s EXCEPT !.strikes = @ + 1, !.until = u] BY <1>3, <2>1 DEF report_outcome
  <2>7. PICK k : k = s.strikes + 1 OBVIOUS
  <2>8. k \in Nat BY <1>1, <2>7
  <2>9. t = [s EXCEPT !.strikes = k, !.until = u] BY <2>6, <2>7 DEF SenderRecs
  <2> QED BY <1>3, <2>5, <2>8, <2>9 DEF SenderRecs
<1> QED BY <1>2, <1>3

LEMMA GuardReports ==
    ASSUME GuardInv, NEW r \in Reqs, report(r)
    PROVE  GuardInv'
<1>1. PICK a \in Accounts : a = Request[r].account BY Limits
<1>2. PICK what : what = req[r].report OBVIOUS
<1>3. GuardTypes /\ WindowsInv /\ StruckInv /\ VolumeHolds /\ BackoffHolds BY DEF GuardInv
<1>4. Len(log) \in Nat /\ DOMAIN log = 1 .. Len(log) /\ clock \in Nat BY <1>3, LogEntries, Limits DEF GuardTypes
<1>5. UNCHANGED <<clock, log>> BY DEF report
<1>6. PICK d \in BOOLEAN : d = (what = "Delivered") OBVIOUS
<1>7. PICK t : t = report_outcome(sender[a], d) OBVIOUS
<1>8. sender[a] \in SenderRecs BY <1>3 DEF GuardTypes
<1>9. /\ t \in SenderRecs /\ t.volume = sender[a].volume /\ t.rate = sender[a].rate
      /\ d => t.until = sender[a].until
      /\ ~d => t.until >= clock + BackoffBase
  BY <1>4, <1>7, <1>8, Outcome
<1>10. sender' = IF what = "Deferred" THEN sender ELSE [sender EXCEPT ![a] = t]
  BY <1>1, <1>2, <1>3, <1>6, <1>7 DEF report, GuardTypes
<1>11. sender' \in [Accounts -> SenderRecs] BY <1>3, <1>9, <1>10 DEF GuardTypes
<1>12. \A b \in Accounts : /\ sender'[b].volume = sender[b].volume /\ sender'[b].rate = sender[b].rate
                           /\ \/ sender'[b].until = sender[b].until
                              \/ sender'[b].until >= clock + BackoffBase
  BY <1>3, <1>9, <1>10 DEF GuardTypes
<1>13. GuardTypes' BY <1>3, <1>5, <1>11 DEF GuardTypes
<1>14. WindowsInv' BY <1>3, <1>5, <1>12 DEF WindowsInv, Kept, Recent
<1>15. \A b \in Accounts : sender'[b].until \in Nat /\ sender[b].until \in Nat
  BY <1>3, <1>11 DEF GuardTypes, SenderRecs
<1>16. PICK e : e = [account |-> a, t |-> clock, n |-> Len(log)] OBVIOUS
<1>17. e.account = a /\ e.t = clock /\ e.n = Len(log) BY <1>16
<1>18. struck' = IF what = "Failed" THEN struck \cup {e} ELSE struck BY <1>1, <1>2, <1>16 DEF report
<1>19. ASSUME NEW f \in struck'
       PROVE  /\ f.account \in Accounts /\ f.t \in 0 .. clock /\ f.n \in 0 .. Len(log)
              /\ sender'[f.account].until >= f.t + BackoffBase
  <2>1. CASE f \in struck
    <3>1. /\ f.account \in Accounts /\ f.t \in 0 .. clock /\ f.n \in 0 .. Len(log)
          /\ sender[f.account].until >= f.t + BackoffBase
      BY <1>3, <2>1 DEF StruckInv
    <3>2. clock + BackoffBase >= f.t + BackoffBase /\ f.t + BackoffBase \in Nat /\ clock + BackoffBase \in Nat
      BY <1>4, <3>1, Limits
    <3>3. PICK u \in Nat : u = sender'[f.account].until BY <1>15, <3>1
    <3>4. u >= f.t + BackoffBase BY <1>12, <3>1, <3>2, <3>3
    <3> QED BY <3>1, <3>3, <3>4
  <2>2. CASE f \notin struck
    <3>1. f = e /\ what = "Failed" BY <1>18, <1>19, <2>2
    <3>2. ~d BY <1>6, <3>1
    <3>3. sender'[a] = t BY <1>3, <1>10, <3>1 DEF GuardTypes
    <3> QED BY <1>4, <1>9, <1>17, <3>1, <3>2, <3>3
  <2> QED BY <2>1, <2>2
<1>20. StruckInv' BY <1>5, <1>19 DEF StruckInv
<1>21. VolumeHolds' BY <1>3, <1>5 DEF VolumeHolds
<1>22. BackoffHolds'
  <2> SUFFICES ASSUME NEW f \in struck', NEW i \in DOMAIN log, i > f.n, log[i].account = f.account
               PROVE  log[i].t >= f.t + BackoffBase
    BY <1>5 DEF BackoffHolds
  <2>1. CASE f \in struck BY <1>3, <2>1 DEF BackoffHolds
  <2>2. CASE f \notin struck BY <1>4, <1>17, <1>18, <2>2
  <2> QED BY <2>1, <2>2
<1> QED BY <1>13, <1>14, <1>20, <1>21, <1>22 DEF GuardInv

\* Time passes: windows lose sends, they gain none.
LEMMA GuardTicks ==
    ASSUME GuardInv, Tick
    PROVE  GuardInv'
<1>1. GuardTypes /\ WindowsInv /\ StruckInv /\ VolumeHolds /\ BackoffHolds BY DEF GuardInv
<1>2. clock \in Nat /\ clock' = clock + 1 /\ clock < MaxClock /\ UNCHANGED <<sender, log, struck>>
  BY <1>1, Limits DEF Tick, GuardTypes
<1>3. GuardTypes' BY <1>1, <1>2, Limits DEF GuardTypes
<1>4. ASSUME NEW b \in Accounts, NEW w \in Nat PROVE Recent(b, w)' \subseteq Recent(b, w)
  <2> SUFFICES ASSUME NEW j \in Recent(b, w)' PROVE j \in Recent(b, w) OBVIOUS
  <2>1. j \in 1 .. Len(log) /\ log[j].account = b /\ log[j].t >= (clock + 1) - w BY <1>2 DEF Recent
  <2>2. log[j].t \in Nat BY <1>1, <2>1, LogEntries
  <2>3. log[j].t >= clock - w BY <1>2, <2>1, <2>2
  <2> QED BY <2>1, <2>3 DEF Recent
<1>5. WindowsInv'
  <2> SUFFICES ASSUME NEW b \in Accounts
               PROVE  (Kept(b, sender[b].volume, VolumeWindow) /\ Kept(b, sender[b].rate, RateWindow))'
    BY DEF WindowsInv
  <2>1. Kept(b, sender[b].volume, VolumeWindow) /\ Kept(b, sender[b].rate, RateWindow) BY <1>1 DEF WindowsInv
  <2>2. Recent(b, VolumeWindow)' \subseteq Recent(b, VolumeWindow) /\ Recent(b, RateWindow)' \subseteq Recent(b, RateWindow)
    BY <1>4, Limits
  <2> QED BY <1>2, <2>1, <2>2 DEF Kept
<1>6. StruckInv' BY <1>1, <1>2 DEF StruckInv
<1>7. VolumeHolds' /\ BackoffHolds' BY <1>1, <1>2 DEF VolumeHolds, BackoffHolds
<1> QED BY <1>3, <1>5, <1>6, <1>7 DEF GuardInv

LEMMA GuardUntouched ==
    ASSUME GuardInv, UNCHANGED <<clock, sender, log, struck>>
    PROVE  GuardInv'
<1>1. GuardTypes' /\ StruckInv' BY DEF GuardInv, GuardTypes, StruckInv
<1>2. WindowsInv' BY DEF GuardInv, WindowsInv, Kept, Recent
<1>3. VolumeHolds' /\ BackoffHolds' BY DEF GuardInv, VolumeHolds, BackoffHolds
<1> QED BY <1>1, <1>2, <1>3 DEF GuardInv

-----------------------------------------------------------------------------
(* Every step.                                                             *)
SafeInv == ReqInv /\ SentAsAllowed /\ GuardInv

LEMMA SafeInit == Init => SafeInv
<1> SUFFICES ASSUME Init PROVE SafeInv OBVIOUS
<1>1. ReqInv
  <2>1. NewReq.pc = "new" /\ NewReq.report = "none" BY DEF NewReq
  <2>2. Shape(NewReq) BY <2>1 DEF Shape, NewReq, Stages, Reports
  <2>3. \A q : StageOK(q, NewReq) BY <2>1 DEF StageOK, Sending, Dialing, Connected, Greeted
  <2> QED BY <2>2, <2>3 DEF ReqInv, Init
<1>2. SentAsAllowed BY DEF SentAsAllowed, Init
<1>3. GuardInv
  <2>1. \A S : <<>> \in Seq(S) OBVIOUS
  <2>2. Len(log) = 0 /\ DOMAIN log = {} /\ struck = {} /\ clock = 0 BY DEF Init
  <2>3. \A a \in Accounts : sender[a] \in SenderRecs /\ sender[a].volume = {} /\ sender[a].rate = {}
    BY DEF Init, SenderRecs
  <2>4. sender \in [Accounts -> SenderRecs] BY <2>3 DEF Init
  <2>5. GuardTypes BY <2>1, <2>2, <2>4, Limits DEF GuardTypes, Init
  <2>6. \A a, w : Recent(a, w) = {} BY <2>2 DEF Recent
  <2>7. WindowsInv BY <2>3, <2>6, FS_EmptySet DEF WindowsInv, Kept
  <2>8. StruckInv /\ VolumeHolds /\ BackoffHolds BY <2>2 DEF StruckInv, VolumeHolds, BackoffHolds
  <2> QED BY <2>5, <2>7, <2>8 DEF GuardInv
<1> QED BY <1>1, <1>2, <1>3 DEF SafeInv

LEMMA SafeStep == SafeInv /\ [Next]_vars => SafeInv'
<1> SUFFICES ASSUME SafeInv, [Next]_vars PROVE SafeInv' OBVIOUS
<1>1. ReqInv /\ SentAsAllowed /\ GuardInv BY DEF SafeInv
<1>2. ASSUME UnchangedAll PROVE SentAsAllowed' /\ GuardInv'
  <2>1. UNCHANGED <<clock, sender, log, struck, wire>> BY <1>2 DEF UnchangedAll
  <2> QED BY <1>1, <2>1, GuardUntouched DEF SentAsAllowed
<1>3. ASSUME NEW r \in Reqs, Run(r) PROVE SafeInv'
  <2>1. CASE send_authenticated(r)
    <3>1. GuardInv' /\ ReqInv' BY <1>1, <2>1, GuardSends, SendKeeps
    <3>2. SentAsAllowed' BY <1>1, <2>1 DEF send_authenticated, SentAsAllowed
    <3> QED BY <3>1, <3>2 DEF SafeInv
  <2>2. CASE \E a \in StsAnswers : send_requirement(r, a) \/ send_patterns(r, a)
    <3>1. ReqInv' BY <1>1, <2>2, RequirementKeeps, PatternsKeeps
    <3>2. UnchangedAll BY <2>2 DEF send_requirement, send_patterns
    <3> QED BY <1>2, <3>1, <3>2 DEF SafeInv
  <2>3. CASE \E a \in MxAnswers : send_mx(r, a)
    <3>1. ReqInv' BY <1>1, <2>3, MxKeeps
    <3>2. UnchangedAll BY <2>3 DEF send_mx
    <3> QED BY <1>2, <3>1, <3>2 DEF SafeInv
  <2>4. ASSUME NEW code \in Replies, dial_addr(r, code) \/ envelope(r, code) PROVE SafeInv'
    <3>1. ReqInv' BY <1>1, <2>4, DialKeeps, EnvelopeKeeps
    <3>2. UnchangedAll BY <2>4 DEF dial_addr, envelope
    <3> QED BY <1>2, <3>1, <3>2 DEF SafeInv
  <2>5. ASSUME NEW code \in Replies, NEW caps \in CapSets, ehlo(r, code, caps) \/ ehlo_again(r, code, caps)
        PROVE  SafeInv'
    <3>1. ReqInv' BY <1>1, <2>5, EhloKeeps, EhloAgainKeeps
    <3>2. UnchangedAll BY <2>5 DEF ehlo, ehlo_again
    <3> QED BY <1>2, <3>1, <3>2 DEF SafeInv
  <2>6. ASSUME NEW code \in Replies, NEW valid \in BOOLEAN, starttls(r, code, valid) PROVE SafeInv'
    <3>1. ReqInv' BY <1>1, <2>6, StarttlsKeeps
    <3>2. UnchangedAll BY <2>6 DEF starttls
    <3> QED BY <1>2, <3>1, <3>2 DEF SafeInv
  <2>7. ASSUME NEW code \in Replies, NEW took \in BOOLEAN, send_body(r, code, took) PROVE SafeInv'
    <3>1. ReqInv' /\ SentAsAllowed' BY <1>1, <2>7, BodyKeeps
    <3>2. GuardInv' BY <1>1, <2>7, GuardUntouched DEF send_body
    <3> QED BY <3>1, <3>2 DEF SafeInv
  <2>8. ASSUME NEW code \in DataReplies, cmd_data(r, code) PROVE SafeInv'
    <3>1. ReqInv' BY <1>1, <2>8, DataKeeps
    <3>2. UnchangedAll BY <2>8 DEF cmd_data
    <3> QED BY <1>2, <3>1, <3>2 DEF SafeInv
  <2>9. CASE report(r)
    <3>1. ReqInv' /\ GuardInv' BY <1>1, <2>9, ReportedKeeps, GuardReports
    <3>2. SentAsAllowed' BY <1>1, <2>9 DEF report, SentAsAllowed
    <3> QED BY <3>1, <3>2 DEF SafeInv
  <2> QED BY <1>3, <2>1, <2>2, <2>3, <2>4, <2>5, <2>6, <2>7, <2>8, <2>9 DEF Run
<1>4. CASE Tick
  <2>1. ReqInv' /\ SentAsAllowed' BY <1>1, <1>4 DEF Tick, ReqInv, SentAsAllowed
  <2> QED BY <1>1, <1>4, <2>1, GuardTicks DEF SafeInv
<1>5. CASE UNCHANGED vars
  <2>1. ReqInv' /\ SentAsAllowed' BY <1>1, <1>5 DEF vars, ReqInv, SentAsAllowed
  <2> QED BY <1>1, <1>5, <2>1, GuardUntouched DEF SafeInv, vars
<1> QED BY <1>3, <1>4, <1>5 DEF Next

LEMMA SafeHolds == Spec => []SafeInv
BY SafeInit, SafeStep, PTL DEF Spec

\* outbound.rs, outbound_tcp.rs, outbound_guard.rs: for any requests, policies,
\* hosts, answers and limits, whatever leaves the gateway is authorised, addressed
\* and encrypted as the policy in force asks, and over all its threads an account
\* keeps to its windows and waits out the backoff of a reported failure.
THEOREM SentIsSafe == Spec => []SentSafely
<1>1. SafeInv => SentSafely
  <2> SUFFICES ASSUME SafeInv PROVE SentSafely OBVIOUS
  <2>1. TypeOK
    <3>1. \A r \in Reqs : req[r].pc \in Stages /\ req[r].report \in Reports BY DEF SafeInv, ReqInv, Shape
    <3> QED BY <3>1 DEF SafeInv, GuardInv, GuardTypes, SenderRecs, TypeOK, Stages, Sending, Reports
  <2> QED BY <2>1 DEF SafeInv, GuardInv, SentSafely
<1> QED BY <1>1, SafeHolds, PTL

-----------------------------------------------------------------------------
(* What is reported is what happened.                                      *)

\* Until a thread reports, it has nothing to report and nothing of it has left.
Open(v) == v.pc \notin {"report", "done"}
Wired(r) == \E w \in wire : w.r = r
OpenInv == \A r \in Reqs : Open(req[r]) => req[r].report = "none" /\ ~Wired(r)

\* A step before the message leaves moves on, or ends without a delivery.
Onward(r) == \E v : /\ Open(req[r]) /\ req' = [req EXCEPT ![r] = v]
                    /\ \/ Open(v) /\ v.report = req[r].report
                       \/ v.report \in {"Blocked", "Deferred", "Failed"} /\ ~Open(v)
                    /\ wire' = wire

LEMMA OnwardKeeps ==
    ASSUME ReqInv, OpenInv, OutcomeHonest, NEW r \in Reqs, Onward(r)
    PROVE  OpenInv' /\ OutcomeHonest'
<1>1. PICK v : /\ Open(req[r]) /\ req' = [req EXCEPT ![r] = v]
               /\ \/ Open(v) /\ v.report = req[r].report
                  \/ v.report \in {"Blocked", "Deferred", "Failed"} /\ ~Open(v)
               /\ wire' = wire
  BY DEF Onward
<1>2. \A x \in Reqs : req'[x] = IF x = r THEN v ELSE req[x] BY <1>1 DEF ReqInv
<1>3. req[r].report = "none" /\ ~Wired(r) BY <1>1 DEF OpenInv
<1>4. \A x : Wired(x)' = Wired(x) BY <1>1 DEF Wired
<1>5. OpenInv'
  <2> SUFFICES ASSUME NEW x \in Reqs, Open(req'[x]) PROVE req'[x].report = "none" /\ ~Wired(x)'
    BY DEF OpenInv, Open
  <2>1. CASE x = r BY <1>1, <1>2, <1>3, <1>4, <2>1
  <2>2. CASE x # r BY <1>2, <1>4, <2>2 DEF OpenInv
  <2> QED BY <2>1, <2>2
<1>6. OutcomeHonest'
  <2> SUFFICES ASSUME NEW x \in Reqs
               PROVE  /\ req'[x].report = "Delivered" => \E w \in wire : w.r = x /\ w.took
                      /\ req'[x].report \in {"Failed", "Blocked"} => ~\E w \in wire : w.r = x /\ w.took
    BY <1>1 DEF OutcomeHonest
  <2>1. CASE x = r
    <3>1. req'[x].report # "Delivered" BY <1>1, <1>2, <1>3, <2>1
    <3>2. ~\E w \in wire : w.r = x /\ w.took BY <1>3, <2>1 DEF Wired
    <3> QED BY <3>1, <3>2
  <2>2. CASE x # r BY <1>2, <2>2 DEF OutcomeHonest
  <2> QED BY <2>1, <2>2
<1> QED BY <1>5, <1>6

\* A step whose thread ends, or goes on with the report it had.
LEMMA Ends ==
    ASSUME NEW r \in Reqs, NEW p \in Sending \cup {"new"}, NEW what \in {"Deferred", "Failed"},
           Step(r, p, Report(r, what)), wire' = wire
    PROVE  Onward(r)
<1>1. Report(r, what).pc = "report" /\ Report(r, what).report = what BY ReportOK DEF Reports
<1> QED BY <1>1 DEF Onward, Step, Open, Sending

LEMMA GoesOn ==
    ASSUME NEW r \in Reqs, NEW p \in Sending \cup {"new"}, NEW v, v.pc \in Sending, v.report = req[r].report,
           Step(r, p, v), wire' = wire
    PROVE  Onward(r)
BY DEF Onward, Step, Open, Sending

LEMMA OnwardSend ==
    ASSUME ReqInv, NEW r \in Reqs, send_authenticated(r)
    PROVE  Onward(r)
<1> DEFINE q == Request[r]
           g == authorize_send(q.account)
<1>1. wire' = wire BY DEF send_authenticated
<1>2. CASE g.v # "Allow" \/ ~may_claim(q.ik, q.from)
  <2>1. PICK v : v = [Go(r, "done") EXCEPT !.report = "Blocked"] OBVIOUS
  <2>2. Step(r, "new", v) BY <1>2, <2>1 DEF send_authenticated
  <2>3. PICK u : u = Go(r, "done") OBVIOUS
  <2>4. Shape(u) /\ u.pc = "done" BY <2>3, GoFields DEF Stages
  <2>5. v.pc = "done" /\ v.report = "Blocked" BY <2>1, <2>3, <2>4 DEF Shape
  <2> QED BY <1>1, <2>2, <2>5 DEF Onward, Step, Open
<1>3. CASE ~(g.v # "Allow" \/ ~may_claim(q.ik, q.from)) /\ (~translate_and_sign(q) \/ q.dest = <<>>)
  <2>1. Step(r, "new", Report(r, "Failed")) BY <1>3 DEF send_authenticated
  <2> QED BY <1>1, <2>1, Ends
<1>4. CASE g.v = "Allow" /\ may_claim(q.ik, q.from) /\ translate_and_sign(q) /\ q.dest # <<>>
  <2>1. Step(r, "new", Go(r, "policy")) BY <1>4 DEF send_authenticated
  <2>2. Go(r, "policy").pc = "policy" /\ Go(r, "policy").report = req[r].report BY GoFields DEF Stages, Sending
  <2> QED BY <1>1, <2>1, <2>2, GoesOn DEF Sending
<1> QED BY <1>2, <1>3, <1>4

LEMMA OnwardPolicy ==
    ASSUME ReqInv, NEW r \in Reqs, NEW a, send_requirement(r, a) \/ send_patterns(r, a) \/ send_mx(r, a)
    PROVE  Onward(r)
<1>1. wire' = wire BY DEF send_requirement, send_patterns, send_mx, UnchangedAll
<1>2. CASE send_requirement(r, a)
  <2>1. PICK v : v = [Go(r, "patterns") EXCEPT !.required = requirement_for(a)] OBVIOUS
  <2>2. Step(r, "policy", v) BY <1>2, <2>1 DEF send_requirement
  <2>3. v.pc = "patterns" /\ v.report = req[r].report
    <3>1. PICK z : z = Go(r, "patterns") OBVIOUS
    <3>2. Shape(z) /\ z.pc = "patterns" /\ z.report = req[r].report BY <3>1, GoFields DEF Stages, Sending
    <3> QED BY <2>1, <3>1, <3>2 DEF Shape
  <2> QED BY <1>1, <2>2, <2>3, GoesOn DEF Sending
<1>3. CASE send_patterns(r, a)
  <2>1. PICK v : v = [Go(r, "mx") EXCEPT !.patterns = allowed_mx_patterns(a)] OBVIOUS
  <2>2. Step(r, "patterns", v) BY <1>3, <2>1 DEF send_patterns
  <2>3. v.pc = "mx" /\ v.report = req[r].report
    <3>1. PICK z : z = Go(r, "mx") OBVIOUS
    <3>2. Shape(z) /\ z.pc = "mx" /\ z.report = req[r].report BY <3>1, GoFields DEF Stages, Sending
    <3> QED BY <2>1, <3>1, <3>2 DEF Shape
  <2> QED BY <1>1, <2>2, <2>3, GoesOn DEF Sending
<1>4. CASE send_mx(r, a)
  <2>1. PICK h : h = dial_host(resolve_mx(Request[r].dest, a),
                               Eligible(resolve_mx(Request[r].dest, a), req[r].patterns))
    OBVIOUS
  <2>2. PICK v : v = [Go(r, "dial") EXCEPT !.host = h] OBVIOUS
  <2>3. Step(r, "mx", Report(r, "Failed")) \/ Step(r, "mx", v) BY <1>4, <2>1, <2>2 DEF send_mx
  <2>4. v.pc = "dial" /\ v.report = req[r].report
    <3>1. PICK z : z = Go(r, "dial") OBVIOUS
    <3>2. Shape(z) /\ z.pc = "dial" /\ z.report = req[r].report BY <3>1, GoFields DEF Stages, Sending
    <3> QED BY <2>2, <3>1, <3>2 DEF Shape
  <2>5. CASE Step(r, "mx", v) BY <1>1, <2>4, <2>5, GoesOn DEF Sending
  <2>6. CASE Step(r, "mx", Report(r, "Failed")) BY <1>1, <2>6, Ends DEF Sending
  <2> QED BY <2>3, <2>5, <2>6
<1> QED BY <1>2, <1>3, <1>4

LEMMA OnwardExpect ==
    ASSUME ReqInv, NEW r \in Reqs, NEW code, dial_addr(r, code) \/ envelope(r, code)
    PROVE  Onward(r)
<1>1. wire' = wire BY DEF dial_addr, envelope, UnchangedAll
<1>2. CASE dial_addr(r, code)
  <2>1. \/ Step(r, "dial", Report(r, "Deferred")) \/ Step(r, "dial", Go(r, "ehlo"))
        \/ code # "2xx" /\ Step(r, "dial", Report(r, classify(code)))
    BY <1>2 DEF dial_addr, Expect2xx
  <2>2. CASE Step(r, "dial", Go(r, "ehlo"))
    <3>1. Go(r, "ehlo").pc = "ehlo" /\ Go(r, "ehlo").report = req[r].report BY GoFields DEF Stages, Sending
    <3> QED BY <1>1, <2>2, <3>1, GoesOn DEF Sending
  <2>3. CASE Step(r, "dial", Report(r, "Deferred")) BY <1>1, <2>3, Ends DEF Sending
  <2>4. CASE code # "2xx" /\ Step(r, "dial", Report(r, classify(code)))
    <3>1. classify(code) \in {"Deferred", "Failed"} BY <2>4 DEF classify
    <3> QED BY <1>1, <2>4, <3>1, Ends DEF Sending
  <2> QED BY <2>1, <2>2, <2>3, <2>4
<1>3. CASE envelope(r, code)
  <2>1. \/ Step(r, "envelope", Report(r, "Failed")) \/ Step(r, "envelope", Go(r, "data"))
        \/ code # "2xx" /\ Step(r, "envelope", Report(r, classify(code)))
    BY <1>3 DEF envelope, Expect2xx
  <2>2. CASE Step(r, "envelope", Go(r, "data"))
    <3>1. Go(r, "data").pc = "data" /\ Go(r, "data").report = req[r].report BY GoFields DEF Stages, Sending
    <3> QED BY <1>1, <2>2, <3>1, GoesOn DEF Sending
  <2>3. CASE Step(r, "envelope", Report(r, "Failed")) BY <1>1, <2>3, Ends DEF Sending
  <2>4. CASE code # "2xx" /\ Step(r, "envelope", Report(r, classify(code)))
    <3>1. classify(code) \in {"Deferred", "Failed"} BY <2>4 DEF classify
    <3> QED BY <1>1, <2>4, <3>1, Ends DEF Sending
  <2> QED BY <2>1, <2>2, <2>3, <2>4
<1> QED BY <1>2, <1>3

LEMMA OnwardTls ==
    ASSUME ReqInv, NEW r \in Reqs, NEW code, NEW x,
           ehlo(r, code, x) \/ ehlo_again(r, code, x) \/ starttls(r, code, x)
    PROVE  Onward(r)
<1>1. wire' = wire BY DEF ehlo, ehlo_again, starttls, UnchangedAll
<1>2. CASE ehlo(r, code, x)
  <2>1. PICK v : v = [Go(r, "starttls") EXCEPT !.caps = x] OBVIOUS
  <2>2. PICK u : u = [Go(r, "envelope") EXCEPT !.caps = x] OBVIOUS
  <2>3. \/ Step(r, "ehlo", v) \/ Step(r, "ehlo", u)
        \/ \E what \in {"Deferred", "Failed"} : Step(r, "ehlo", Report(r, what))
    BY <1>2, <2>1, <2>2 DEF ehlo, AfterEhlo, EhloFails
  <2>4. v.pc = "starttls" /\ v.report = req[r].report
    <3>1. PICK z : z = Go(r, "starttls") OBVIOUS
    <3>2. Shape(z) /\ z.pc = "starttls" /\ z.report = req[r].report BY <3>1, GoFields DEF Stages, Sending
    <3> QED BY <2>1, <3>1, <3>2 DEF Shape
  <2>5. u.pc = "envelope" /\ u.report = req[r].report
    <3>1. PICK z : z = Go(r, "envelope") OBVIOUS
    <3>2. Shape(z) /\ z.pc = "envelope" /\ z.report = req[r].report BY <3>1, GoFields DEF Stages, Sending
    <3> QED BY <2>2, <3>1, <3>2 DEF Shape
  <2>6. CASE Step(r, "ehlo", v) \/ Step(r, "ehlo", u) BY <1>1, <2>4, <2>5, <2>6, GoesOn DEF Sending
  <2> QED BY <1>1, <2>3, <2>6, Ends DEF Sending
<1>3. CASE ehlo_again(r, code, x)
  <2>1. PICK v : v = [Go(r, "envelope") EXCEPT !.caps = x] OBVIOUS
  <2>2. \/ Step(r, "ehlo2", v)
        \/ \E what \in {"Deferred", "Failed"} : Step(r, "ehlo2", Report(r, what))
    BY <1>3, <2>1 DEF ehlo_again, EhloFails
  <2>3. v.pc = "envelope" /\ v.report = req[r].report
    <3>1. PICK z : z = Go(r, "envelope") OBVIOUS
    <3>2. Shape(z) /\ z.pc = "envelope" /\ z.report = req[r].report BY <3>1, GoFields DEF Stages, Sending
    <3> QED BY <2>1, <3>1, <3>2 DEF Shape
  <2>4. CASE Step(r, "ehlo2", v) BY <1>1, <2>3, <2>4, GoesOn DEF Sending
  <2> QED BY <1>1, <2>2, <2>4, Ends DEF Sending
<1>4. CASE starttls(r, code, x)
  <2>1. PICK v : v = [Go(r, "ehlo2") EXCEPT !.tls = TRUE] OBVIOUS
  <2>2. \/ Step(r, "starttls", v)
        \/ \E what \in {"Deferred", "Failed"} : Step(r, "starttls", Report(r, what))
    BY <1>4, <2>1 DEF starttls
  <2>3. v.pc = "ehlo2" /\ v.report = req[r].report
    <3>1. PICK z : z = Go(r, "ehlo2") OBVIOUS
    <3>2. Shape(z) /\ z.pc = "ehlo2" /\ z.report = req[r].report BY <3>1, GoFields DEF Stages, Sending
    <3> QED BY <2>1, <3>1, <3>2 DEF Shape
  <2>4. CASE Step(r, "starttls", v) BY <1>1, <2>3, <2>4, GoesOn DEF Sending
  <2> QED BY <1>1, <2>2, <2>4, Ends DEF Sending
<1> QED BY <1>2, <1>3, <1>4

LEMMA OnwardData ==
    ASSUME ReqInv, NEW r \in Reqs, NEW code, code # "2xx", cmd_data(r, code)
    PROVE  Onward(r)
<1>1. wire' = wire BY DEF cmd_data, UnchangedAll
<1>2. Step(r, "data", Go(r, "body")) \/ Step(r, "data", Report(r, classify(code))) BY DEF cmd_data
<1>3. CASE Step(r, "data", Go(r, "body"))
  <2>1. Go(r, "body").pc = "body" /\ Go(r, "body").report = req[r].report BY GoFields DEF Stages, Sending
  <2> QED BY <1>1, <1>3, <2>1, GoesOn DEF Sending
<1>4. CASE Step(r, "data", Report(r, classify(code)))
  <2>1. classify(code) \in {"Deferred", "Failed"} BY DEF classify
  <2> QED BY <1>1, <1>4, <2>1, Ends DEF Sending
<1> QED BY <1>2, <1>3, <1>4

\* The message leaves and the answer is heard, or it is lost.
LEMMA HonestBody ==
    ASSUME ReqInv, OpenInv, OutcomeHonest, NEW r \in Reqs, NEW code \in Replies, NEW took, send_body(r, code, took)
    PROVE  OpenInv' /\ OutcomeHonest'
<1>1. PICK v : v = Report(r, classify(code)) OBVIOUS
<1>2. Step(r, "body", v) /\ req[r].pc = "body" BY <1>1 DEF send_body, FinalReport, Step
<1>3. v.pc = "report" /\ v.report = classify(code) BY <1>1, Classified, ReportOK
<1>4. \A x \in Reqs : req'[x] = IF x = r THEN v ELSE req[x] BY <1>2 DEF ReqInv, Step
<1>5. PICK w : /\ wire' = wire \cup {w}
               /\ w = [r |-> r, host |-> req[r].host, tls |-> req[r].tls, caps |-> req[r].caps, took |-> took,
                       required |-> req[r].required, patterns |-> req[r].patterns]
  BY DEF send_body
<1>6. w.r = r /\ w.took = took BY <1>5
<1>7. (code = "2xx" => took) /\ (code \in {"4xx", "5xx"} => ~took) BY DEF send_body
<1>8. ~Wired(r) BY <1>2 DEF OpenInv, Open
<1>9. OpenInv'
  <2> SUFFICES ASSUME NEW x \in Reqs, Open(req'[x]) PROVE req'[x].report = "none" /\ ~Wired(x)'
    BY DEF OpenInv, Open
  <2>1. x # r BY <1>3, <1>4 DEF Open
  <2>2. req'[x] = req[x] /\ Open(req[x]) BY <1>4, <2>1
  <2> QED BY <1>5, <1>6, <2>1, <2>2 DEF OpenInv, Wired
<1>10. ASSUME NEW x \in Reqs
       PROVE  /\ req'[x].report = "Delivered" => \E y \in wire' : y.r = x /\ y.took
              /\ req'[x].report \in {"Failed", "Blocked"} => ~\E y \in wire' : y.r = x /\ y.took
  <2>1. CASE x # r
    <3>1. req'[x] = req[x] BY <1>4, <2>1
    <3>2. (\E y \in wire' : y.r = x /\ y.took) <=> (\E y \in wire : y.r = x /\ y.took) BY <1>5, <1>6, <2>1
    <3> QED BY <3>1, <3>2 DEF OutcomeHonest
  <2>2. CASE x = r
    <3>1. req'[x].report = classify(code) BY <1>3, <1>4, <2>2
    <3>2. (\E y \in wire' : y.r = x /\ y.took) <=> took BY <1>5, <1>6, <1>8, <2>2 DEF Wired
    <3>3. classify(code) = "Delivered" => code = "2xx" BY Classified
    <3>4. classify(code) \in {"Failed", "Blocked"} => code = "5xx" BY Classified DEF Replies
    <3> QED BY <1>7, <3>1, <3>2, <3>3, <3>4
  <2> QED BY <2>1, <2>2
<1> QED BY <1>9, <1>10 DEF OutcomeHonest

\* outbound_tcp.rs: towards peers that do not answer DATA itself with a 2xx, a
\* message reported as delivered was taken by the peer and one reported as failed
\* or blocked was not: only a deferral leaves it open, and only a deferral may be
\* followed by a duplicate.
THEOREM OutcomeIsHonest == "2xx" \notin DataReplies => (Spec => []OutcomeHonest)
<1> SUFFICES ASSUME "2xx" \notin DataReplies PROVE Spec => []OutcomeHonest OBVIOUS
<1> DEFINE Inv == OpenInv /\ OutcomeHonest
<1>1. Init => Inv
  <2>1. NewReq.pc = "new" /\ NewReq.report = "none" BY DEF NewReq
  <2> QED BY <2>1 DEF Init, OpenInv, Open, Wired, OutcomeHonest
<1>2. Inv /\ SafeInv /\ [Next]_vars => Inv'
  <2> SUFFICES ASSUME Inv, SafeInv, [Next]_vars PROVE Inv' OBVIOUS
  <2>1. ReqInv /\ OpenInv /\ OutcomeHonest BY DEF SafeInv
  <2>2. ASSUME NEW r \in Reqs, Onward(r) PROVE Inv' BY <2>1, <2>2, OnwardKeeps
  <2>3. ASSUME NEW r \in Reqs, Run(r) PROVE Inv'
    <3>1. CASE send_authenticated(r) BY <2>1, <2>2, <3>1, OnwardSend
    <3>2. CASE \E a \in StsAnswers : send_requirement(r, a) \/ send_patterns(r, a)
      BY <2>1, <2>2, <3>2, OnwardPolicy
    <3>3. CASE \E a \in MxAnswers : send_mx(r, a) BY <2>1, <2>2, <3>3, OnwardPolicy
    <3>4. ASSUME NEW code \in Replies, dial_addr(r, code) \/ envelope(r, code) PROVE Inv'
      BY <2>1, <2>2, <3>4, OnwardExpect
    <3>5. ASSUME NEW code \in Replies, NEW caps \in CapSets, ehlo(r, code, caps) \/ ehlo_again(r, code, caps)
          PROVE  Inv'
      BY <2>1, <2>2, <3>5, OnwardTls
    <3>6. ASSUME NEW code \in Replies, NEW valid \in BOOLEAN, starttls(r, code, valid) PROVE Inv'
      BY <2>1, <2>2, <3>6, OnwardTls
    <3>7. ASSUME NEW code \in Replies, NEW took \in BOOLEAN, send_body(r, code, took) PROVE Inv'
      BY <2>1, <3>7, HonestBody
    <3>8. ASSUME NEW code \in DataReplies, cmd_data(r, code) PROVE Inv'
      BY <2>1, <2>2, <3>8, OnwardData
    <3>9. CASE report(r)
      <4>1. PICK v : v = Go(r, "done") OBVIOUS
      <4>2. v.pc = "done" /\ v.report = req[r].report BY <2>1, <4>1, GoFields DEF Stages
      <4>3. wire' = wire /\ req' = [req EXCEPT ![r] = v] BY <3>9, <4>1 DEF report, Step
      <4>4. \A x \in Reqs : req'[x].report = req[x].report /\ (Open(req'[x]) => Open(req[x]))
        BY <2>1, <4>2, <4>3 DEF ReqInv, Open
      <4> QED BY <2>1, <4>3, <4>4 DEF OpenInv, Open, Wired, OutcomeHonest
    <3> HIDE DEF Inv
    <3> QED BY <2>3, <3>1, <3>2, <3>3, <3>4, <3>5, <3>6, <3>7, <3>8, <3>9 DEF Run
  <2>4. CASE Tick BY <2>1, <2>4 DEF Tick, OpenInv, Open, Wired, OutcomeHonest
  <2>5. CASE UNCHANGED vars BY <2>1, <2>5 DEF vars, OpenInv, Open, Wired, OutcomeHonest
  <2> HIDE DEF Inv
  <2> QED BY <2>3, <2>4, <2>5 DEF Next
<1>3. Spec => []Inv BY <1>1, <1>2, SafeHolds, PTL DEF Spec
<1> QED BY <1>3, PTL

=============================================================================
