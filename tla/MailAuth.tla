------------------------------ MODULE MailAuth ------------------------------
(***************************************************************************)
(* The sender authentication of one inbound message: SPF of the connecting *)
(* host, DKIM of the message and DMARC over the two, as                    *)
(* InboundGateway puts them together with every policy set to Enforce.     *)
(*                                                                         *)
(* A scenario is the contents of DNS, the envelope the peer sends, the     *)
(* message as its author signed it (orig) and as it arrives (msg).  SPF is *)
(* evaluated step by step, its recursion through includes and redirects as *)
(* a stack of records under evaluation; one action then decides on the     *)
(* message.  The properties compare the verdicts with definitions that do  *)
(* not follow the evaluation.                                              *)
(***************************************************************************)
EXTENDS Integers, Sequences, FiniteSets, Functions, InboundPolicy

\* The elements of s that are in S, in their order.
SelectIn(s, S) ==
    LET sel[i \in 0..Len(s)] == IF i = 0 THEN <<>>
                                ELSE IF s[i] \in S THEN Append(sel[i - 1], s[i])
                                ELSE sel[i - 1]
    IN  sel[Len(s)]

-----------------------------------------------------------------------------
(***************************************************************************)
(* The SPF evaluator of the gateway (spf.rs, RFC 7208).                    *)
(*                                                                         *)
(* A domain name is an opaque value, "" the empty name and "%" a name with *)
(* a macro in it.  An address is a number of W4 or W6 bits.  A zone z has  *)
(* one field per query type; an answer is [ok, v], ok being FALSE when the *)
(* query failed.  A TXT value is [spf, terms], spf telling whether it      *)
(* starts with v=spf1.                                                     *)
(***************************************************************************)

CONSTANTS W4, W6,            \* bits of an address: 32 and 128 in the code
          MaxLookups,        \* DEFAULT_MAX_LOOKUPS, 10 in the code
          MaxVoidLookups,    \* DEFAULT_MAX_VOID_LOOKUPS, 2 in the code
          MaxChainDepth      \* MAX_CHAIN_DEPTH, 10 in the code

SpfVerdicts == {"Pass", "Fail", "SoftFail", "Neutral", "None", "TempError",
                "PermError"}

-----------------------------------------------------------------------------
(* Parsing: which records are refused, and what is left of the others.     *)

\* A term that parse_mechanism accepts.
MechanismOk(t) ==
    CASE t.t \in {"include", "exists"} -> t.d # ""
      [] t.t \in {"a", "mx"}           -> t.c4 <= W4 /\ t.c6 <= W6
      [] t.t = "ip4"                   -> t.c4 <= W4
      [] t.t = "ip6"                   -> t.c6 <= W6
      [] t.t \in {"all", "ptr"}        -> TRUE
      [] OTHER                         -> FALSE

IsModifier(t) == t.t \in {"redirect", "modifier"}

Redirects(terms) == {i \in DOMAIN terms : terms[i].t = "redirect"}

record_parses(terms) ==
    /\ \A i, j \in Redirects(terms) : i = j
    /\ \A i \in Redirects(terms) : terms[i].d # ""
    /\ \A i \in DOMAIN terms : IsModifier(terms[i]) \/ MechanismOk(terms[i])

parse_record(terms) ==
    [mechanisms |-> SelectIn(terms, {t \in Range(terms) : ~IsModifier(t)}),
     redirect |-> IF Redirects(terms) = {} THEN ""
                  ELSE terms[CHOOSE i \in Redirects(terms) : TRUE].d]

mechanism_has_macro(t) == t.t \in {"include", "exists", "a", "mx"} /\ t.d = "%"

in_cidr(width, ip, net, cidr) ==
    cidr = 0 \/ ip \div 2^(width - cidr) = net \div 2^(width - cidr)

-----------------------------------------------------------------------------
(* What one mechanism says.  st is the Evaluator: the lookups and the void *)
(* lookups charged so far, and the queries the resolver was really sent.   *)

Evaluator0 == [lookups |-> 0, voids |-> 0, queries |-> 0]
Queried(st) == [st EXCEPT !.queries = @ + 1]

Match(st) == [o |-> "match", r |-> "None", st |-> st]
NoMatch(st) == [o |-> "nomatch", r |-> "None", st |-> st]
Abort(r, st) == [o |-> "abort", r |-> r, st |-> st]

charge_lookup(st) == [st EXCEPT !.lookups = @ + 1]
OverLookups(st) == st.lookups > MaxLookups

charge_void(st) ==
    LET s == [st EXCEPT !.voids = @ + 1]
    IN  IF s.voids > MaxVoidLookups THEN Abort("PermError", s) ELSE NoMatch(s)

\* A lookup of A (or AAAA) for the peer's address family.
match_address_lookup(z, target, ip, c4, c6, st) ==
    LET ans == IF ip.v = 4 THEN z.a[target] ELSE z.aaaa[target]
        s == Queried(st)
    IN  IF ~ans.ok THEN Abort("TempError", s)
        ELSE IF ans.v = {} THEN charge_void(s)
        ELSE IF \E x \in ans.v : IF ip.v = 4 THEN in_cidr(W4, ip.n, x, c4)
                                             ELSE in_cidr(W6, ip.n, x, c6)
        THEN Match(s) ELSE NoMatch(s)

\* An include is a match whatever the included domain says of a failure.
IncludeOutcome_NotPass(r, st) ==
    CASE r = "Fail" -> NoMatch(st)
      [] r \in {"Pass", "SoftFail", "Neutral"} -> Match(st)
      [] r = "TempError" -> Abort("TempError", st)
      [] OTHER -> Abort("PermError", st)

IncludeOutcome(r, st) ==
    CASE r = "Pass" -> Match(st)
      [] r \in {"Fail", "SoftFail", "Neutral"} -> NoMatch(st)
      [] r = "TempError" -> Abort("TempError", st)
      [] OTHER -> Abort("PermError", st)

\* A mechanism that needs neither another record nor a loop over hosts, the
\* lookup it costs charged first.
eval_mechanism(z, m, current, ip, st0) ==
    LET costs == m.t \in {"a", "ptr", "exists"}
        st == IF costs THEN charge_lookup(st0) ELSE st0
        target == IF m.d = "" THEN current ELSE m.d
    IN  IF costs /\ OverLookups(st) THEN Abort("PermError", st)
        ELSE
        CASE m.t = "all" -> Match(st)
          [] m.t = "ip4" -> IF ip.v = 4 /\ in_cidr(W4, ip.n, m.net, m.c4)
                            THEN Match(st) ELSE NoMatch(st)
          [] m.t = "ip6" -> IF ip.v = 6 /\ in_cidr(W6, ip.n, m.net, m.c6)
                            THEN Match(st) ELSE NoMatch(st)
          [] m.t = "ptr" -> NoMatch(st)
          [] m.t = "a"   -> match_address_lookup(z, target, ip, m.c4, m.c6, st)
          [] m.t = "exists" ->
               LET ans == z.a[m.d]
                   s == Queried(st)
               IN  IF ~ans.ok THEN Abort("TempError", s)
                   ELSE IF ans.v = {} THEN charge_void(s) ELSE Match(s)

-----------------------------------------------------------------------------
(***************************************************************************)
(* DKIM signing and verification of the gateway (dkim.rs), relaxed/relaxed *)
(* ed25519 signatures over a message's headers and body.                   *)
(*                                                                         *)
(* A message is [hdr, body].  A header is [n, v, w, tags]: its lower-cased *)
(* name, its value up to white space, its folding, and, for a              *)
(* DKIM-Signature header, its tag list (NoTags for any other).  A body is  *)
(* a sequence of lines [v, w]; v is "" for an empty line.  A hash is what  *)
(* it is taken of, and a signature names the key and what it signs: both   *)
(* are assumed free of collisions.                                         *)
(***************************************************************************)

NoTags == [a |-> "", c |-> "", d |-> "", s |-> "", h |-> <<>>, bh |-> <<"">>,
           b |-> <<>>]

Names(hdr) == {hdr[i].n : i \in DOMAIN hdr}

SIGNED_HEADERS == <<"from", "to", "subject", "date", "message-id">>

\* Relaxed canonicalization of a header: folding and white space go.
canonicalize_header(h) == <<h.n, h.v>>

\* Trailing empty lines stay.
canonicalize_body_Simple(body) == [i \in DOMAIN body |-> body[i].v]

\* Relaxed canonicalization of a body: white space collapses and trailing
\* empty lines go.
canonicalize_body(body) ==
    LET kept == {i \in DOMAIN body : body[i].v # ""}
        last == IF kept = {} THEN 0 ELSE CHOOSE i \in kept : \A j \in kept : j <= i
    IN  [i \in 1..last |-> body[i].v]

\* find_header: the last header of that name, 0 when there is none.
find_header(hdr, name) ==
    LET at == {i \in DOMAIN hdr : hdr[i].n = name}
    IN  IF at = {} THEN 0 ELSE CHOOSE i \in at : \A j \in at : j <= i

\* The n-th header of that name, from 0, counted from the end of the message.
Instance(hdr, name, n) ==
    {i \in DOMAIN hdr :
       /\ hdr[i].n = name
       /\ Cardinality({j \in DOMAIN hdr : j > i /\ hdr[j].n = name}) = n}

\* The k-th signed name takes the instance that no earlier occurrence of the
\* name in the list has taken; <<>> when there is none left.
SignedPart(hdr, names, k) ==
    LET at == Instance(hdr, names[k],
                       Cardinality({m \in 1..(k - 1) : names[m] = names[k]}))
    IN  IF at = {} THEN <<>>
        ELSE canonicalize_header(hdr[CHOOSE i \in at : TRUE])

\* A name with no instance left contributes nothing.
assemble_signed_headers(hdr, names) ==
    LET parts == [k \in 1..Len(names) |-> SignedPart(hdr, names, k)]
    IN  SelectIn(parts, Range(parts) \ {<<>>})

\* What the signature covers: the signed headers and the DKIM-Signature
\* header itself with its b= emptied.
SigningInput(hdr, names, tags) ==
    <<assemble_signed_headers(hdr, names), [tags EXCEPT !.b = <<>>]>>

\* The From name is signed once and not oversigned.
sign_NoOversign(key, domain, selector, msg) ==
    LET h == SelectIn(SIGNED_HEADERS, Names(msg.hdr))
        base == [a |-> "ed25519-sha256", c |-> "relaxed/relaxed", d |-> domain,
                 s |-> selector, h |-> h, bh |-> canonicalize_body(msg.body),
                 b |-> <<>>]
    IN  [n |-> "dkim-signature", v |-> <<"sig">>, w |-> 0,
         tags |-> [base EXCEPT !.b = <<key, SigningInput(msg.hdr, h, base)>>]]

\* sign: the DKIM-Signature header for a message.  From is signed once more
\* than it is present, so that adding one breaks the signature.
sign(key, domain, selector, msg) ==
    LET h == Append(SelectIn(SIGNED_HEADERS, Names(msg.hdr)), "from")
        base == [a |-> "ed25519-sha256", c |-> "relaxed/relaxed", d |-> domain,
                 s |-> selector, h |-> h, bh |-> canonicalize_body(msg.body),
                 b |-> <<>>]
    IN  [n |-> "dkim-signature", v |-> <<"sig">>, w |-> 0,
         tags |-> [base EXCEPT !.b = <<key, SigningInput(msg.hdr, h, base)>>]]

\* verify, in the order of the code's checks; "Ok" or the error.
verify(msg, key) ==
    LET at == find_header(msg.hdr, "dkim-signature")
        t == msg.hdr[at].tags
    IN  IF at = 0 THEN "NoSignature"
        ELSE IF t.a # "ed25519-sha256" THEN "UnsupportedAlgorithm"
        ELSE IF t.c \notin {"relaxed/relaxed", ""}
        THEN "UnsupportedCanonicalization"
        ELSE IF t.bh = <<"">> THEN "MalformedSignature"
        ELSE IF t.bh # canonicalize_body(msg.body) THEN "BodyHashMismatch"
        ELSE IF t.h = <<>> \/ t.b = <<>> THEN "MalformedSignature"
        ELSE IF \A i \in DOMAIN t.h : t.h[i] # "from" THEN "FromFieldNotSigned"
        ELSE IF t.b # <<key, SigningInput(msg.hdr, t.h, t)>>
        THEN "SignatureInvalid" ELSE "Ok"

\* The TXT answers at <selector>._domainkey.<domain>: the first one with a
\* usable key; a revoked or unreadable one is passed over.
resolve_dkim_key(keys, domain, selector) ==
    LET usable == SelectSeq(keys[<<domain, selector>>],
                            LAMBDA k : k \notin {"revoked", "bad"})
    IN  IF usable = <<>> THEN "nokey" ELSE usable[1]

\* verify_with_resolver: the DKIM verdict of a message.
verify_with_resolver(msg, keys) ==
    LET at == find_header(msg.hdr, "dkim-signature")
        t == msg.hdr[at].tags
        key == resolve_dkim_key(keys, t.d, t.s)
    IN  IF at = 0 \/ t.d = "" \/ t.s = "" THEN [v |-> "NoSignature", d |-> ""]
        ELSE IF key = "nokey" THEN [v |-> "KeyUnavailable", d |-> t.d]
        ELSE IF verify(msg, key) = "Ok" THEN [v |-> "Pass", d |-> t.d]
        ELSE [v |-> "Fail", d |-> t.d]

-----------------------------------------------------------------------------
(***************************************************************************)
(* DMARC evaluation of the gateway (dmarc.rs, RFC 7489).                   *)
(*                                                                         *)
(* OrgDomain[d] is the registrable domain the public suffix list gives for *)
(* d, "" when d is itself a suffix.  A _dmarc TXT answer is a sequence of  *)
(* values [v1, tags]: v1 tells whether the value starts with v=DMARC1 and  *)
(* tags is its list of tags <<name, value>>, "junk" naming a tag that has  *)
(* no equals sign.                                                         *)
(***************************************************************************)

CONSTANT OrgDomain

\* An unlisted domain aligns with nothing but itself.
domains_aligned(auth, header, strict) ==
    IF strict \/ OrgDomain[auth] = "" \/ OrgDomain[header] = ""
    THEN auth = header
    ELSE OrgDomain[auth] = OrgDomain[header]

organizational_domain(d) == IF OrgDomain[d] = "" THEN d ELSE OrgDomain[d]

DmarcPolicy == {"none", "quarantine", "reject"}

\* A tag that parse_record accepts; a tag it does not know is ignored.
DmarcTagOk(t) ==
    CASE t[1] = "v"                  -> t[2] = "DMARC1"
      [] t[1] \in {"p", "sp"}        -> t[2] \in DmarcPolicy
      [] t[1] \in {"adkim", "aspf"}  -> t[2] \in {"s", "r"}
      [] t[1] = "pct"                -> t[2] \in 0..100
      [] OTHER                       -> t[1] # "junk"

\* parse_record of dmarc.rs: a repeated tag takes its last value.
parse_dmarc_record(tags) ==
    LET Of(k) == SelectSeq(tags, LAMBDA t : t[1] = k)
        Value(k, default) == IF Of(k) = <<>> THEN default
                             ELSE Of(k)[Len(Of(k))][2]
    IN  [ok |-> /\ \A i \in DOMAIN tags : DmarcTagOk(tags[i])
                /\ Of("v") # <<>> /\ Of("p") # <<>>,
         p |-> Value("p", "none"), sp |-> Value("sp", ""),
         adkim |-> Value("adkim", "r"), aspf |-> Value("aspf", "r")]

Dmarc1Records(txt, d) == SelectSeq(txt[d], LAMBDA r : r.v1)

\* lookup_at: no record, one record that parses, or an error.
lookup_at(txt, d) ==
    LET cands == Dmarc1Records(txt, d)
        rec == parse_dmarc_record(cands[1].tags)
    IN  IF cands = <<>> THEN [k |-> "NotFound"]
        ELSE IF Len(cands) = 1 /\ rec.ok THEN [k |-> "Found", rec |-> rec]
        ELSE [k |-> "PermError"]

\* discover: the domain's own record, else that of its organizational domain.
discover(txt, d) ==
    LET here == lookup_at(txt, d)
        org == organizational_domain(d)
        there == lookup_at(txt, org)
    IN  IF here.k = "Found" THEN [k |-> "Found", rec |-> here.rec, sub |-> FALSE]
        ELSE IF here.k = "PermError" THEN [k |-> "PermError"]
        ELSE IF d = org \/ there.k = "NotFound" THEN [k |-> "None"]
        ELSE IF there.k = "PermError" THEN [k |-> "PermError"]
        ELSE [k |-> "Found", rec |-> there.rec, sub |-> TRUE]

\* Any SPF pass authenticates the message, whatever domain it is for.
EvaluateDomain_AnySpf(txt, headerDomain, envelopeDomain, spf, dkim) ==
    LET f == discover(txt, headerDomain)
    IN  IF f.k = "None" THEN "NoPolicy"
        ELSE IF f.k = "PermError" THEN "PermError"
        ELSE IF spf = "Pass" \/ dkim.v = "Pass" THEN "Pass"
        ELSE IF f.sub /\ f.rec.sp # "" THEN f.rec.sp ELSE f.rec.p

\* dmarc::evaluate on a single From domain.  spf is the SPF result or "" when
\* none was computed, dkim the DKIM verdict [v, d].
EvaluateDomain(txt, headerDomain, envelopeDomain, spf, dkim) ==
    LET f == discover(txt, headerDomain)
        spfAligned == /\ spf = "Pass"
                      /\ envelopeDomain # ""
                      /\ domains_aligned(envelopeDomain, headerDomain,
                                         f.rec.aspf = "s")
        dkimAligned == /\ dkim.v = "Pass"
                       /\ domains_aligned(dkim.d, headerDomain,
                                          f.rec.adkim = "s")
    IN  IF f.k = "None" THEN "NoPolicy"
        ELSE IF f.k = "PermError" THEN "PermError"
        ELSE IF spfAligned \/ dkimAligned THEN "Pass"
        ELSE IF f.sub /\ f.rec.sp # "" THEN f.rec.sp ELSE f.rec.p

\* The first From header is taken for the sender's.
header_from_First(froms) ==
    IF Len(froms) = 0 \/ Len(froms[1]) = 0 \/ froms[1][1] = ""
    THEN [k |-> "Unusable", d |-> ""]
    ELSE [k |-> "Single", d |-> froms[1][1]]

\* header_from: the domain of the one address of the one From header.  froms
\* is the sequence of From headers, each the sequence of its addresses'
\* domains, "" for an address without one.
header_from(froms) ==
    IF Len(froms) = 0 \/ (Len(froms) = 1 /\ Len(froms[1]) = 0)
    THEN [k |-> "Unusable", d |-> ""]
    ELSE IF Len(froms) > 1 \/ Len(froms[1]) > 1
    THEN [k |-> "Ambiguous", d |-> ""]
    ELSE IF froms[1][1] = "" THEN [k |-> "Unusable", d |-> ""]
    ELSE [k |-> "Single", d |-> froms[1][1]]

\* dmarc_verdict_with_dkim: "Pass", "NoPolicy", "PermError", or the
\* disposition of a failure: "none", "quarantine" or "reject".
dmarc_verdict(enabled, txt, froms, envelopeDomain, spf, dkim) ==
    LET h == header_from(froms)
    IN  IF ~enabled THEN "NoPolicy"
        ELSE IF h.k = "Unusable" THEN "PermError"
        ELSE IF h.k = "Ambiguous" THEN "reject"
        ELSE EvaluateDomain(txt, h.d, envelopeDomain, spf, dkim)

-----------------------------------------------------------------------------
CONSTANTS Cases,           \* the cases to evaluate
          Scenario(_)      \* the scenario a case stands for

(* What a scenario may be.  DNS holds any records; a name a record refers  *)
(* to is one of the zone, none or one with a macro in it.                  *)
Domains == DOMAIN OrgDomain
SpfNames == Domains \cup {"", "%"}
SpfTerms == [t : STRING, q : {"Pass", "Fail", "SoftFail", "Neutral"},
             d : SpfNames, c4 : Nat, c6 : Nat, net : Nat]
ZoneOk(z) ==
    /\ z.txt \in [Domains -> [ok : BOOLEAN,
                              v : Seq([spf : BOOLEAN, terms : Seq(SpfTerms)])]]
    /\ z.mx \in [Domains -> [ok : BOOLEAN, v : Seq(Domains)]]

SignedTags(t) == t = [a |-> t.a, c |-> t.c, d |-> t.d, s |-> t.s, h |-> t.h,
                      bh |-> t.bh, b |-> t.b]
MessageOk(m) ==
    /\ m.hdr \in Seq(Range(m.hdr)) /\ m.body \in Seq(Range(m.body))
    /\ \A i \in DOMAIN m.hdr :
          /\ SignedTags(m.hdr[i].tags)
          /\ m.hdr[i].n = "from" => m.hdr[i].v \in Seq(Domains \cup {""})

(* External: ed25519.  A signature in the message that was made with a key *)
(* its domain publishes is that of the signer, over the message as its     *)
(* author wrote it.                                                        *)
Unforged(s) ==
    \A i \in DOMAIN s.msg.hdr :
        LET t == s.msg.hdr[i].tags
            key == resolve_dkim_key(s.keys, t.d, t.s)
        IN  t.d # "" /\ t.b # <<>> /\ t.b[1] = key /\ key # "nokey"
            => s.signer = t.d /\ t.b = sign(key, t.d, t.s, s.orig).tags.b

ScenarioOk(s) ==
    /\ ZoneOk(s.zone)
    /\ {s.from, s.helo} \subseteq Domains \cup {""}
    /\ MessageOk(s.orig) /\ MessageOk(s.msg) /\ Unforged(s)
    /\ \E i \in DOMAIN s.orig.hdr :    \* the author wrote one From header
          \A j \in DOMAIN s.orig.hdr : s.orig.hdr[j].n = "from" <=> j = i

ASSUME AuthAssumption ==
    /\ {MaxLookups, MaxVoidLookups, MaxChainDepth} \subseteq Nat
    /\ {"", "%"} \cap Domains = {}
    /\ \A c \in Cases : ScenarioOk(Scenario(c))

VARIABLES case,
          todo,           \* what the evaluation does next
          frames,          \* the calls of check_host that are open, outermost first
          host,            \* the mail host an mx mechanism is at
          spent,           \* the Evaluator
          result,          \* what the last check_host returned
          decision

spfVars == <<todo, frames, host, spent, result>>
authVars == <<case, spfVars, decision>>

scn == Scenario(case)

NotEvaluated == [reply |-> 0]

AuthInit == /\ case \in Cases
            /\ todo = "start"
            /\ frames = <<>>
            /\ host = 0
            /\ spent = Evaluator0
            /\ result = "None"
            /\ decision = NotEvaluated

(* One call of check_host: its domain, what is left of its record once it  *)
(* was fetched, and the mechanism it is at; past the last one, the         *)
(* redirect.  Its depth is its place in frames, less one.                  *)
Frame(domain) == [domain |-> domain, mechanisms |-> <<>>, redirect |-> "",
                  pos |-> 1]
Top == frames[Len(frames)]
Mech == Top.mechanisms[Top.pos]
Target == IF Mech.d = "" THEN Top.domain ELSE Mech.d

Return(r, st) == /\ todo' = "return"
                 /\ result' = r
                 /\ spent' = st
                 /\ UNCHANGED <<frames, host>>

Call(domain, st) == /\ todo' = "call"
                    /\ frames' = Append(frames, Frame(domain))
                    /\ spent' = st
                    /\ UNCHANGED <<host, result>>

\* The outcome o of the mechanism the top one of the calls fs is at.
Outcome(o, fs) ==
    LET n == Len(fs)
    IN  /\ spent' = o.st
        /\ UNCHANGED host
        /\ \/ /\ o.o = "nomatch"
              /\ todo' = "walk"
              /\ frames' = [fs EXCEPT ![n].pos = @ + 1]
              /\ UNCHANGED result
           \/ /\ o.o # "nomatch"
              /\ todo' = "return"
              /\ frames' = fs
              /\ result' = IF o.o = "abort" THEN o.r
                           ELSE fs[n].mechanisms[fs[n].pos].q

\* spf::evaluate: the domain is that of MAIL FROM, or of HELO when the
\* reverse path is null or has no domain.
Identity(s) == IF s.from # "" THEN s.from ELSE s.helo

spf_evaluate ==
    /\ todo = "start"
    /\ \/ /\ Identity(scn) = ""
          /\ todo' = "done"
          /\ UNCHANGED <<frames, host, spent, result>>
       \/ Identity(scn) # "" /\ Call(Identity(scn), spent)

\* check_host up to its loop: the record is fetched and parsed.
check_host ==
    LET txt == scn.zone.txt[Top.domain]
        cands == {i \in DOMAIN txt.v : txt.v[i].spf}
        terms == txt.v[CHOOSE i \in cands : TRUE].terms
        rec == parse_record(terms)
        st == Queried(spent)
    IN  /\ todo = "call"
        /\ IF Len(frames) - 1 > MaxChainDepth THEN Return("PermError", spent)
           ELSE IF Top.domain = "" THEN Return("None", spent)
           ELSE IF ~txt.ok THEN Return("TempError", st)
           ELSE IF cands = {} THEN Return("None", st)
           ELSE IF (\E i, j \in cands : i # j) \/ ~record_parses(terms)
           THEN Return("PermError", st)
           ELSE /\ todo' = "walk"
                /\ frames' = [frames EXCEPT ![Len(frames)] =
                                [domain |-> @.domain,
                                 mechanisms |-> rec.mechanisms,
                                 redirect |-> rec.redirect, pos |-> 1]]
                /\ spent' = st
                /\ UNCHANGED <<host, result>>

AtMechanism == todo = "walk" /\ Top.pos <= Len(Top.mechanisms)

macro_mechanism == /\ AtMechanism
                   /\ mechanism_has_macro(Mech)
                   /\ Return("PermError", spent)

plain_mechanism ==
    /\ AtMechanism
    /\ ~mechanism_has_macro(Mech)
    /\ Mech.t \notin {"include", "mx"}
    /\ Outcome(eval_mechanism(scn.zone, Mech, Top.domain, scn.ip, spent), frames)

include_mechanism ==
    LET st == charge_lookup(spent)
    IN  /\ AtMechanism
        /\ ~mechanism_has_macro(Mech)
        /\ Mech.t = "include"
        /\ IF OverLookups(st) THEN Return("PermError", st) ELSE Call(Mech.d, st)

\* mx: the hosts are looked up; mx_host is one turn of the loop over them,
\* each of which is a lookup of its own.
mx_mechanism ==
    LET st == charge_lookup(spent)
        s == Queried(st)
        ans == scn.zone.mx[Target]
    IN  /\ AtMechanism
        /\ ~mechanism_has_macro(Mech)
        /\ Mech.t = "mx"
        /\ IF OverLookups(st) THEN Return("PermError", st)
           ELSE IF ~ans.ok THEN Return("TempError", s)
           ELSE IF ans.v = <<>> THEN Outcome(charge_void(s), frames)
           ELSE /\ todo' = "mx"
                /\ host' = 1
                /\ spent' = s
                /\ UNCHANGED <<frames, result>>

\* The turn charges nothing.
mx_host_Free ==
    LET hosts == scn.zone.mx[Target].v
        m == match_address_lookup(scn.zone, hosts[host], scn.ip, Mech.c4, Mech.c6,
                                  spent)
    IN  /\ todo = "mx"
        /\ IF m.o # "nomatch" \/ host = Len(hosts)
           THEN Outcome(m, frames)
           ELSE /\ host' = host + 1
                /\ spent' = m.st
                /\ UNCHANGED <<todo, frames, result>>

mx_host ==
    LET hosts == scn.zone.mx[Target].v
        st == charge_lookup(spent)
        m == match_address_lookup(scn.zone, hosts[host], scn.ip, Mech.c4, Mech.c6,
                                  st)
    IN  /\ todo = "mx"
        /\ IF OverLookups(st) THEN Return("PermError", st)
           ELSE IF m.o # "nomatch" \/ host = Len(hosts)
           THEN Outcome(m, frames)
           ELSE /\ host' = host + 1
                /\ spent' = m.st
                /\ UNCHANGED <<todo, frames, result>>

\* After the last mechanism: the redirect, or Neutral.
end_of_record ==
    LET st == charge_lookup(spent)
    IN  /\ todo = "walk"
        /\ Top.pos > Len(Top.mechanisms)
        /\ IF Top.redirect = "" THEN Return("Neutral", spent)
           ELSE IF Top.redirect = "%" THEN Return("PermError", spent)
           ELSE IF OverLookups(st) THEN Return("PermError", st)
           ELSE Call(Top.redirect, st)

\* A check_host returns: to its redirect, which returns what it did, to the
\* include it was called for, or to the session.
return_to_caller ==
    LET fs == SubSeq(frames, 1, Len(frames) - 1)
        caller == fs[Len(fs)]
    IN  /\ todo = "return"
        /\ \/ /\ fs = <<>>
              /\ todo' = "done"
              /\ frames' = fs
              /\ UNCHANGED <<host, spent, result>>
           \/ /\ fs # <<>>
              /\ caller.pos > Len(caller.mechanisms)
              /\ frames' = fs
              /\ UNCHANGED <<todo, host, spent, result>>
           \/ /\ fs # <<>>
              /\ caller.pos <= Len(caller.mechanisms)
              /\ Outcome(IncludeOutcome(result, spent), fs)

SpfStep == \/ spf_evaluate \/ check_host \/ macro_mechanism \/ plain_mechanism
           \/ include_mechanism \/ mx_mechanism \/ mx_host \/ end_of_record
           \/ return_to_caller

\* The addresses of the From headers of a message: a From value is the
\* sequence of the domains of its addresses.
Froms(msg) == LET f == SelectIn(msg.hdr, {h \in Range(msg.hdr) : h.n = "from"})
              IN  [i \in 1..Len(f) |-> f[i].v]

\* The end of DATA: DKIM, then DMARC over it and the verdict of MAIL FROM; the
\* first gate that is closed is the reply.
Authenticate(s, spf) ==
    LET dkim == verify_with_resolver(s.msg, s.keys)
        dmarc == dmarc_verdict(TRUE, s.dmarc, Froms(s.msg), s.from, spf, dkim)
    IN  [reply |-> IF spf_gate(TRUE, spf) # 0 THEN spf_gate(TRUE, spf)
                   ELSE IF dkim_gate(TRUE, dkim) # 0 THEN dkim_gate(TRUE, dkim)
                   ELSE IF dmarc_gate(TRUE, dmarc) # 0 THEN dmarc_gate(TRUE, dmarc)
                   ELSE 250,
         dkim |-> dkim, dmarc |-> dmarc]

accept_message == /\ todo = "done"
                  /\ decision = NotEvaluated
                  /\ decision' = Authenticate(scn, result)
                  /\ UNCHANGED <<case, spfVars>>

AuthNext == (SpfStep /\ UNCHANGED <<case, decision>>) \/ accept_message

AuthSpec == AuthInit /\ [][AuthNext]_authVars

-----------------------------------------------------------------------------
(* SPF, against the set of hosts the records speak for.                    *)

\* The terms of the one record at a domain.
Terms(z, d) ==
    LET own == {i \in DOMAIN z.txt[d].v : z.txt[d].v[i].spf}
    IN  {x \in UNION {Range(z.txt[d].v[i].terms) : i \in own} :
           \A i, j \in own : i = j}

Refers(z, d) == {x \in DOMAIN z.txt : \E t \in Terms(z, d) :
                   t.t \in {"include", "redirect"} /\ t.d = x}

\* The domains a record leads to, itself included.
Reached(z, root) ==
    {d \in DOMAIN z.txt : \A S \in SUBSET DOMAIN z.txt :
        root \in S /\ (\A x \in S : Refers(z, x) \subseteq S) => d \in S}

\* The hosts a term of d's record stands for by itself.
Stands(z, d, t, ip) ==
    LET at == IF t.d = "" THEN d ELSE t.d
        Addr(x) == IF ip.v = 4 THEN z.a[x].v ELSE z.aaaa[x].v
        Near(n) == IF ip.v = 4 THEN in_cidr(W4, ip.n, n, t.c4)
                               ELSE in_cidr(W6, ip.n, n, t.c6)
    IN  \/ t.t = "all"
        \/ t.t = "ip4" /\ ip.v = 4 /\ Near(t.net)
        \/ t.t = "ip6" /\ ip.v = 6 /\ Near(t.net)
        \/ t.t = "a" /\ \E n \in Addr(at) : Near(n)
        \/ t.t = "mx" /\ \E i \in DOMAIN z.mx[at].v :
                            \E n \in Addr(z.mx[at].v[i]) : Near(n)
        \/ t.t = "exists" /\ z.a[at].v # {}

Vouched(z, domain, ip) ==
    \E d \in Reached(z, domain) :
        \E t \in Terms(z, d) : t.q = "Pass" /\ Stands(z, d, t, ip)

\* spf.rs: a Pass names a host that some record the sender's domain refers to
\* itself calls good with a '+' mechanism; a softfail or neutral of an included
\* domain, or a failed lookup, never adds up to one.
PassIsVouched ==
    todo = "done" /\ result = "Pass"
        => Vouched(scn.zone, Identity(scn), scn.ip)

\* spf.rs, DEFAULT_MAX_LOOKUPS: whatever the records refer to (a cycle, many
\* MX hosts, a chain of includes), one evaluation sends at most MaxLookups
\* queries besides that of the sender's own record.
QueryBudget == spent.queries <= MaxLookups + 1

(* SPF passes only hosts somebody vouched for, within its budget (spf.rs). *)
SpfSound == PassIsVouched /\ QueryBudget

-----------------------------------------------------------------------------
(* DKIM.                                                                   *)

\* dkim.rs: a Pass says that the domain d= signed this body and exactly these
\* From headers: one added, dropped or changed after signing fails.
DkimBinds ==
    decision # NotEvaluated /\ decision.dkim.v = "Pass"
        => /\ decision.dkim.d = scn.signer
           /\ Froms(scn.msg) = Froms(scn.orig)
           /\ canonicalize_body(scn.msg.body) = canonicalize_body(scn.orig.body)

\* What relays do to a message: headers of their own, other folding, empty
\* lines at the end.
LineAt(body, i) == IF i \in DOMAIN body THEN body[i].v ELSE ""
Relayed(orig, msg) ==
    /\ \A i \in DOMAIN orig.body \cup DOMAIN msg.body :
          LineAt(msg.body, i) = LineAt(orig.body, i)
    /\ \E e \in [DOMAIN orig.hdr -> DOMAIN msg.hdr] :
          /\ \A i \in DOMAIN orig.hdr : /\ msg.hdr[e[i]].n = orig.hdr[i].n
                                       /\ msg.hdr[e[i]].v = orig.hdr[i].v
          /\ \A i, j \in DOMAIN orig.hdr : i < j => e[i] < e[j]
          /\ \A k \in DOMAIN msg.hdr :
                msg.hdr[k].n \in Range(SIGNED_HEADERS) => k \in Range(e)

\* The last signature of the message is the signer's, made with the key its
\* domain publishes.
Carries(s) ==
    \E at \in DOMAIN s.msg.hdr :
        LET t == s.msg.hdr[at].tags
            key == resolve_dkim_key(s.keys, t.d, t.s)
        IN  /\ s.msg.hdr[at].n = "dkim-signature"
            /\ \A j \in DOMAIN s.msg.hdr :
                  s.msg.hdr[j].n = "dkim-signature" => j <= at
            /\ s.signer = t.d /\ t.d # "" /\ t.s # "" /\ key # "nokey"
            /\ t = sign(key, t.d, t.s, s.orig).tags

\* dkim.rs, relaxed canonicalization: a signed message that was only refolded,
\* padded with empty lines or given headers that are not signed still passes.
RelaxedSurvives ==
    decision # NotEvaluated /\ Carries(scn) /\ Relayed(scn.orig, scn.msg)
        => decision.dkim = [v |-> "Pass", d |-> scn.signer]

(* Each check by itself: SPF passes only hosts somebody vouched for, within *)
(* its budget of lookups (spf.rs); a DKIM Pass binds what the signer signed *)
(* and survives what relays do to a message (dkim.rs).                     *)
ChecksSound == SpfSound /\ DkimBinds /\ RelaxedSurvives

-----------------------------------------------------------------------------
(* The three together.                                                     *)

\* The policy that applies to a domain is to reject.
Rejects(txt, d) ==
    LET Own(x) == Dmarc1Records(txt, x)
        org == organizational_domain(d)
        Rec(x) == parse_dmarc_record(Own(x)[1].tags)
    IN  \/ Len(Own(d)) = 1 /\ Rec(d).ok /\ Rec(d).p = "reject"
        \/ /\ Own(d) = <<>>
           /\ org # d
           /\ Len(Own(org)) = 1
           /\ Rec(org).ok
           /\ "reject" = IF Rec(org).sp = "" THEN Rec(org).p ELSE Rec(org).sp

\* The domains of the authors a message shows.
Authors(msg) == UNION {Range(Froms(msg)[i]) : i \in DOMAIN Froms(msg)}

SameOrg(a, b) == a = b \/ (OrgDomain[a] # "" /\ OrgDomain[a] = OrgDomain[b])

\* inbound.rs with every policy on Enforce: a message the gateway takes, that
\* shows an author of a domain whose DMARC policy is to reject, was sent by a
\* host that domain's organisation vouches for under its own envelope, or
\* signed by that organisation over what is shown.
NoSpoofing ==
    decision # NotEvaluated /\ decision.reply = 250
        => \A d \in Authors(scn.msg) \ {""} :
             Rejects(scn.dmarc, d)
                => \/ /\ scn.from # ""
                      /\ SameOrg(scn.from, d)
                      /\ Vouched(scn.zone, scn.from, scn.ip)
                   \/ /\ scn.signer # ""
                      /\ SameOrg(scn.signer, d)
                      /\ Froms(scn.msg) = Froms(scn.orig)
=============================================================================
