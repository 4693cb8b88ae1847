---------------------------- MODULE MCMailAuth -----------------------------
(***************************************************************************)
(* Sender authentication, for TLC.  Scenarios for MailAuth: an             *)
(* organisation org with a subdomain sub, a mailer it may delegate to, an  *)
(* unrelated domain alien and the public suffix tld.  The DNS client below *)
(* it, the forwarded addresses of legacy senders and the provenance of     *)
(* bridged messages are parts of their own: a behaviour moves one of them. *)
(***************************************************************************)
EXTENDS MailAuth, Dns, ForwardedAddr, Bridge

Dom == {"org", "sub", "mailer", "alien", "tld"}

MCOrgDomain == [d \in Dom |-> CASE d \in {"org", "sub"} -> "org"
                                [] d = "tld" -> ""
                                [] OTHER -> d]

Term(t, q, d, net) == [t |-> t, q |-> q, d |-> d, c4 |-> 2, c6 |-> 3,
                       net |-> net]

\* Terms an organisation may publish, and those of the mailer.
OrgTerms == <<Term("ip4", "Pass", "", 1), Term("ip4", "Fail", "", 2),
             [Term("ip4", "Pass", "", 2) EXCEPT !.c4 = 1],
             [Term("ip4", "Pass", "", 2) EXCEPT !.c4 = 9],
             Term("ip6", "Pass", "", 1), Term("a", "Pass", "", 0),
             Term("mx", "Pass", "", 0), Term("mx", "Pass", "mailer", 0),
             Term("exists", "Pass", "alien", 0), Term("ptr", "Pass", "", 0),
             Term("include", "Pass", "mailer", 0),
             Term("include", "Pass", "%", 0),
             Term("redirect", "Pass", "mailer", 0),
             Term("redirect", "Pass", "", 0),
             Term("modifier", "Pass", "", 0), Term("nonsense", "Pass", "", 0),
             Term("all", "Fail", "", 0), Term("all", "SoftFail", "", 0)>>
MailerTerms == <<Term("ip4", "Pass", "", 3), Term("ip4", "SoftFail", "", 3),
                Term("mx", "Pass", "", 0), Term("include", "Pass", "org", 0),
                Term("redirect", "Pass", "org", 0), Term("all", "Fail", "", 0),
                Term("all", "Neutral", "", 0)>>

Txt(terms) == [ok |-> TRUE, v |-> <<[spf |-> TRUE, terms |-> terms]>>]
Ok(v) == [ok |-> TRUE, v |-> v]
NoTxt == Ok(<<[spf |-> FALSE, terms |-> <<>>]>>)

Failed == [ok |-> FALSE, v |-> <<>>]

\* Every record of two terms, and the answers that hold no usable record.
OrgTxt ==
    LET n == Len(OrgTerms)
    IN  [i \in 1..(n * n) |-> Txt(<<OrgTerms[1 + ((i - 1) \div n)],
                                   OrgTerms[1 + ((i - 1) % n)]>>)]
        \o <<Txt(<<>>), NoTxt, Failed,
             Ok(<<[spf |-> TRUE, terms |-> <<>>],
                  [spf |-> TRUE, terms |-> <<>>]>>)>>
MailerTxt == [i \in DOMAIN MailerTerms |-> Txt(<<MailerTerms[i]>>)]
             \o <<NoTxt, Failed>>

\* The mailer has more mail hosts than the budget has lookups, and one of
\* them has no address.
Zone(orgTxt, mailerTxt) ==
    [txt |-> [d \in Dom |-> CASE d \in {"org", "sub"} -> orgTxt
                              [] d = "mailer" -> mailerTxt
                              [] OTHER -> Txt(<<Term("ip4", "Pass", "", 0)>>)],
     a |-> [d \in Dom |-> CASE d = "org" -> Ok({0})
                            [] d = "mailer" -> Ok({3})
                            [] d = "tld" -> [ok |-> FALSE, v |-> {}]
                            [] OTHER -> Ok({})],
     aaaa |-> [d \in Dom |-> IF d = "org" THEN Ok({1}) ELSE Ok({})],
     mx |-> [d \in Dom |-> CASE d = "org" -> Ok(<<"alien", "org">>)
                             [] d = "mailer" ->
                                  Ok(<<"org", "org", "mailer", "mailer">>)
                             [] OTHER -> Ok(<<>>)]]

OrgZone == Zone(Txt(<<Term("ip4", "Pass", "", 1), Term("all", "Fail", "", 0)>>),
                NoTxt)

Hdr(n, v) == [n |-> n, v |-> v, w |-> 0, tags |-> NoTags]
Line(v) == [v |-> v, w |-> 0]
Plain(froms) == [hdr |-> <<Hdr("from", froms), Hdr("subject", <<"hi">>)>>,
                 body |-> <<Line("text"), Line("")>>]

Keys == [p \in {<<d, "s">> : d \in Dom} |->
            CASE p[1] = "org" -> <<"revoked", "korg">>
              [] p[1] = "sub" -> <<"bad">>
              [] p[1] = "alien" -> <<"kalien">>
              [] OTHER -> <<>>]

SignedBy(signer, key, msg) ==
    IF signer = "" THEN msg
    ELSE [msg EXCEPT !.hdr = <<sign(key, signer, "s", msg)>> \o @]

\* What happens to a message between its author and the gateway.
Transit(how, msg) ==
    CASE how = "asis" -> msg
      [] how = "refold" ->
           [hdr |-> [i \in DOMAIN msg.hdr |-> [msg.hdr[i] EXCEPT !.w = 1]],
            body |-> [i \in DOMAIN msg.body |-> [msg.body[i] EXCEPT !.w = 1]]]
      [] how = "pad" -> [msg EXCEPT !.body = @ \o <<Line(""), Line("")>>]
      [] how = "received" -> [msg EXCEPT !.hdr = <<Hdr("received", <<"x">>)>> \o @]
      [] how = "from_first" ->
           [msg EXCEPT !.hdr = <<Hdr("from", <<"org">>)>> \o @]
      [] how = "from_last" ->
           [msg EXCEPT !.hdr = Append(@, Hdr("from", <<"org">>))]
      [] how = "from_edit" ->
           [msg EXCEPT !.hdr = [i \in DOMAIN @ |-> IF @[i].n = "from"
                                THEN Hdr("from", <<"org">>) ELSE @[i]]]
      [] how = "body_edit" -> [msg EXCEPT !.body = <<Line("other")>>]
      [] how = "subject_edit" ->
           [msg EXCEPT !.hdr = [i \in DOMAIN @ |-> IF @[i].n = "subject"
                                THEN Hdr("subject", <<"other">>) ELSE @[i]]]

Transits == {"asis", "refold", "pad", "received", "from_first", "from_last",
             "from_edit", "body_edit", "subject_edit"}

V1(tags) == <<[v1 |-> TRUE, tags |-> <<<<"v", "DMARC1">>>> \o tags]>>
Policies == <<V1(<<<<"p", "reject">>>>),
             V1(<<<<"p", "none">>, <<"sp", "reject">>, <<"adkim", "s">>>>),
             V1(<<<<"p", "reject">>, <<"aspf", "s">>, <<"pct", 50>>>>),
             V1(<<<<"p", "quarantine">>, <<"rua", "x">>>>),
             V1(<<<<"p", "reject">>, <<"pct", 101>>>>),
             V1(<<<<"junk", "">>, <<"p", "reject">>>>),
             V1(<<>>), <<>>,
             V1(<<<<"p", "reject">>>>) \o V1(<<<<"p", "reject">>>>)>>
DmarcTxt(p) == [d \in Dom |-> IF d = "org" THEN p ELSE <<>>]

\* Who signs the message, and with which key; a forger signs as sub, whose
\* published key is not usable.
Signers == [none |-> "", org |-> "korg", alien |-> "kalien", forger |-> "kx"]

\* SPF cases vary the records and the peer, message cases the rest.
MCScenario(c) ==
    LET orig == Plain(c.froms)
        signer == IF c.signer \in {"none", "forger"} THEN "" ELSE c.signer
        claimed == IF c.signer = "forger" THEN "sub" ELSE signer
    IN  [zone |-> IF c.org = 0 THEN OrgZone
                  ELSE Zone(OrgTxt[c.org], MailerTxt[c.mailer]),
         ip |-> [v |-> c.ip[1], n |-> c.ip[2]],
         from |-> c.from,
         helo |-> "org",
         dmarc |-> DmarcTxt(Policies[c.policy]),
         keys |-> Keys,
         signer |-> signer,
         orig |-> orig,
         msg |-> Transit(c.how, SignedBy(claimed, Signers[c.signer], orig))]

SpfCases ==
    [org : DOMAIN OrgTxt, mailer : DOMAIN MailerTxt,
     ip : {<<4, 1>>, <<4, 3>>, <<6, 1>>}, from : {"", "org"}, policy : {8},
     signer : {"none"}, froms : {<<"org">>}, how : {"asis"}]

MsgCases ==
    [org : {0}, mailer : {0}, ip : {<<4, 0>>, <<4, 1>>},
     from : {"", "sub", "alien"}, policy : DOMAIN Policies,
     signer : DOMAIN Signers,
     froms : {<<"org">>, <<"sub">>, <<"alien">>, <<"tld">>, <<"">>, <<>>,
              <<"org", "alien">>},
     how : Transits]

MCCases == SpfCases \cup MsgCases

-----------------------------------------------------------------------------
\* Datagrams: a question, whole or pointing at itself, then up to five bytes
\* of answers; two answers, the second one pointing at the
\* name of the first; and a server failure.
Bytes == {0, 1, 2, 192}
Upto(n) == UNION {[1..k -> Bytes] : k \in 0..n}
Datagram(b, an, rcode) == [bytes |-> b, qdcount |-> 1, ancount |-> an, rcode |-> rcode]
MCDatagrams ==
    {Datagram(q \o b, 1, 0) : q \in {<<0, 9>>, <<1, 7, 0, 9>>, <<1, 7, 192, 0, 9>>}, b \in Upto(5)}
    \cup {Datagram(<<1, 7, 0, 9>> \o b \o <<192, 0, 2, 1, 0>>, 2, 0) :
            b \in {<<192, 0>> \o d : d \in {<<0>>, <<1, 0>>, <<2, 1, 192>>, <<3, 0, 192, 4>>, <<3, 0, 192, 0>>}}
                 \cup {<<1, 5, 192, 0, 2, 0, 0>>, <<1, 5, 192, 0, 0>>, <<192, 4, 0>>}}
    \cup {Datagram(<<1, 7, 0, 9, 1, 5, 192, 0, 0, 192, 4, 2, 1, 0>>, 2, 0),
          Datagram(<<1, 7, 0, 9>>, 1, 3), Datagram(<<64, 0, 9>>, 1, 0)}

\* Senders: every local part and domain of up to three characters.
Strings(C, n) == UNION {[1..k -> C] : k \in 0..n}
MCPairs == [local : Strings(Alphabet, 3), domain : Strings({"a", "-", "."}, 3)]

MCEntries == [g \in {"gw1", "gw2"} |-> IF g = "gw1" THEN [host |-> "acct"] ELSE [other |-> "acct2"]]
MCFolded == [d \in {"Host", "other"} |-> IF d = "Host" THEN "host" ELSE d]

VARIABLE part
DnsIdle == /\ query = <<>> /\ stage = "idle" /\ left = 0 /\ walk = Name(0)
           /\ answers = <<>> /\ decoded = 0
AuthIdle == /\ case = (CHOOSE c \in MsgCases : TRUE) /\ todo = "idle" /\ frames = <<>> /\ host = 0
            /\ spent = Evaluator0 /\ result = "None" /\ decision = NotEvaluated
BridgeIdle == /\ message = <<>> /\ place = "none" /\ meter = <<>> /\ signed_by = {} /\ written = <<>>
              /\ tampers = 0 /\ last = "none" /\ record = NoRecord
MCInit == /\ part \in {"auth", "dns", "forward", "bridge"}
          /\ IF part = "auth" THEN AuthInit ELSE AuthIdle
          /\ IF part = "dns" THEN DnsInit ELSE DnsIdle
          /\ IF part = "forward" THEN FwdInit ELSE pair = <<>> /\ address = Refused /\ hop = "sender"
          /\ IF part = "bridge" THEN BridgeInit ELSE BridgeIdle
MCNext == /\ UNCHANGED part
          /\ \/ part = "auth" /\ AuthNext /\ UNCHANGED <<dnsVars, fwdVars, bridgeVars>>
             \/ part = "dns" /\ DnsNext /\ UNCHANGED <<authVars, fwdVars, bridgeVars>>
             \/ part = "forward" /\ FwdNext /\ UNCHANGED <<authVars, dnsVars, bridgeVars>>
             \/ part = "bridge" /\ BridgeNext /\ UNCHANGED <<authVars, dnsVars, fwdVars>>
MCSpec == MCInit /\ [][MCNext]_<<part, authVars, dnsVars, fwdVars, bridgeVars>> /\ (part = "dns" => DnsFairness)
=============================================================================
