---------------------------- MODULE InboundProofs ----------------------------
(***************************************************************************)
(* Inbound mail, the authentication of its sender, its provenance and the  *)
(* forwarded address of its sender.  The MX keeps what it acknowledged,    *)
(* forgets what was said in the clear, balances its slots and never lets   *)
(* the cold senders of a peer past the greylist or its rate, for any       *)
(* connections, peers, messages and limits; the three checks let nobody    *)
(* pass for a domain that says to reject, for any contents of DNS.         *)
(*                                                                         *)
(* A message is stored whole because a session that has dropped a line     *)
(* knows it, and such a session is refused at the dot.  The rate holds     *)
(* because the stamps a peer has inside the window are all still in its    *)
(* list, whoever emptied it and when; the greylist because an entry is the *)
(* time of a refusal.                                                      *)
(***************************************************************************)
EXTENDS InboundGateway, MailAuth, Bridge, ForwardedAddr, FiniteSums, SequenceTheorems

ConnRecs == [st : {"none", "open", "delivering", "closed"}, secured : BOOLEAN,
             n : Nat, deadline : Nat, s : Sessions]

\* A session holds every line that was sent, or has noted that it does not; once
\* the connection is secured nothing in it is from before.
SessionOK(s, secured) == /\ ~s.over => s.data = s.sent
                         /\ secured => ~s.plain

\* A message on its way to the mesh has passed the gates.
Agreed(s) == ~s.over /\ rcpt_acceptable(s.rcpt) = 0
ConnOK(r) == SessionOK(r.s, r.secured) /\ (r.st = "delivering" => Agreed(r.s))
ConnInv == conn \in [Conns -> ConnRecs] /\ \A c \in Conns : ConnOK(conn[c])

\* The slots in use are those of the busy connections.
BusyConns == {c \in Conns : Busy(c)}
SlotInv == active \in Nat /\ active = Cardinality(BusyConns) /\ active <= MaxConns

\* What the gate remembers: the time of a refusal, and the accepts of the window.
GateTypes == /\ clock \in 0 .. MaxClock
             /\ grey \in [IPs \X Paths -> Int]
             /\ accepts \in [IPs -> SUBSET [n : Nat, t : Nat]]
             /\ cold \in Seq([ip : IPs, path : Paths, t : Nat])
GreyInv == \A ip \in IPs, p \in Paths : grey[<<ip, p>>] # Unseen =>
              grey[<<ip, p>>] \in 0 .. clock /\ <<ip, p, grey[<<ip, p>>]>> \in tries
Recent(ip) == {j \in 1 .. Len(cold) : cold[j].ip = ip /\ cold[j].t >= clock - RateWindow}
WindowInv == \A ip \in IPs : /\ IsFiniteSet(accepts[ip])
                             /\ \A j \in Recent(ip) : [n |-> j, t |-> cold[j].t] \in Hits(ip)
GateInv == GateTypes /\ GreyInv /\ WindowInv /\ ColdGateHolds

MxInv == ConnInv /\ SlotInv /\ shutdown \in BOOLEAN /\ AckedIsDurable /\ GateInv

LEMMA Limits ==
    /\ RateLimit \in Nat /\ RateWindow \in Nat /\ MinRetry \in Nat /\ GreyTtl \in Nat
    /\ MaxConns \in Nat /\ MaxTransaction \in Nat /\ MaxLines \in Nat /\ MaxClock \in Nat
BY InboundAssumption

-----------------------------------------------------------------------------
(* Connections.                                                            *)

LEMMA FreshSession == NewSession \in Sessions /\ \A b \in BOOLEAN : SessionOK(NewSession, b)
<1>1. /\ NewSession.phase = "Command" /\ NewSession.from = NoPath /\ NewSession.rcpt = NoRcpt
      /\ NewSession.data = <<>> /\ NewSession.over = FALSE /\ NewSession.spf = "unset"
      /\ NewSession.sent = <<>> /\ NewSession.plain = FALSE
  BY DEF NewSession
<1>2. NewSession \in Sessions BY DEF NewSession, Sessions
<1> QED BY <1>1, <1>2 DEF SessionOK

LEMMA FreshConn ==
    ASSUME NEW d \in Nat, NEW b \in BOOLEAN, NEW n \in Nat
    PROVE  NewConn(d, b, n) \in ConnRecs /\ ConnOK(NewConn(d, b, n)) /\ NewConn(d, b, n).st = "open"
BY FreshSession DEF NewConn, ConnRecs, ConnOK

LEMMA IdleConn == NoConn \in ConnRecs /\ ConnOK(NoConn) /\ NoConn.st = "none"
BY FreshSession DEF NoConn, NewConn, ConnRecs, ConnOK

\* One connection becomes r.
LEMMA ConnMoves ==
    ASSUME ConnInv, NEW c \in Conns, NEW r \in ConnRecs, ConnOK(r), conn' = [conn EXCEPT ![c] = r]
    PROVE  ConnInv' /\ \A d \in Conns : conn'[d] = IF d = c THEN r ELSE conn[d]
BY DEF ConnInv

\* The session of an open connection becomes s.
LEMMA SessionMoves ==
    ASSUME ConnInv, SlotInv, NEW c \in Conns, conn[c].st = "open", NEW s \in Sessions,
           SessionOK(s, conn[c].secured), SetSession(c, s), UNCHANGED active
    PROVE  ConnInv' /\ SlotInv'
<1>1. PICK r : r = [conn[c] EXCEPT !.s = s] OBVIOUS
<1>2. conn[c] \in ConnRecs BY DEF ConnInv
<1>3. /\ r \in ConnRecs /\ r.s = s /\ r.st = "open" /\ r.secured = conn[c].secured
  BY <1>1, <1>2 DEF ConnRecs
<1>4. ConnOK(r) BY <1>3 DEF ConnOK
<1>5. conn' = [conn EXCEPT ![c] = r] BY <1>1 DEF SetSession, ConnInv
<1>6. ConnInv' /\ \A d \in Conns : conn'[d] = IF d = c THEN r ELSE conn[d]
  BY <1>3, <1>4, <1>5, ConnMoves
<1>7. BusyConns' = BusyConns BY <1>3, <1>6 DEF BusyConns, Busy
<1> QED BY <1>6, <1>7 DEF SlotInv

LEMMA SlotsFinite == IsFiniteSet(BusyConns) /\ Cardinality(BusyConns) \in Nat
BY InboundAssumption, FS_Subset, FS_CardinalityType DEF BusyConns

-----------------------------------------------------------------------------
(* The listener.                                                           *)

LEMMA ConnectKeeps ==
    ASSUME ConnInv, SlotInv, clock \in Nat, NEW c \in Conns, Connect(c)
    PROVE  ConnInv' /\ SlotInv'
<1>1. CASE try_acquire
  <2>1. PICK r : r = NewConn(clock + MaxTransaction, FALSE, 0) OBVIOUS
  <2>2. clock + MaxTransaction \in Nat /\ 0 \in Nat /\ FALSE \in BOOLEAN BY Limits
  <2>3. r \in ConnRecs /\ ConnOK(r) /\ r.st = "open" BY <2>1, <2>2, FreshConn
  <2>4. conn' = [conn EXCEPT ![c] = r] /\ active' = active + 1 /\ conn[c].st = "none"
    BY <1>1, <2>1 DEF Connect
  <2>5. ConnInv' /\ \A d \in Conns : conn'[d] = IF d = c THEN r ELSE conn[d]
    BY <2>3, <2>4, ConnMoves
  <2>6. BusyConns' = BusyConns \cup {c} /\ c \notin BusyConns
    BY <2>3, <2>4, <2>5 DEF BusyConns, Busy
  <2>7. Cardinality(BusyConns') = Cardinality(BusyConns) + 1 BY <2>6, SlotsFinite, FS_AddElement
  <2>8. active < MaxConns BY <1>1 DEF try_acquire
  <2> QED BY <2>4, <2>5, <2>7, <2>8, Limits DEF SlotInv
<1>2. CASE ~try_acquire
  <2>1. PICK r : r = [conn[c] EXCEPT !.st = "closed"] OBVIOUS
  <2>2. conn[c] \in ConnRecs /\ ConnOK(conn[c]) /\ conn[c].st = "none" BY DEF ConnInv, Connect
  <2>3. r \in ConnRecs /\ r.st = "closed" /\ r.s = conn[c].s /\ r.secured = conn[c].secured
    BY <2>1, <2>2 DEF ConnRecs
  <2>4. ConnOK(r) BY <2>2, <2>3 DEF ConnOK
  <2>5. conn' = [conn EXCEPT ![c] = r] /\ active' = active BY <1>2, <2>1 DEF Connect, ConnInv
  <2>6. ConnInv' /\ \A d \in Conns : conn'[d] = IF d = c THEN r ELSE conn[d]
    BY <2>3, <2>4, <2>5, ConnMoves
  <2>7. BusyConns' = BusyConns BY <2>2, <2>3, <2>6 DEF BusyConns, Busy
  <2> QED BY <2>5, <2>6, <2>7 DEF SlotInv
<1> QED BY <1>1, <1>2

LEMMA CloseKeeps ==
    ASSUME ConnInv, SlotInv, NEW c \in Conns, conn[c].st = "open", Close(c)
    PROVE  ConnInv' /\ SlotInv'
<1>1. PICK r : r = [NoConn EXCEPT !.st = "closed"] OBVIOUS
<1>2. r \in ConnRecs /\ r.st = "closed" /\ r.s = NoConn.s /\ r.secured = NoConn.secured
  BY <1>1, IdleConn DEF ConnRecs
<1>3. ConnOK(r) BY <1>2, IdleConn DEF ConnOK
<1>4. conn' = [conn EXCEPT ![c] = r] /\ active' = active - 1 BY <1>1 DEF Close
<1>5. ConnInv' /\ \A d \in Conns : conn'[d] = IF d = c THEN r ELSE conn[d] BY <1>2, <1>3, <1>4, ConnMoves
<1>6. BusyConns' = BusyConns \ {c} /\ c \in BusyConns BY <1>2, <1>5 DEF BusyConns, Busy
<1>7. Cardinality(BusyConns') = Cardinality(BusyConns) - 1 /\ Cardinality(BusyConns') \in Nat
  BY <1>6, SlotsFinite, FS_RemoveElement, FS_CardinalityType
<1> QED BY <1>4, <1>5, <1>7, Limits DEF SlotInv

-----------------------------------------------------------------------------
(* The session.                                                            *)

LEMMA StartTlsKeeps ==
    ASSUME ConnInv, SlotInv, NEW c \in Conns, StartTls(c)
    PROVE  ConnInv' /\ SlotInv'
<1>1. PICK r : r = [conn[c] EXCEPT !.secured = TRUE, !.s = NewSession] OBVIOUS
<1>2. conn[c] \in ConnRecs /\ conn[c].st = "open" BY DEF ConnInv, StartTls, Reads
<1>3. r \in ConnRecs /\ r.st = "open" /\ r.s = NewSession /\ r.secured = TRUE
  BY <1>1, <1>2, FreshSession DEF ConnRecs
<1>4. ConnOK(r) BY <1>3, FreshSession DEF ConnOK
<1>5. conn' = [conn EXCEPT ![c] = r] /\ active' = active BY <1>1 DEF StartTls, AfterTls, ConnInv
<1>6. ConnInv' /\ \A d \in Conns : conn'[d] = IF d = c THEN r ELSE conn[d] BY <1>3, <1>4, <1>5, ConnMoves
<1>7. BusyConns' = BusyConns BY <1>2, <1>3, <1>6 DEF BusyConns, Busy
<1> QED BY <1>5, <1>6, <1>7 DEF SlotInv

LEMMA RsetKeeps ==
    ASSUME ConnInv, SlotInv, NEW c \in Conns, Rset(c)
    PROVE  ConnInv' /\ SlotInv'
<1>1. conn[c].st = "open" /\ conn[c].secured \in BOOLEAN BY DEF Rset, Reads, ConnInv, ConnRecs
<1>2. SetSession(c, NewSession) /\ UNCHANGED active BY DEF Rset, reset_transaction
<1> QED BY <1>1, <1>2, FreshSession, SessionMoves

\* What an open connection's session is.
LEMMA OpenSession ==
    ASSUME ConnInv, NEW c \in Conns, NEW phase, Reads(c, phase)
    PROVE  /\ conn[c].st = "open" /\ conn[c].s \in Sessions /\ conn[c].secured \in BOOLEAN
           /\ SessionOK(conn[c].s, conn[c].secured)
BY DEF Reads, ConnInv, ConnRecs, ConnOK

\* Marking a part of the envelope as said in the clear.
LEMMA MarkedOK ==
    ASSUME NEW s \in Sessions, NEW b \in BOOLEAN, SessionOK(s, b), NEW r \in Sessions,
           r.over = s.over, r.data = s.data, r.sent = s.sent, r.plain = (s.plain \/ ~b)
    PROVE  SessionOK(r, b)
BY DEF SessionOK, Sessions

LEMMA MailKeeps ==
    ASSUME ConnInv, SlotInv, NEW c \in Conns, NEW path \in Paths, cmd_mail(c, path)
    PROVE  ConnInv' /\ SlotInv'
<1> DEFINE spf == SpfResult(Peer[c], path[2])
           s == conn[c].s
           r == [s EXCEPT !.from = path, !.spf = spf, !.plain = @ \/ ~conn[c].secured]
<1>1. Reads(c, "Command") /\ UNCHANGED active BY DEF cmd_mail
<1>2. SetSession(c, s) \/ SetSession(c, r) BY DEF cmd_mail
<1>3. conn[c].st = "open" /\ s \in Sessions /\ conn[c].secured \in BOOLEAN /\ SessionOK(s, conn[c].secured)
  BY <1>1, OpenSession
<1>4. spf \in SpfResults BY InboundAssumption DEF Paths
<1>5. (s.plain \/ ~conn[c].secured) \in BOOLEAN BY <1>3
<1>6. /\ r \in Sessions /\ r.over = s.over /\ r.data = s.data /\ r.sent = s.sent
      /\ r.plain = (s.plain \/ ~conn[c].secured)
  <2>1. PICK b \in BOOLEAN : b = (s.plain \/ ~conn[c].secured) BY <1>5
  <2>2. r = [s EXCEPT !.from = path, !.spf = spf, !.plain = b] BY <2>1, <1>3 DEF Sessions
  <2> HIDE DEF r, s, spf
  <2> QED BY <2>1, <2>2, <1>3, <1>4 DEF Sessions
<1>7. SessionOK(r, conn[c].secured) BY <1>3, <1>6, MarkedOK
<1> HIDE DEF r, s, spf
<1>8. CASE SetSession(c, s) BY <1>8, <1>1, <1>3, SessionMoves
<1>9. CASE SetSession(c, r) BY <1>9, <1>1, <1>3, <1>6, <1>7, SessionMoves
<1> QED BY <1>2, <1>8, <1>9

LEMMA RcptKeeps ==
    ASSUME ConnInv, SlotInv, NEW c \in Conns, NEW x \in Rcpts, cmd_rcpt(c, x)
    PROVE  ConnInv' /\ SlotInv'
<1> DEFINE s == conn[c].s
           r == [s EXCEPT !.rcpt = x, !.plain = @ \/ ~conn[c].secured]
<1>1. Reads(c, "Command") /\ UNCHANGED active BY DEF cmd_rcpt
<1>2. SetSession(c, s) \/ SetSession(c, r) BY DEF cmd_rcpt
<1>3. conn[c].st = "open" /\ s \in Sessions /\ conn[c].secured \in BOOLEAN /\ SessionOK(s, conn[c].secured)
  BY <1>1, OpenSession
<1>5. (s.plain \/ ~conn[c].secured) \in BOOLEAN BY <1>3
<1>6. /\ r \in Sessions /\ r.over = s.over /\ r.data = s.data /\ r.sent = s.sent
      /\ r.plain = (s.plain \/ ~conn[c].secured)
  <2>1. PICK b \in BOOLEAN : b = (s.plain \/ ~conn[c].secured) BY <1>5
  <2>2. r = [s EXCEPT !.rcpt = x, !.plain = b] BY <2>1, <1>3 DEF Sessions
  <2> HIDE DEF r, s
  <2> QED BY <2>1, <2>2, <1>3 DEF Sessions
<1>7. SessionOK(r, conn[c].secured) BY <1>3, <1>6, MarkedOK
<1> HIDE DEF r, s
<1>8. CASE SetSession(c, s) BY <1>8, <1>1, <1>3, SessionMoves
<1>9. CASE SetSession(c, r) BY <1>9, <1>1, <1>3, <1>6, <1>7, SessionMoves
<1> QED BY <1>2, <1>8, <1>9

LEMMA DataKeeps ==
    ASSUME ConnInv, SlotInv, NEW c \in Conns, cmd_data(c)
    PROVE  ConnInv' /\ SlotInv'
<1> DEFINE s == conn[c].s
           r == [s EXCEPT !.phase = "Data"]
<1>1. Reads(c, "Command") /\ UNCHANGED active /\ SetSession(c, r) BY DEF cmd_data
<1>2. conn[c].st = "open" /\ s \in Sessions /\ conn[c].secured \in BOOLEAN /\ SessionOK(s, conn[c].secured)
  BY <1>1, OpenSession
<1>3. r \in Sessions /\ r.over = s.over /\ r.data = s.data /\ r.sent = s.sent /\ r.plain = s.plain
  BY <1>2 DEF Sessions
<1>4. SessionOK(r, conn[c].secured) BY <1>2, <1>3 DEF SessionOK
<1> QED BY <1>1, <1>2, <1>3, <1>4, SessionMoves

LEMMA LineKeeps ==
    ASSUME ConnInv, SlotInv, NEW c \in Conns, NEW l \in Lines, feed_data(c, l)
    PROVE  ConnInv' /\ SlotInv'
<1> DEFINE s == conn[c].s
           q == store_line(s, l)
           r == [q EXCEPT !.sent = Append(@, l)]
<1>1. Reads(c, "Data") /\ UNCHANGED active /\ SetSession(c, r) BY DEF feed_data
<1>2. conn[c].st = "open" /\ s \in Sessions /\ conn[c].secured \in BOOLEAN /\ SessionOK(s, conn[c].secured)
  BY <1>1, OpenSession
<1>3. /\ q \in Sessions /\ q.sent = s.sent /\ q.plain = s.plain
      /\ ~q.over => ~s.over /\ q.data = Append(s.data, l)
  <2>1. CASE s.over BY <1>2, <2>1 DEF store_line
  <2>2. CASE ~s.over /\ Len(s.data) + 1 > MaxLines
    <3>1. q = [s EXCEPT !.over = TRUE, !.data = <<>>] BY <2>2 DEF store_line
    <3> HIDE DEF q, s
    <3>2. s.data \in Seq(Lines) /\ <<>> \in Seq(Lines) BY <1>2 DEF Sessions
    <3> QED BY <1>2, <3>1, <3>2 DEF Sessions
  <2>3. CASE ~s.over /\ ~(Len(s.data) + 1 > MaxLines)
    <3>1. q = [s EXCEPT !.data = Append(@, l)] BY <2>3 DEF store_line
    <3> HIDE DEF q, s
    <3>2. s.data \in Seq(Lines) /\ Append(s.data, l) \in Seq(Lines) BY <1>2 DEF Sessions
    <3> QED BY <1>2, <2>3, <3>1, <3>2 DEF Sessions
  <2> QED BY <2>1, <2>2, <2>3
<1> HIDE DEF q, s
<1>4. q.sent \in Seq(Lines) /\ Append(q.sent, l) \in Seq(Lines) BY <1>3 DEF Sessions
<1>5. r \in Sessions /\ r.over = q.over /\ r.data = q.data /\ r.sent = Append(s.sent, l) /\ r.plain = s.plain
  BY <1>3, <1>4 DEF Sessions
<1>6. SessionOK(r, conn[c].secured) BY <1>2, <1>3, <1>5 DEF SessionOK
<1> HIDE DEF r
<1> QED BY <1>1, <1>2, <1>5, <1>6, SessionMoves

\* A message that is not refused was kept whole and its recipient is acceptable.
LEMMA NotRefused ==
    ASSUME NEW s \in Sessions, Refusal(s) = 0
    PROVE  Agreed(s)
<1>1. ~s.over BY DEF Refusal
<1>2. rcpt_acceptable(s.rcpt) = 0 BY <1>1 DEF Refusal
<1> QED BY <1>1, <1>2 DEF Agreed

LEMMA EndOfDataKeeps ==
    ASSUME ConnInv, SlotInv, NEW c \in Conns, EndOfData(c)
    PROVE  ConnInv' /\ SlotInv'
<1>1. Reads(c, "Data") /\ UNCHANGED active BY DEF EndOfData
<1>2. /\ conn[c].st = "open" /\ conn[c].s \in Sessions /\ conn[c].secured \in BOOLEAN
      /\ SessionOK(conn[c].s, conn[c].secured)
  BY <1>1, OpenSession
<1>3. CASE Refusal(conn[c].s) # 0
  <2>1. SetSession(c, NewSession) BY <1>3 DEF EndOfData, SetSession, reset_transaction
  <2> QED BY <1>1, <1>2, <2>1, FreshSession, SessionMoves
<1>4. CASE Refusal(conn[c].s) = 0
  <2>1. Agreed(conn[c].s) BY <1>2, <1>4, NotRefused
  <2>2. PICK q : q = [conn[c].s EXCEPT !.phase = "Command"] OBVIOUS
  <2>3. /\ q \in Sessions /\ q.over = conn[c].s.over /\ q.rcpt = conn[c].s.rcpt
        /\ q.data = conn[c].s.data /\ q.sent = conn[c].s.sent /\ q.plain = conn[c].s.plain
    BY <1>2, <2>2 DEF Sessions
  <2>4. PICK r : r = [conn[c] EXCEPT !.st = "delivering", !.s = q] OBVIOUS
  <2>5. conn[c] \in ConnRecs BY DEF ConnInv
  <2>6. r \in ConnRecs /\ r.st = "delivering" /\ r.s = q /\ r.secured = conn[c].secured
    BY <2>3, <2>4, <2>5 DEF ConnRecs
  <2>7. ConnOK(r) BY <1>2, <2>1, <2>3, <2>6 DEF ConnOK, SessionOK, Agreed
  <2>8. conn' = [conn EXCEPT ![c] = r] BY <1>4, <2>2, <2>4 DEF EndOfData, ConnInv
  <2>9. ConnInv' /\ \A d \in Conns : conn'[d] = IF d = c THEN r ELSE conn[d]
    BY <2>6, <2>7, <2>8, ConnMoves
  <2>10. BusyConns' = BusyConns BY <1>2, <2>6, <2>9 DEF BusyConns, Busy
  <2> QED BY <1>1, <2>9, <2>10 DEF SlotInv
<1> QED BY <1>3, <1>4

\* Delivery frees the handler, and 250 follows only a durable ack of the whole message
\* under an attestation of its recipient's domain.
LEMMA DeliverKeeps ==
    ASSUME ConnInv, SlotInv, AckedIsDurable, NEW c \in Conns, NEW o \in DeliveryOutcomes, Deliver(c, o)
    PROVE  ConnInv' /\ SlotInv' /\ AckedIsDurable'
<1>1. /\ conn[c] \in ConnRecs /\ ConnOK(conn[c]) /\ conn[c].st = "delivering" /\ UNCHANGED active
  BY DEF ConnInv, Deliver
<1>2. ConnInv' /\ SlotInv'
  <2>0. PICK k \in Nat : k = conn[c].n + 1 BY <1>1 DEF ConnRecs
  <2>1. PICK r : r = [conn[c] EXCEPT !.st = "open", !.n = k, !.s = NewSession] OBVIOUS
  <2>2. r \in ConnRecs /\ r.st = "open" /\ r.s = NewSession /\ r.secured \in BOOLEAN
    BY <1>1, <2>1, FreshSession DEF ConnRecs
  <2>3. ConnOK(r) BY <2>2, FreshSession DEF ConnOK
  <2>4. conn' = [conn EXCEPT ![c] = r] BY <2>0, <2>1 DEF Deliver, reset_transaction, ConnInv
  <2>5. ConnInv' /\ \A d \in Conns : conn'[d] = IF d = c THEN r ELSE conn[d] BY <2>2, <2>3, <2>4, ConnMoves
  <2>6. BusyConns' = BusyConns BY <1>1, <2>2, <2>5 DEF BusyConns, Busy
  <2> QED BY <1>1, <2>5, <2>6 DEF SlotInv
<1>3. AckedIsDurable'
  <2> DEFINE s == conn[c].s
             mote == wrap_and_attest(c, s)
             receipt == [id |-> mote.id, from |-> s.from, rcpt |-> s.rcpt, sent |-> s.sent]
  <2>1. durable \subseteq durable' BY DEF Deliver
  <2>2. CASE o = "acked"
    <3>1. acked' = acked \cup {receipt} /\ mote \in durable' BY <2>2 DEF Deliver, Ok250
    <3>2. ~s.over /\ rcpt_acceptable(s.rcpt) = 0 /\ s.data = s.sent
      BY <1>1 DEF ConnOK, Agreed, SessionOK
    <3>3. AttestKey[DomainOf[s.rcpt]] # "nokey" BY <3>2 DEF rcpt_acceptable
    <3>4. /\ mote.id = receipt.id /\ mote.rcpt = receipt.rcpt /\ mote.data = receipt.sent
          /\ mote.att.body.from = receipt.from /\ mote.att.body.rcpt = receipt.rcpt
      BY <3>2 DEF wrap_and_attest, attest
    <3>5. attestation_verify(mote.att, DomainOf[receipt.rcpt], AttestKey[DomainOf[receipt.rcpt]], mote.id) = "Ok"
      BY <3>3 DEF wrap_and_attest, attest, attestation_verify
    <3> HIDE DEF mote, receipt
    <3> QED BY <2>1, <3>1, <3>4, <3>5 DEF AckedIsDurable
  <2>3. CASE o # "acked"
    <3>1. acked' = acked BY <2>3 DEF Deliver, Ok250
    <3> QED BY <2>1, <3>1 DEF AckedIsDurable
  <2> QED BY <2>2, <2>3
<1> QED BY <1>2, <1>3

-----------------------------------------------------------------------------
(* The cold sender gate.                                                   *)

\* A check under the lock leaves the gate as it must be: the windows of the other
\* peers are untouched, that of this peer loses only what is outside it.
LEMMA GateKeeps ==
    ASSUME GateInv, NEW ip \in IPs, NEW path \in Paths, GateEffect(ip, path, check(ip, path).why),
           UNCHANGED clock
    PROVE  GateInv'
<1> DEFINE why == check(ip, path).why
           stamp == [n |-> Len(cold) + 1, t |-> clock]
           entry == [ip |-> ip, path |-> path, t |-> clock]
<1>1. /\ clock \in Nat /\ clock \in 0 .. MaxClock /\ grey \in [IPs \X Paths -> Int]
      /\ accepts \in [IPs -> SUBSET [n : Nat, t : Nat]]
      /\ cold \in Seq([ip : IPs, path : Paths, t : Nat]) /\ RateWindow \in Nat /\ RateLimit \in Nat
      /\ MinRetry \in Nat /\ GreyTtl \in Nat /\ Len(cold) \in Nat
  BY Limits DEF GateInv, GateTypes
<1>2. why \in {"blocked", "known", "rate", "greylisted", "early", "cold"} BY DEF check
<1>3. Hits(ip) \subseteq accepts[ip] /\ IsFiniteSet(Hits(ip)) /\ Cardinality(Hits(ip)) \in Nat
  <2>1. Hits(ip) \subseteq accepts[ip] BY DEF Hits
  <2> QED BY <2>1, FS_Subset, FS_CardinalityType DEF GateInv, WindowInv
<1>4. stamp \in [n : Nat, t : Nat] /\ entry \in [ip : IPs, path : Paths, t : Nat] BY <1>1
<1>5. /\ why \in {"blocked", "known"} => accepts' = accepts
      /\ why = "cold" => accepts' = [accepts EXCEPT ![ip] = Hits(ip) \cup {stamp}]
      /\ why \in {"rate", "greylisted", "early"} => accepts' = [accepts EXCEPT ![ip] = Hits(ip)]
      /\ grey' = IF why = "greylisted" THEN [grey EXCEPT ![<<ip, path>>] = clock] ELSE grey
      /\ tries' = IF why = "greylisted" THEN tries \cup {<<ip, path, clock>>} ELSE tries
      /\ cold' = IF why = "cold" THEN Append(cold, entry) ELSE cold
  BY DEF GateEffect
<1>6. why = "cold" => /\ Cardinality(Hits(ip)) < RateLimit
                      /\ grey[<<ip, path>>] # Unseen
                      /\ clock - grey[<<ip, path>>] <= GreyTtl
                      /\ clock - grey[<<ip, path>>] >= MinRetry
  <2>1. grey[<<ip, path>>] \in Int BY <1>1
  <2> QED BY <1>1, <1>3, <2>1 DEF check, IsCold, Since
<1> HIDE DEF why
<1>7. GateTypes'
  <2>1. accepts' \in [IPs -> SUBSET [n : Nat, t : Nat]]
    <3>1. accepts[ip] \subseteq [n : Nat, t : Nat] BY <1>1
    <3>2. Hits(ip) \in SUBSET [n : Nat, t : Nat] /\ Hits(ip) \cup {stamp} \in SUBSET [n : Nat, t : Nat]
      BY <1>3, <1>4, <3>1
    <3> HIDE DEF stamp
    <3> QED BY <1>1, <1>2, <1>5, <3>2
  <2>2. grey' \in [IPs \X Paths -> Int] BY <1>1, <1>5
  <2>3. cold' \in Seq([ip : IPs, path : Paths, t : Nat])
    <3>1. PICK C : C = [ip : IPs, path : Paths, t : Nat] OBVIOUS
    <3>2. cold \in Seq(C) /\ entry \in C BY <1>1, <1>4, <3>1
    <3> HIDE DEF entry
    <3>3. Append(cold, entry) \in Seq(C) BY <3>2
    <3> QED BY <1>5, <3>1, <3>2, <3>3
  <2> QED BY <1>1, <2>1, <2>2, <2>3 DEF GateTypes
<1>8. GreyInv'
  <2> SUFFICES ASSUME NEW i \in IPs, NEW p \in Paths, grey'[<<i, p>>] # Unseen
               PROVE  grey'[<<i, p>>] \in 0 .. clock /\ <<i, p, grey'[<<i, p>>]>> \in tries'
    BY DEF GreyInv
  <2>1. CASE why = "greylisted" /\ <<i, p>> = <<ip, path>>
    <3>1. grey'[<<i, p>>] = clock /\ i = ip /\ p = path BY <1>1, <1>5, <2>1
    <3> QED BY <1>1, <1>5, <2>1, <3>1
  <2>2. CASE ~(why = "greylisted" /\ <<i, p>> = <<ip, path>>)
    <3>1. grey'[<<i, p>>] = grey[<<i, p>>] BY <1>1, <1>5, <2>2
    <3>2. tries \subseteq tries' BY <1>5
    <3> QED BY <3>1, <3>2 DEF GateInv, GreyInv
  <2> QED BY <2>1, <2>2
<1>9. WindowInv'
  <2> SUFFICES ASSUME NEW i \in IPs
               PROVE  /\ IsFiniteSet(accepts'[i])
                      /\ \A j \in Recent(i)' : [n |-> j, t |-> cold'[j].t] \in Hits(i)'
    BY DEF WindowInv
  <2>1. IsFiniteSet(accepts'[i])
    <3>1. IsFiniteSet(accepts[i]) BY DEF GateInv, WindowInv
    <3>2. IsFiniteSet(Hits(ip) \cup {stamp}) BY <1>3, FS_AddElement
    <3>3. accepts'[i] \in {accepts[i], Hits(ip), Hits(ip) \cup {stamp}}
      <4> HIDE DEF stamp
      <4> QED BY <1>1, <1>2, <1>5
    <3> QED BY <1>3, <3>1, <3>2, <3>3
  <2>2. Hits(i) \subseteq Hits(i)'
    <3>1. \A a \in Hits(i) : a \in accepts'[i]
      <4> HIDE DEF stamp
      <4>1. Hits(i) \subseteq accepts[i] BY DEF Hits
      <4> QED BY <1>1, <1>2, <1>5, <4>1
    <3> QED BY <3>1 DEF Hits
  <2>3. ASSUME NEW j \in Recent(i)' PROVE [n |-> j, t |-> cold'[j].t] \in Hits(i)'
    <3>1. CASE j \in 1 .. Len(cold)
      <4>1. cold'[j] = cold[j] BY <1>1, <1>4, <1>5, <3>1
      <4>2. j \in Recent(i) BY <2>3, <3>1, <4>1 DEF Recent
      <4>3. [n |-> j, t |-> cold[j].t] \in Hits(i) BY <4>2 DEF GateInv, WindowInv
      <4> QED BY <2>2, <4>1, <4>3
    <3>2. CASE j \notin 1 .. Len(cold)
      <4>1. why = "cold" /\ j = Len(cold) + 1 /\ cold'[j] = entry
        <5> HIDE DEF entry
        <5> QED BY <1>1, <1>4, <1>5, <2>3, <3>2 DEF Recent
      <4>2. i = ip /\ cold'[j].t = clock BY <2>3, <4>1 DEF Recent
      <4>3. stamp \in accepts'[i]
        <5> HIDE DEF stamp
        <5> QED BY <1>1, <1>5, <4>1, <4>2
      <4>4. stamp.t >= clock - RateWindow BY <1>1
      <4> QED BY <4>1, <4>2, <4>3, <4>4 DEF Hits
    <3> QED BY <3>1, <3>2
  <2> QED BY <2>1, <2>3
<1>10. GreylistHolds'
  <2> SUFFICES ASSUME NEW i \in DOMAIN cold'
               PROVE  \E t \in 0 .. cold'[i].t : /\ <<cold'[i].ip, cold'[i].path, t>> \in tries'
                                                 /\ cold'[i].t - t \in MinRetry .. GreyTtl
    BY DEF GreylistHolds
  <2>1. tries \subseteq tries' BY <1>5
  <2>2. CASE i \in DOMAIN cold
    <3>1. cold'[i] = cold[i] BY <1>1, <1>4, <1>5, <2>2
    <3> QED BY <2>1, <2>2, <3>1 DEF GateInv, ColdGateHolds, GreylistHolds
  <2>3. CASE i \notin DOMAIN cold
    <3>1. why = "cold" /\ cold'[i] = entry
      <4> HIDE DEF entry
      <4> QED BY <1>1, <1>4, <1>5, <2>3
    <3>2. PICK t : t = grey[<<ip, path>>] OBVIOUS
    <3>3. t \in 0 .. clock /\ <<ip, path, t>> \in tries BY <1>6, <3>1, <3>2 DEF GateInv, GreyInv
    <3>4. clock - t \in MinRetry .. GreyTtl BY <1>1, <1>6, <3>1, <3>2, <3>3
    <3>5. cold'[i].t = clock /\ cold'[i].ip = ip /\ cold'[i].path = path BY <3>1
    <3> QED BY <2>1, <3>3, <3>4, <3>5
  <2> QED BY <2>2, <2>3
<1>11. RateHolds'
  <2> SUFFICES ASSUME NEW i \in DOMAIN cold'
               PROVE  Cardinality({j \in 1 .. i : /\ cold'[j].ip = cold'[i].ip
                                                  /\ cold'[j].t >= cold'[i].t - RateWindow}) <= RateLimit
    BY DEF RateHolds
  <2>1. CASE i \in DOMAIN cold
    <3>1. \A j \in 1 .. i : cold'[j] = cold[j] BY <1>1, <1>4, <1>5, <2>1
    <3>2. i \in 1 .. i BY <1>1, <2>1
    <3>3. {j \in 1 .. i : cold'[j].ip = cold'[i].ip /\ cold'[j].t >= cold'[i].t - RateWindow}
          = {j \in 1 .. i : cold[j].ip = cold[i].ip /\ cold[j].t >= cold[i].t - RateWindow}
      BY <3>1, <3>2
    <3> QED BY <2>1, <3>3 DEF GateInv, ColdGateHolds, RateHolds
  <2>2. CASE i \notin DOMAIN cold
    <3>1. why = "cold" /\ i = Len(cold) + 1 /\ cold'[i] = entry
      <4> HIDE DEF entry
      <4> QED BY <1>1, <1>4, <1>5, <2>2
    <3>2. \A j \in 1 .. Len(cold) : cold'[j] = cold[j] BY <1>1, <1>4, <1>5
    <3>3. cold'[i].ip = ip /\ cold'[i].t = clock BY <3>1
    <3>4. {j \in 1 .. i : cold'[j].ip = cold'[i].ip /\ cold'[j].t >= cold'[i].t - RateWindow}
          = Recent(ip) \cup {i}
      <4>1. \A j : j \in 1 .. i <=> j \in 1 .. Len(cold) \/ j = i BY <1>1, <3>1
      <4>2. cold'[i].t >= cold'[i].t - RateWindow BY <1>1, <3>3
      <4> HIDE DEF entry
      <4> QED BY <3>2, <3>3, <4>1, <4>2 DEF Recent
    <3>5. IsFiniteSet(Recent(ip)) /\ Cardinality(Recent(ip)) <= Cardinality(Hits(ip))
      <4> DEFINE f == [j \in Recent(ip) |-> [n |-> j, t |-> cold[j].t]]
      <4>1. f \in [Recent(ip) -> Hits(ip)] BY DEF GateInv, WindowInv
      <4>2. \A a, b \in Recent(ip) : f[a] = f[b] => a = b
        <5> SUFFICES ASSUME NEW a \in Recent(ip), NEW b \in Recent(ip), f[a] = f[b] PROVE a = b OBVIOUS
        <5>1. f[a].n = a /\ f[b].n = b OBVIOUS
        <5> QED BY <5>1
      <4>3. f \in Injection(Recent(ip), Hits(ip)) BY <4>1, <4>2 DEF Injection, IsInjective
      <4>4. ExistsInjection(Recent(ip), Hits(ip)) BY <4>3 DEF ExistsInjection
      <4> QED BY <1>3, <4>3, FS_Injection
    <3>6. i \notin Recent(ip) BY <1>1, <3>1 DEF Recent
    <3>7. Cardinality(Recent(ip) \cup {i}) = Cardinality(Recent(ip)) + 1 /\ Cardinality(Recent(ip)) \in Nat
      BY <3>5, <3>6, FS_AddElement, FS_CardinalityType
    <3>8. Cardinality(Hits(ip)) < RateLimit BY <1>6, <3>1
    <3>9. Cardinality(Recent(ip)) + 1 <= RateLimit BY <1>1, <1>3, <3>5, <3>7, <3>8
    <3> QED BY <3>4, <3>7, <3>9
  <2> QED BY <2>1, <2>2
<1> QED BY <1>7, <1>8, <1>9, <1>10, <1>11 DEF GateInv, ColdGateHolds

\* As time passes the windows only let go.
LEMMA TickKeeps ==
    ASSUME GateInv, Tick
    PROVE  GateInv'
<1>1. clock' = clock + 1 /\ clock \in Nat /\ clock' \in 0 .. MaxClock /\ UNCHANGED <<grey, accepts, tries, cold>>
  BY Limits DEF Tick, UnchangedGate, GateInv, GateTypes
<1>2. GateTypes' BY <1>1 DEF GateInv, GateTypes
<1>3. GreyInv' BY <1>1 DEF GateInv, GreyInv
<1>4. WindowInv'
  <2> SUFFICES ASSUME NEW i \in IPs
               PROVE  /\ IsFiniteSet(accepts'[i])
                      /\ \A j \in Recent(i)' : [n |-> j, t |-> cold'[j].t] \in Hits(i)'
    BY DEF WindowInv
  <2>1. IsFiniteSet(accepts'[i]) BY <1>1 DEF GateInv, WindowInv
  <2>2. ASSUME NEW j \in Recent(i)' PROVE [n |-> j, t |-> cold'[j].t] \in Hits(i)'
    <3>1. j \in 1 .. Len(cold) /\ cold[j].ip = i /\ cold[j].t >= (clock + 1) - RateWindow
      BY <1>1, <2>2 DEF Recent
    <3>2. cold[j].t \in Nat
      <4>1. PICK C : C = [ip : IPs, path : Paths, t : Nat] OBVIOUS
      <4>2. cold \in Seq(C) BY <4>1 DEF GateInv, GateTypes
      <4>3. cold[j] \in C BY <3>1, <4>2
      <4> QED BY <4>1, <4>3
    <3>3. j \in Recent(i) BY <1>1, <3>1, <3>2, Limits DEF Recent
    <3>4. [n |-> j, t |-> cold[j].t] \in accepts[i] BY <3>3 DEF GateInv, WindowInv, Hits
    <3> QED BY <1>1, <3>1, <3>4 DEF Hits
  <2> QED BY <2>1, <2>2
<1>5. ColdGateHolds' BY <1>1 DEF GateInv, ColdGateHolds, RateHolds, GreylistHolds
<1> QED BY <1>2, <1>3, <1>4, <1>5 DEF GateInv

LEMMA GateUnchanged ==
    ASSUME GateInv, UnchangedGate, UNCHANGED clock
    PROVE  GateInv'
BY DEF GateInv, UnchangedGate, GateTypes, GreyInv, WindowInv, Recent, Hits, ColdGateHolds, RateHolds, GreylistHolds

-----------------------------------------------------------------------------
(* The whole.                                                              *)

LEMMA MxInitInv == Init => MxInv
<1> SUFFICES ASSUME Init PROVE MxInv OBVIOUS
<1>1. /\ conn = [c \in Conns |-> NoConn] /\ active = 0 /\ shutdown = FALSE /\ acked = {} /\ clock = 0
      /\ cold = <<>> /\ grey = [k \in IPs \X Paths |-> Unseen] /\ accepts = [i \in IPs |-> {}]
  BY DEF Init
<1>2. ConnInv BY <1>1, IdleConn DEF ConnInv
<1>3. SlotInv
  <2>1. BusyConns = {} BY <1>1, IdleConn DEF BusyConns, Busy
  <2> QED BY <1>1, <2>1, FS_EmptySet, Limits DEF SlotInv
<1>4. GateTypes
  <2>1. cold \in Seq([ip : IPs, path : Paths, t : Nat]) BY <1>1
  <2>2. {} \in SUBSET [n : Nat, t : Nat] OBVIOUS
  <2>3. accepts \in [IPs -> SUBSET [n : Nat, t : Nat]] BY <1>1, <2>2
  <2>4. grey \in [IPs \X Paths -> Int] BY <1>1 DEF Unseen
  <2>5. clock \in 0 .. MaxClock BY <1>1, Limits
  <2> QED BY <2>1, <2>3, <2>4, <2>5 DEF GateTypes
<1>5. GreyInv BY <1>1 DEF GreyInv
<1>6. WindowInv
  <2>1. \A i \in IPs : accepts[i] = {} /\ IsFiniteSet({}) BY <1>1, FS_EmptySet
  <2>2. \A i : Recent(i) = {} BY <1>1 DEF Recent
  <2> QED BY <2>1, <2>2 DEF WindowInv
<1>7. ColdGateHolds BY <1>1 DEF ColdGateHolds, RateHolds, GreylistHolds
<1>8. shutdown \in BOOLEAN /\ AckedIsDurable BY <1>1 DEF AckedIsDurable
<1> QED BY <1>2, <1>3, <1>4, <1>5, <1>6, <1>7, <1>8 DEF MxInv, GateInv

LEMMA MxStepKeeps ==
    ASSUME MxInv, [Next]_vars
    PROVE  MxInv'
<1> USE DEF MxInv
<1>0. clock \in Nat BY DEF GateInv, GateTypes
\* Steps that leave the gate and the store alone.
<1>1. ASSUME UnchangedGate, UnchangedStore, UNCHANGED <<clock, shutdown>>, ConnInv' /\ SlotInv' PROVE MxInv'
  BY <1>1, GateUnchanged DEF UnchangedStore, AckedIsDurable
<1>2. CASE UNCHANGED vars
  <2>1. UnchangedGate /\ UnchangedStore /\ UNCHANGED <<clock, shutdown>> /\ UNCHANGED <<conn, active>>
    BY <1>2 DEF vars, UnchangedGate, UnchangedStore
  <2>2. ConnInv' /\ SlotInv' BY <2>1 DEF ConnInv, SlotInv, BusyConns, Busy
  <2> QED BY <1>1, <2>1, <2>2
<1>3. CASE Tick
  <2>1. ConnInv' /\ SlotInv' BY <1>3 DEF Tick, ConnInv, SlotInv, BusyConns, Busy
  <2>2. AckedIsDurable' /\ shutdown' \in BOOLEAN BY <1>3 DEF Tick, UnchangedStore, AckedIsDurable
  <2> QED BY <1>3, <2>1, <2>2, TickKeeps
<1>4. CASE Stop
  <2>1. ConnInv' /\ SlotInv' BY <1>4 DEF Stop, ConnInv, SlotInv, BusyConns, Busy
  <2>2. AckedIsDurable' /\ shutdown' \in BOOLEAN BY <1>4 DEF Stop, UnchangedStore, AckedIsDurable
  <2>3. GateInv' BY <1>4, GateUnchanged DEF Stop
  <2> QED BY <2>1, <2>2, <2>3
<1>5. ASSUME NEW c \in Conns, Connect(c) PROVE MxInv' BY <1>0, <1>1, <1>5, ConnectKeeps DEF Connect
<1>6. ASSUME NEW c \in Conns, Quit(c) \/ Late(c) PROVE MxInv' BY <1>1, <1>6, CloseKeeps DEF Quit, Late, Close
<1>7. ASSUME NEW c \in Conns, StartTls(c) PROVE MxInv' BY <1>1, <1>7, StartTlsKeeps DEF StartTls
<1>8. ASSUME NEW c \in Conns, Rset(c) PROVE MxInv' BY <1>1, <1>8, RsetKeeps DEF Rset
<1>9. ASSUME NEW c \in Conns, cmd_data(c) PROVE MxInv' BY <1>1, <1>9, DataKeeps DEF cmd_data
<1>10. ASSUME NEW c \in Conns, EndOfData(c) PROVE MxInv' BY <1>1, <1>10, EndOfDataKeeps DEF EndOfData
<1>11. ASSUME NEW c \in Conns, NEW p \in Paths, cmd_mail(c, p) PROVE MxInv'
  <2>1. /\ GateEffect(Peer[c], p, check(Peer[c], p).why)
        /\ UnchangedStore /\ UNCHANGED <<clock, active, shutdown>>
    BY <1>11 DEF cmd_mail
  <2>2. Peer[c] \in IPs BY InboundAssumption
  <2>3. GateInv' BY <2>1, <2>2, GateKeeps
  <2>4. ConnInv' /\ SlotInv' BY <1>11, MailKeeps
  <2>5. AckedIsDurable' BY <2>1 DEF UnchangedStore, AckedIsDurable
  <2> QED BY <2>1, <2>3, <2>4, <2>5
<1>12. ASSUME NEW c \in Conns, NEW r \in Rcpts, cmd_rcpt(c, r) PROVE MxInv'
  <2>1. ConnInv' /\ SlotInv' BY <1>12, RcptKeeps
  <2> QED BY <1>1, <1>12, <2>1 DEF cmd_rcpt
<1>13. ASSUME NEW c \in Conns, NEW l \in Lines, feed_data(c, l) PROVE MxInv'
  <2>1. ConnInv' /\ SlotInv' BY <1>13, LineKeeps
  <2> QED BY <1>1, <1>13, <2>1 DEF feed_data
<1>14. ASSUME NEW c \in Conns, NEW o \in DeliveryOutcomes, Deliver(c, o) PROVE MxInv'
  <2>1. ConnInv' /\ SlotInv' /\ AckedIsDurable' BY <1>14, DeliverKeeps
  <2>2. GateInv' /\ shutdown' \in BOOLEAN BY <1>14, GateUnchanged DEF Deliver
  <2> QED BY <2>1, <2>2
<1> QED BY <1>2, <1>3, <1>4, <1>5, <1>6, <1>7, <1>8, <1>9, <1>10, <1>11, <1>12, <1>13, <1>14 DEF Next

\* The invariant holds in every reachable state of the inbound MX.
THEOREM MxInvHolds == Spec => []MxInv
BY MxInitInv, MxStepKeeps, PTL DEF Spec

\* A message answered 250 is stored whole and attested, what was said before STARTTLS
\* is forgotten, and the slots are those of the busy handlers (inbound.rs, inbound_tcp.rs,
\* net.rs).
THEOREM MailIsSafe == Spec => []MailSafe
<1>1. MxInv => MailSafe
  <2> SUFFICES ASSUME MxInv PROVE MailSafe OBVIOUS
  <2>1. TypeOK BY DEF MxInv, ConnInv, ConnRecs, SlotInv, GateInv, GateTypes, TypeOK
  <2>2. TlsForgets BY DEF MxInv, ConnInv, ConnOK, SessionOK, TlsForgets
  <2>3. SlotsBalanced BY DEF MxInv, SlotInv, BusyConns, SlotsBalanced
  <2> QED BY <2>1, <2>2, <2>3 DEF MxInv, MailSafe
<1> QED BY <1>1, MxInvHolds, PTL

\* Whatever connections a peer opens, its cold senders wait their time on the greylist
\* and stay within the rate of every window (ColdSenderGate::check).
THEOREM ColdGateIsKept == Spec => []ColdGateHolds
<1>1. MxInv => ColdGateHolds BY DEF MxInv, GateInv
<1> QED BY <1>1, MxInvHolds, PTL

-----------------------------------------------------------------------------
(***************************************************************************)
(* What a bridged message proves, for any gateways, messages and carriers. *)
(* A record is assembled from a chain that carriers may have cut, changed  *)
(* or added to.  Attestations its gateway made are told from forgeries by  *)
(* the key, and the invariant keeps two things about them: the gateway has *)
(* signed these very bytes, and every hop past the first has a bill of its *)
(* own.  That is an injection of hops into bills, which a lost attestation *)
(* only restricts.                                                         *)
(***************************************************************************)

Contents == [body : Bodies, head : SUBSET Claims, look : SUBSET Claims]
Signers == {Key(g) : g \in Gateways} \cup {<<"key", "carrier">>}
AttBodies == [disc : {DISC_LEGACY_BRIDGE}, domain : Gateways, at : {0}, digest : Contents, from : {"sender"}, seq : Nat]
Atts == [body : AttBodies, sig : Signers \X {"gateway-attest"} \X AttBodies]
Events == [gateway : Gateways, direction : {"Inbound", "Outbound"}, account : {Account(g, d) : g \in Gateways, d \in HostDomains},
           domain : HostDomains, digest : Contents]

\* An attestation its gateway made.
Genuine(att) == att.sig = <<Key(att.body.domain), "gateway-attest", att.body>>

BridgeTypes == /\ message = [content |-> message.content, chain |-> message.chain]
               /\ message.content \in Contents /\ message.chain \in Seq(Atts)
               /\ meter \in Seq(Events) /\ written \in Contents

\* What a gateway attested it has signed, at its entry or as a bridge.
SignedInv == \A i \in DOMAIN message.chain : Genuine(message.chain[i]) =>
    \E where \in {"entry", "bridge"} :
        <<message.chain[i].body.domain, message.chain[i].body.digest, where>> \in signed_by

\* b takes every hop past the first of a chain to a bill of its own.
Hop(att) == Genuine(att) /\ att.body.seq > 0
BilledBy(b, chain, events) ==
    /\ \A i \in DOMAIN chain : Hop(chain[i]) =>
           /\ b[i] \in DOMAIN events
           /\ events[b[i]].gateway = chain[i].body.domain /\ events[b[i]].digest = chain[i].body.digest
    /\ \A i, j \in DOMAIN chain : Hop(chain[i]) /\ Hop(chain[j]) /\ b[i] = b[j] => i = j
BilledInv == \E b : BilledBy(b, message.chain, meter)

MeterInv == \A i \in DOMAIN meter : /\ <<meter[i].gateway, meter[i].digest, "bridge">> \in signed_by
                                    /\ meter[i].account = Account(meter[i].gateway, meter[i].domain)
FirstInv == place = "legacy" => message.content = written /\ message.chain = <<>>

BridgeInv == BridgeTypes /\ SignedInv /\ BilledInv /\ FirstInv /\ MeterInv /\ NothingLaundered
RecordInv == HopsAreReal /\ BillAudits

LEMMA Signs ==
    ASSUME NEW key \in Signers, NEW g \in Gateways, NEW c \in Contents, NEW n \in Nat, NEW a,
           a = gateway_sign(key, g, c, "sender", 0, n)
    PROVE  /\ a \in Atts /\ a.body.domain = g /\ a.body.digest = c /\ a.body.seq = n
           /\ Genuine(a) <=> key = Key(g)
<1>1. PICK y : y = [disc |-> DISC_LEGACY_BRIDGE, domain |-> g, at |-> 0, digest |-> c, from |-> "sender", seq |-> n] OBVIOUS
<1>2. y \in AttBodies /\ y.domain = g /\ y.digest = c /\ y.seq = n BY <1>1 DEF AttBodies
<1>3. a = [body |-> y, sig |-> <<key, "gateway-attest", y>>] BY <1>1 DEF gateway_sign
<1>4. a \in Atts BY <1>2, <1>3 DEF Atts
<1>5. a.body = y /\ a.sig = <<key, "gateway-attest", y>> BY <1>3
<1> QED BY <1>2, <1>4, <1>5 DEF Genuine

LEMMA CarrierIsNobody == \A g \in Gateways : <<"key", "carrier">> # Key(g)
BY BridgeAssumption DEF Key

LEMMA AttFields ==
    ASSUME NEW a \in Atts
    PROVE  /\ a.body.domain \in Gateways /\ a.body.digest \in Contents /\ a.body.seq \in Nat
           /\ a.body.disc = DISC_LEGACY_BRIDGE
BY DEF Atts, AttBodies

LEMMA BridgeInitInv == BridgeInit => BridgeInv /\ RecordInv
<1> SUFFICES ASSUME BridgeInit PROVE BridgeInv /\ RecordInv OBVIOUS
<1>1. PICK b \in Bodies, h, look \in SUBSET Claims :
          message = [content |-> [body |-> b, head |-> h, look |-> look], chain |-> <<>>]
  BY DEF BridgeInit
<1>2. /\ message.content = [body |-> b, head |-> h, look |-> look] /\ message.chain = <<>>
      /\ message.content \in Contents
  BY <1>1 DEF Contents
<1>3. /\ written = message.content /\ place = "legacy" /\ meter = <<>> /\ signed_by = {}
  BY DEF BridgeInit
<1>4. BridgeTypes BY <1>1, <1>2, <1>3 DEF BridgeTypes
<1>5. SignedInv /\ FirstInv /\ MeterInv /\ NothingLaundered
  BY <1>2, <1>3 DEF SignedInv, FirstInv, MeterInv, NothingLaundered
<1>6. BilledBy(<<>>, message.chain, meter) BY <1>2, <1>3 DEF BilledBy
<1>7. RecordInv BY <1>3 DEF RecordInv, HopsAreReal, BillAudits
<1> QED BY <1>4, <1>5, <1>6, <1>7 DEF BridgeInv, BilledInv

\* The entry of a message.
LEMMA EntryKeeps ==
    ASSUME BridgeInv, NEW g \in Gateways, wrap_attest_and_stamp(g)
    PROVE  BridgeInv' /\ RecordInv'
<1>0. message.content \in Contents /\ message.content = written
  BY DEF BridgeInv, BridgeTypes, FirstInv, wrap_attest_and_stamp
<1>1. PICK c : c = strip_trust_boundary_headers(message.content) OBVIOUS
<1>2. c \in Contents /\ c.head = {} /\ c.body = written.body /\ c.look = written.look
  BY <1>0, <1>1 DEF strip_trust_boundary_headers, Contents
<1>3. PICK a : a = gateway_sign(Key(g), g, c, "sender", 0, 0) OBVIOUS
<1>4. stamped(g).content = c /\ stamped(g).att = a BY <1>1, <1>3 DEF stamped, msg_digest
<1>5. /\ a \in Atts /\ a.body.domain = g /\ a.body.digest = c /\ a.body.seq = 0
  BY <1>2, <1>3, Signs DEF Signers
<1>6. /\ message' = [content |-> c, chain |-> <<a>>] /\ signed_by' = signed_by \cup {<<g, c, "entry">>}
      /\ place' = "mesh" /\ meter' = meter /\ written' = written
  BY <1>4, <1>5 DEF wrap_attest_and_stamp
<1>7. message'.content = c /\ message'.chain = <<a>> BY <1>6
<1>8. BridgeTypes' BY <1>2, <1>5, <1>6, <1>7 DEF BridgeInv, BridgeTypes
<1>9. SignedInv' BY <1>5, <1>6, <1>7 DEF SignedInv
<1>10. BilledInv'
  <2>1. BilledBy(<<0>>, <<a>>, meter') BY <1>5 DEF BilledBy, Hop
  <2> QED BY <1>7, <2>1 DEF BilledInv
<1>11. FirstInv' BY <1>6 DEF FirstInv
<1>12. MeterInv' BY <1>6 DEF BridgeInv, MeterInv
<1>13. NothingLaundered' BY <1>2, <1>6 DEF BridgeInv, NothingLaundered
<1>14. RecordInv' BY <1>6, <1>12 DEF RecordInv, HopsAreReal, BillAudits, MeterInv
<1> QED BY <1>8, <1>9, <1>10, <1>11, <1>12, <1>13, <1>14 DEF BridgeInv

\* A hop that is authorised, and billed.
LEMMA HopKeeps ==
    ASSUME BridgeInv, NEW g \in Gateways, NEW dir \in {"Inbound", "Outbound"}, NEW d \in HostDomains,
           bridge(g, dir, d)
    PROVE  BridgeInv' /\ RecordInv'
<1>0. /\ message.content \in Contents /\ message.chain \in Seq(Atts) /\ meter \in Seq(Events)
      /\ message = [content |-> message.content, chain |-> message.chain] /\ written \in Contents
      /\ place = "mesh" /\ place' = "mesh" /\ written' = written
  BY DEF BridgeInv, BridgeTypes, bridge
<1>1. CASE Account(g, d) = "denied"
  <2>1. message' = message /\ signed_by' = signed_by /\ meter' = meter BY <1>1 DEF bridge, Metered
  <2>2. BridgeInv'
    BY <1>0, <2>1 DEF BridgeInv, BridgeTypes, SignedInv, BilledInv, FirstInv, MeterInv, NothingLaundered
  <2>3. RecordInv' BY <1>0, <2>2 DEF BridgeInv, MeterInv, RecordInv, HopsAreReal, BillAudits
  <2> QED BY <2>2, <2>3
<1>2. CASE Account(g, d) # "denied"
  <2>1. PICK c : c = message.content OBVIOUS
  <2>2. PICK s : s = message.chain OBVIOUS
  <2>3. PICK a : a = gateway_sign(Key(g), g, c, "sender", 0, hop_seq(s)) OBVIOUS
  <2>4. hop_seq(s) \in Nat BY <1>0, <2>2 DEF hop_seq
  <2>5. /\ a \in Atts /\ a.body.domain = g /\ a.body.digest = c
    <3>1. c \in Contents /\ Key(g) \in Signers BY <1>0, <2>1 DEF Signers
    <3> QED BY ONLY <2>3, <2>4, <3>1, g \in Gateways, Signs
  <2>6. PICK e : e = Event(g, dir, d, Account(g, d)) OBVIOUS
  <2>7. /\ e.gateway = g /\ e.digest = c /\ e.domain = d /\ e.account = Account(g, d) /\ e \in Events
    BY <1>0, <2>1, <2>6 DEF Event, Events, msg_digest
  <2>8. /\ message' = [message EXCEPT !.chain = Append(s, a)] /\ meter' = Append(meter, e)
        /\ signed_by' = signed_by \cup {<<g, c, "bridge">>}
    BY <1>2, <2>1, <2>2, <2>3, <2>5, <2>6 DEF bridge, Metered, chain_append, msg_digest
  <2>9. message' = [content |-> c, chain |-> Append(s, a)] BY <1>0, <2>1, <2>2, <2>8
  <2>10. message'.content = c /\ message'.chain = Append(s, a) BY <2>9
  <2>11. s \in Seq(Atts) /\ Append(s, a) \in Seq(Atts) /\ Append(meter, e) \in Seq(Events)
    BY <1>0, <2>2, <2>5, <2>7
  <2>12. /\ DOMAIN Append(s, a) = DOMAIN s \cup {Len(s) + 1} /\ Len(s) + 1 \notin DOMAIN s
         /\ Append(s, a)[Len(s) + 1] = a /\ \A i \in DOMAIN s : Append(s, a)[i] = s[i]
    BY <2>5, <2>11
  <2>13. /\ DOMAIN meter' = DOMAIN meter \cup {Len(meter) + 1} /\ Len(meter) + 1 \notin DOMAIN meter
         /\ meter'[Len(meter) + 1] = e /\ \A i \in DOMAIN meter : meter'[i] = meter[i]
    BY <1>0, <2>7, <2>8
  <2>14. BridgeTypes' BY <1>0, <2>1, <2>8, <2>9, <2>10, <2>11 DEF BridgeTypes
  <2>15. SignedInv'
    <3>1. ASSUME NEW i \in DOMAIN s, Genuine(s[i])
          PROVE  \E where \in {"entry", "bridge"} : <<s[i].body.domain, s[i].body.digest, where>> \in signed_by'
      BY <2>2, <2>8, <3>1 DEF BridgeInv, SignedInv
    <3>2. <<a.body.domain, a.body.digest, "bridge">> \in signed_by' BY <2>5, <2>8
    <3>3. ASSUME NEW i \in DOMAIN Append(s, a), Genuine(Append(s, a)[i])
          PROVE  \E where \in {"entry", "bridge"} :
                     <<Append(s, a)[i].body.domain, Append(s, a)[i].body.digest, where>> \in signed_by'
      <4>1. CASE i \in DOMAIN s BY <2>12, <3>1, <3>3, <4>1
      <4>2. CASE i = Len(s) + 1 BY <2>12, <3>2, <4>2
      <4> QED BY <2>12, <4>1, <4>2
    <3> QED BY <2>10, <3>3 DEF SignedInv
  <2>16. PICK b : BilledBy(b, s, meter) BY <2>2 DEF BridgeInv, BilledInv
  <2>17. PICK f : f = [i \in DOMAIN s \cup {Len(s) + 1} |-> IF i \in DOMAIN s THEN b[i] ELSE Len(meter) + 1] OBVIOUS
  <2>18. BilledBy(f, Append(s, a), meter')
    <3>1. (\A i \in DOMAIN s : f[i] = b[i]) /\ f[Len(s) + 1] = Len(meter) + 1 BY <2>12, <2>17
    <3>2. \A i \in DOMAIN s : Hop(s[i]) => f[i] \in DOMAIN meter BY <2>16, <3>1 DEF BilledBy
    <3> QED BY <2>5, <2>7, <2>12, <2>13, <2>16, <3>1, <3>2 DEF BilledBy
  <2>19. BilledInv' BY <2>10, <2>18 DEF BilledInv
  <2>20. MeterInv' BY <2>7, <2>8, <2>13 DEF BridgeInv, MeterInv
  <2>21. NothingLaundered' BY <1>0, <2>8 DEF BridgeInv, NothingLaundered
  <2>22. FirstInv' BY <1>0 DEF FirstInv
  <2>23. RecordInv' BY <1>0, <2>20 DEF MeterInv, RecordInv, HopsAreReal, BillAudits
  <2> QED BY <2>14, <2>15, <2>19, <2>20, <2>21, <2>22, <2>23 DEF BridgeInv
<1> QED BY <1>1, <1>2

\* On the way: what is there of the chain was there before, or is a forgery.
LEMMA TamperKeeps ==
    ASSUME BridgeInv, NEW c \in Contents, NEW s \in Seq(Atts),
           message' = [content |-> c, chain |-> s], place = "mesh",
           UNCHANGED <<place, meter, signed_by, written>>,
           NEW old, \A i \in DOMAIN s : Genuine(s[i]) => old[i] \in DOMAIN message.chain /\ s[i] = message.chain[old[i]],
           \A i, j \in DOMAIN s : Genuine(s[i]) /\ Genuine(s[j]) /\ old[i] = old[j] => i = j
    PROVE  BridgeInv' /\ RecordInv'
<1>1. message'.content = c /\ message'.chain = s OBVIOUS
<1>2. BridgeTypes' BY <1>1 DEF BridgeInv, BridgeTypes
<1>3. SignedInv' BY <1>1 DEF BridgeInv, SignedInv
<1>4. PICK b : BilledBy(b, message.chain, meter) BY DEF BridgeInv, BilledInv
<1>5. PICK f : f = [i \in DOMAIN s |-> b[old[i]]] OBVIOUS
<1>6. BilledBy(f, s, meter) BY <1>4, <1>5 DEF BilledBy, Hop
<1>7. BilledInv' BY <1>1, <1>6 DEF BilledInv
<1>8. FirstInv' BY DEF FirstInv
<1>9. MeterInv' BY DEF BridgeInv, MeterInv
<1>10. NothingLaundered' BY DEF BridgeInv, NothingLaundered
<1>11. RecordInv' BY <1>9 DEF MeterInv, RecordInv, HopsAreReal, BillAudits
<1> QED BY <1>2, <1>3, <1>7, <1>8, <1>9, <1>10, <1>11 DEF BridgeInv

LEMMA CarriersKeep ==
    ASSUME BridgeInv, Tamper
    PROVE  BridgeInv' /\ RecordInv'
<1>0. /\ message.content \in Contents /\ message.chain \in Seq(Atts)
      /\ message = [content |-> message.content, chain |-> message.chain]
      /\ place = "mesh" /\ UNCHANGED <<place, meter, signed_by, written>>
  BY DEF BridgeInv, BridgeTypes, Tamper
<1>1. PICK c, s : c = message.content /\ s = message.chain OBVIOUS
<1>2. s \in Seq(Atts) /\ c \in Contents /\ message = [content |-> c, chain |-> s] BY <1>0, <1>1
<1>3. ASSUME NEW k \in Contents, message' = [content |-> k, chain |-> s] PROVE BridgeInv' /\ RecordInv'
  <2>1. PICK old : old = [i \in DOMAIN s |-> i] OBVIOUS
  <2>2. \A i \in DOMAIN s : old[i] = i BY <2>1
  <2> QED BY <1>0, <1>1, <1>2, <1>3, <2>2, TamperKeeps
<1>4. CASE \E b \in Bodies : message' = [message EXCEPT !.content.body = b]
  <2>1. PICK b \in Bodies : message' = [message EXCEPT !.content.body = b] BY <1>4
  <2>2. message' = [content |-> [c EXCEPT !.body = b], chain |-> s] BY <1>2, <2>1
  <2>3. [c EXCEPT !.body = b] \in Contents BY <1>2 DEF Contents
  <2> QED BY <1>3, <2>2, <2>3
<1>5. CASE \E h \in SUBSET Claims : message' = [message EXCEPT !.content.head = h]
  <2>1. PICK h \in SUBSET Claims : message' = [message EXCEPT !.content.head = h] BY <1>5
  <2>2. message' = [content |-> [c EXCEPT !.head = h], chain |-> s] BY <1>2, <2>1
  <2>3. [c EXCEPT !.head = h] \in Contents BY <1>2 DEF Contents
  <2> QED BY <1>3, <2>2, <2>3
<1>6. CASE \E i \in DOMAIN message.chain : message' = [message EXCEPT !.chain = Drop(@, i)]
  <2>1. PICK i \in DOMAIN s : message' = [message EXCEPT !.chain = Drop(s, i)] BY <1>1, <1>6
  <2>2. message' = [content |-> c, chain |-> Drop(s, i)] BY <1>2, <2>1
  <2>3. PICK old : old = [k \in 1..(Len(s) - 1) |-> IF k < i THEN k ELSE k + 1] OBVIOUS
  <2>4. DOMAIN s = 1..Len(s) /\ Len(s) \in Nat /\ \A k \in 1..Len(s) : s[k] \in Atts BY <1>2
  <2>5. /\ \A k \in 1..(Len(s) - 1) : old[k] \in DOMAIN s /\ Drop(s, i)[k] = s[old[k]] /\ Drop(s, i)[k] \in Atts
        /\ \A k, j \in 1..(Len(s) - 1) : old[k] = old[j] => k = j
    BY <2>3, <2>4 DEF Drop
  <2>6. Drop(s, i) \in Seq(Atts) /\ DOMAIN Drop(s, i) = 1..(Len(s) - 1)
    <3>1. Len(s) - 1 \in Nat BY <2>4
    <3>2. DOMAIN Drop(s, i) = 1..(Len(s) - 1) BY DEF Drop
    <3>3. Drop(s, i) = [k \in 1..(Len(s) - 1) |-> Drop(s, i)[k]] BY DEF Drop
    <3>4. Drop(s, i) \in [1..(Len(s) - 1) -> Atts] BY <2>5, <3>3
    <3> QED BY <3>1, <3>2, <3>4, SeqDef
  <2>7. PICK t : t = Drop(s, i) OBVIOUS
  <2>8. /\ t \in Seq(Atts) /\ message' = [content |-> c, chain |-> t]
        /\ \A k \in DOMAIN t : Genuine(t[k]) => old[k] \in DOMAIN message.chain /\ t[k] = message.chain[old[k]]
        /\ \A k, j \in DOMAIN t : Genuine(t[k]) /\ Genuine(t[j]) /\ old[k] = old[j] => k = j
    BY <1>1, <2>2, <2>5, <2>6, <2>7
  <2>9. BridgeInv /\ c \in Contents /\ place = "mesh" /\ UNCHANGED <<place, meter, signed_by, written>> BY <1>0, <1>2
  <2> QED BY ONLY <2>8, <2>9, TamperKeeps
<1>7. CASE \E g \in Gateways : message' = [message EXCEPT !.chain = Append(@,
             gateway_sign(<<"key", "carrier">>, g, msg_digest(message.content), "sender", 0, 0))]
  <2>1. PICK g \in Gateways : message' = [message EXCEPT !.chain = Append(s,
             gateway_sign(<<"key", "carrier">>, g, c, "sender", 0, 0))]
    BY <1>1, <1>7 DEF msg_digest
  <2>2. PICK a : a = gateway_sign(<<"key", "carrier">>, g, c, "sender", 0, 0) OBVIOUS
  <2>3. a \in Atts /\ ~Genuine(a) BY <1>2, <2>2, Signs, CarrierIsNobody DEF Signers
  <2>4. message' = [content |-> c, chain |-> Append(s, a)] BY <1>2, <2>1, <2>2
  <2>5. PICK old : old = [i \in DOMAIN s |-> i] OBVIOUS
  <2>6. \A i \in DOMAIN s : old[i] = i BY <2>5
  <2>7. /\ Append(s, a) \in Seq(Atts) /\ DOMAIN Append(s, a) = DOMAIN s \cup {Len(s) + 1}
        /\ Append(s, a)[Len(s) + 1] = a /\ \A i \in DOMAIN s : Append(s, a)[i] = s[i]
    BY <1>2, <2>3
  <2>8. \A i \in DOMAIN Append(s, a) : Genuine(Append(s, a)[i]) => i \in DOMAIN s BY <2>3, <2>7
  <2>9. PICK t : t = Append(s, a) OBVIOUS
  <2>10. /\ t \in Seq(Atts) /\ message' = [content |-> c, chain |-> t]
         /\ \A k \in DOMAIN t : Genuine(t[k]) => old[k] \in DOMAIN message.chain /\ t[k] = message.chain[old[k]]
         /\ \A k, j \in DOMAIN t : Genuine(t[k]) /\ Genuine(t[j]) /\ old[k] = old[j] => k = j
    BY <1>1, <2>4, <2>6, <2>7, <2>8, <2>9
  <2>11. BridgeInv /\ c \in Contents /\ place = "mesh" /\ UNCHANGED <<place, meter, signed_by, written>> BY <1>0, <1>2
  <2> QED BY ONLY <2>10, <2>11, TamperKeeps
<1> QED BY <1>4, <1>5, <1>6, <1>7 DEF Tamper

\* What verifies was made by its gateway, over these bytes.
LEMMA VerifiedIsGenuine ==
    ASSUME NEW a \in Atts, Verifies(a)
    PROVE  Genuine(a) /\ a.body.digest = msg_digest(message.content)
BY AttFields DEF Verifies, gateway_verify, Genuine, Published, Key

LEMMA ReceiveKeeps ==
    ASSUME BridgeInv, receive
    PROVE  BridgeInv' /\ RecordInv'
<1>0. /\ UNCHANGED <<message, meter, signed_by, written>> /\ place' = "recipient" /\ message.chain \in Seq(Atts)
      /\ meter \in Seq(Events)
  BY DEF receive, BridgeInv, BridgeTypes
<1>1. BridgeInv'
  BY <1>0 DEF BridgeInv, BridgeTypes, SignedInv, BilledInv, FirstInv, MeterInv, NothingLaundered
<1>2. PICK s : s = message.chain OBVIOUS
<1>3. PICK kept : /\ kept \in InOrder({i \in DOMAIN s : Verifies(s[i])})
                  /\ record' = assemble([k \in DOMAIN kept |-> s[kept[k]]])
  BY <1>2 DEF receive
<1>4. PICK N : N = DOMAIN kept OBVIOUS
<1>5. /\ \A k \in N : kept[k] \in DOMAIN s /\ Verifies(s[kept[k]])
      /\ \A i, j \in N : i < j => kept[i] < kept[j]
      /\ N \subseteq Int /\ N = 1..Cardinality({i \in DOMAIN s : Verifies(s[i])})
  BY <1>3, <1>4 DEF InOrder
<1>6. PICK gs : gs = [k \in N |-> s[kept[k]]] OBVIOUS
<1>7. record'.gateways = gs /\ from_det_cbor(record)' BY <1>3, <1>4, <1>6 DEF assemble, from_det_cbor
<1>8. \A k \in N : s[kept[k]] \in Atts BY <1>0, <1>2, <1>5
<1>9. ASSUME NEW k \in N
      PROVE  /\ gs[k] = s[kept[k]] /\ Genuine(gs[k]) /\ gs[k].body.digest = msg_digest(message.content)
  BY <1>5, <1>6, <1>8, VerifiedIsGenuine
<1>10. DOMAIN gs = N BY <1>6
<1>11. HopsAreReal'
  <2>1. ASSUME NEW k \in N
        PROVE  \E where \in {"entry", "bridge"} :
                   <<gs[k].body.domain, msg_digest(message.content), where>> \in signed_by
    BY <1>2, <1>5, <1>9 DEF BridgeInv, SignedInv
  <2>2. msg_digest(message.content)' = msg_digest(message.content) BY <1>0 DEF msg_digest
  <2> QED BY <1>0, <1>7, <1>10, <2>1, <2>2 DEF HopsAreReal
<1>12. PICK b : BilledBy(b, s, meter) BY <1>2 DEF BridgeInv, BilledInv
<1>13. ASSUME NEW g \in Gateways, NEW hops, NEW bills,
              hops = {k \in N : gs[k].body.domain = g /\ gs[k].body.seq > 0},
              bills = {i \in DOMAIN meter : meter[i].gateway = g /\ meter[i].digest = msg_digest(message.content)}
       PROVE  Cardinality(hops) <= Cardinality(bills)
  <2>1. PICK f : f = [k \in hops |-> b[kept[k]]] OBVIOUS
  <2>2. \A k \in hops : k \in N /\ kept[k] \in DOMAIN s /\ Hop(s[kept[k]]) /\ f[k] = b[kept[k]]
    BY <1>5, <1>9, <1>13, <2>1 DEF Hop
  <2>3. \A k \in hops : f[k] \in bills BY <1>9, <1>12, <1>13, <2>2 DEF BilledBy
  <2>4. \A k, j \in hops : f[k] = f[j] => kept[k] = kept[j] BY <1>12, <2>2 DEF BilledBy
  <2>5. \A k, j \in hops : kept[k] = kept[j] => k = j
    <3>1. \A k \in hops : kept[k] \in Int BY <1>0, <1>2, <2>2
    <3>2. \A k, j \in hops : k \in Int /\ j \in Int /\ (k < j => kept[k] < kept[j]) /\ (j < k => kept[j] < kept[k])
      BY <1>5, <2>2
    <3> QED BY <3>1, <3>2
  <2>6. f \in Injection(hops, bills) BY <2>1, <2>3, <2>4, <2>5 DEF Injection, IsInjective
  <2>7. IsFiniteSet(bills)
    <3>1. IsFiniteSet(1..Len(meter)) /\ bills \in SUBSET (1..Len(meter)) BY <1>0, <1>13, FS_Interval
    <3> QED BY <3>1, FS_Subset
  <2> QED BY <2>6, <2>7, FS_Injection
<1>14. BillAudits'
  <2>1. ASSUME NEW g \in Gateways
        PROVE  (LET hops == {i \in DOMAIN record.gateways :
                                record.gateways[i].body.domain = g /\ record.gateways[i].body.seq > 0}
                    bills == {i \in DOMAIN meter : meter[i].gateway = g
                                                    /\ meter[i].digest = msg_digest(message.content)}
                IN  Cardinality(hops) <= Cardinality(bills))'
    BY <1>0, <1>7, <1>10, <1>13 DEF msg_digest
  <2> QED BY <1>1, <2>1 DEF BridgeInv, MeterInv, BillAudits
<1> QED BY <1>1, <1>11, <1>14 DEF RecordInv

LEMMA BridgeNextInv == BridgeInv /\ RecordInv /\ [BridgeNext]_bridgeVars => (BridgeInv /\ RecordInv)'
<1> SUFFICES ASSUME BridgeInv, RecordInv, [BridgeNext]_bridgeVars PROVE (BridgeInv /\ RecordInv)' OBVIOUS
<1>1. CASE UNCHANGED bridgeVars
  <2>1. BridgeInv'
    BY <1>1 DEF bridgeVars, BridgeInv, BridgeTypes, SignedInv, BilledInv, FirstInv, MeterInv, NothingLaundered
  <2>2. RecordInv' BY <1>1 DEF bridgeVars, RecordInv, HopsAreReal, BillAudits, msg_digest, from_det_cbor
  <2> QED BY <2>1, <2>2
<1> QED BY <1>1, EntryKeeps, HopKeeps, CarriersKeep, ReceiveKeeps DEF BridgeNext

\* provenance.rs, inbound.rs: whatever carriers do on the way, a hop the recipient keeps
\* was attested by its gateway over the bytes it got, every hop past the first is on a
\* bill of its own, and what the entry attests has no claim of the sender in its head.
THEOREM ProvenanceIsSound == BridgeSpec => []ProvenanceSound
<1>1. BridgeInv /\ RecordInv => ProvenanceSound BY DEF BridgeInv, RecordInv, ProvenanceSound
<1> QED BY <1>1, BridgeInitInv, BridgeNextInv, PTL DEF BridgeSpec


-----------------------------------------------------------------------------
(***************************************************************************)
(* Forwarded addresses.  Escaping and scanning are loops; each is followed *)
(* step by step.  While the escaped text of a part is scanned, the scan    *)
(* holds what of the part was escaped so far (ScanPiece), so that the      *)
(* joined text is scanned into the two parts it was joined from.           *)
(***************************************************************************)

\* The texts escape_into passes through, one per character read.
Escapes(out, s) == out = [i \in 0..Len(s) |-> IF i = 0 THEN <<>> ELSE Pushed(out[i - 1], s[i])]

LEMMA Appends ==
    ASSUME NEW t \in Seq(Alphabet), NEW c \in Alphabet
    PROVE  /\ Append(t, c) \in Seq(Alphabet) /\ Len(Append(t, c)) = Len(t) + 1 /\ Len(t) \in Nat
           /\ \A k \in 1..Len(t) : Append(t, c)[k] = t[k]
           /\ Append(t, c)[Len(t) + 1] = c
BY AppendProperties

\* One more character: the two cases, with what becomes of the places.
Pushes(t, c, u) ==
    /\ u \in Seq(Alphabet) /\ \A k \in 1..Len(t) : u[k] = t[k]
    /\ IF c \in {"-", "."} THEN Len(u) = Len(t) + 2 /\ u[Len(t) + 1] = "-" /\ u[Len(t) + 2] = c
                           ELSE Len(u) = Len(t) + 1 /\ u[Len(t) + 1] = c
LEMMA PushedIs ==
    ASSUME NEW t \in Seq(Alphabet), NEW c \in Alphabet PROVE Pushes(t, c, Pushed(t, c))
<1>1. CASE c \in {"-", "."}
  <2>0. "-" \in Alphabet BY ForwardAssumption
  <2>1. PICK v \in Seq(Alphabet) : v = Append(t, "-") BY <2>0, Appends
  <2>2. Len(v) = Len(t) + 1 /\ Len(t) \in Nat /\ v[Len(t) + 1] = "-" /\ \A k \in 1..Len(t) : v[k] = t[k]
    BY <2>1, Appends
  <2>3. PICK u \in Seq(Alphabet) : u = Append(v, c) BY Appends
  <2>4. Len(u) = Len(v) + 1 /\ u[Len(v) + 1] = c /\ \A k \in 1..Len(v) : u[k] = v[k] BY <2>3, Appends
  <2>5. u[Len(t) + 1] = "-" /\ u[Len(t) + 2] = c /\ Len(u) = Len(t) + 2 /\ \A k \in 1..Len(t) : u[k] = t[k]
    BY <2>2, <2>4
  <2>6. Pushed(t, c) = u BY <1>1, <2>1, <2>3 DEF Pushed
  <2> QED BY <1>1, <2>5, <2>6 DEF Pushes
<1>2. CASE c \notin {"-", "."}
  <2>1. Pushed(t, c) = Append(t, c) BY <1>2 DEF Pushed
  <2> QED BY <1>2, <2>1, Appends DEF Pushes
<1> QED BY <1>1, <1>2

LEMMA PushedType == ASSUME NEW t \in Seq(Alphabet), NEW c \in Alphabet PROVE Pushed(t, c) \in Seq(Alphabet)
BY PushedIs DEF Pushes

LEMMA EscapeIs ==
    ASSUME NEW s \in Seq(Alphabet)
    PROVE  \E out : Escapes(out, s) /\ escape_into(s) = out[Len(s)]
<1> DEFINE n == Len(s)
<1> DEFINE step == [x \in Seq(Alphabet) \X (1..n) |-> Pushed(x[1], s[x[2]])]
<1>1. n \in Nat /\ \A i \in 1..n : s[i] \in Alphabet OBVIOUS
<1>2. step \in [Seq(Alphabet) \X (1..n) -> Seq(Alphabet)] BY <1>1, PushedType
<1>3. \A t \in Seq(Alphabet), i \in 1..n : step[<<t, i>>] = Pushed(t, s[i]) OBVIOUS
<1> HIDE DEF step
<1>4. << >> \in Seq(Alphabet) OBVIOUS
<1>5. PICK f \in [0..n -> Seq(Alphabet)] : Iterated(f, << >>, step, n) BY <1>1, <1>2, <1>4, Iterates
<1>6. f[0] = << >> /\ \A i \in 1..n : f[i] = Pushed(f[i - 1], s[i])
  <2>1. \A i \in 1..n : f[i - 1] \in Seq(Alphabet) BY <1>1
  <2> QED BY <1>3, <1>5, <2>1 DEF Iterated
<1>7. Escapes(f, s) 
  <2>1. f = [i \in 0..n |-> f[i]] OBVIOUS
  <2>2. \A i \in 0..n : f[i] = IF i = 0 THEN << >> ELSE Pushed(f[i - 1], s[i]) BY <1>1, <1>6
  <2> QED BY <2>1, <2>2 DEF Escapes
<1>8. PICK g : g = CHOOSE out : Escapes(out, s) OBVIOUS
<1>9. Escapes(g, s) BY <1>7, <1>8
<1>10. escape_into(s) = (CHOOSE out : Escapes(out, s))[Len(s)] BY Zenon DEF escape_into, Escapes
<1> QED BY <1>8, <1>9, <1>10

LEMMA EscapedParts ==
    ASSUME NEW s \in Seq(Alphabet), NEW out, Escapes(out, s)
    PROVE  /\ out[0] = << >>
           /\ \A i \in 0..Len(s) : out[i] \in Seq(Alphabet)
           /\ \A i \in 1..Len(s) : Pushes(out[i - 1], s[i], out[i])
<1> DEFINE n == Len(s)
<1> DEFINE S == {i \in 0..n : out[i] \in Seq(Alphabet)}
<1>1. n \in Nat /\ \A i \in 1..n : s[i] \in Alphabet OBVIOUS
<1>2. out[0] = << >> /\ \A i \in 1..n : out[i] = Pushed(out[i - 1], s[i]) BY <1>1 DEF Escapes
<1>3. 0 \in S
  <2>1. << >> \in Seq(Alphabet) OBVIOUS
  <2>2. out[0] \in Seq(Alphabet) BY <1>2, <2>1, Zenon
  <2>3. 0 \in 0..n BY <1>1
  <2> QED BY <2>2, <2>3, Zenon
<1>4. ASSUME NEW i \in 0..n, i < n, i \in S PROVE i + 1 \in S
  <2>1. i + 1 \in 1..n /\ (i + 1) - 1 = i BY <1>4
  <2>2. out[i + 1] = Pushed(out[i], s[i + 1]) BY <1>2, <2>1
  <2>3. out[i] \in Seq(Alphabet) /\ s[i + 1] \in Alphabet BY <1>1, <1>4, <2>1
  <2>4. out[i + 1] \in Seq(Alphabet) BY <2>2, <2>3, PushedType
  <2> QED BY <2>1, <2>4
<1>5. \A i \in 0..n : i \in S
  <2> HIDE DEF S
  <2> QED BY <1>1, <1>3, <1>4, Climbs
<1>6. ASSUME NEW i \in 1..n PROVE Pushes(out[i - 1], s[i], out[i])
  <2>1. i - 1 \in 0..n BY <1>1
  <2>2. out[i - 1] \in Seq(Alphabet) BY <1>5, <2>1
  <2> QED BY <1>1, <1>2, <2>2, PushedIs
<1> QED BY <1>2, <1>5, <1>6

\* In what was escaped a dot follows a dash, and no capital has appeared.
DotsEscaped(t) == \A k \in 1..Len(t) : t[k] = "." => k > 1 /\ t[k - 1] = "-"
NoCapital(t) == \A k \in 1..Len(t) : t[k] # "A"

LEMMA PushKeeps ==
    ASSUME NEW t \in Seq(Alphabet), NEW c \in Alphabet, NEW u, Pushes(t, c, u)
    PROVE  /\ DotsEscaped(t) => DotsEscaped(u)
           /\ NoCapital(t) /\ c # "A" => NoCapital(u)
           /\ Len(u) > Len(t) /\ u[Len(u)] = c /\ Len(u) \in Nat /\ Len(t) \in Nat
<1>1. Len(t) \in Nat /\ Len(u) \in Nat BY DEF Pushes
<1>2. CASE c \in {"-", "."} 
  <2>1. /\ Len(u) = Len(t) + 2 /\ u[Len(t) + 1] = "-" /\ u[Len(t) + 2] = c
        /\ \A k \in 1..Len(t) : u[k] = t[k]
    BY <1>2 DEF Pushes
  <2>2. \A k \in 1..Len(u) : k \in 1..Len(t) \/ k = Len(t) + 1 \/ k = Len(t) + 2 BY <1>1, <2>1
  <2>3. ASSUME DotsEscaped(t), NEW k \in 1..Len(u), u[k] = "." PROVE k > 1 /\ u[k - 1] = "-"
    <3>1. CASE k \in 1..Len(t)
      <4>1. k > 1 /\ t[k - 1] = "-" BY <2>1, <2>3, <3>1 DEF DotsEscaped
      <4>2. k - 1 \in 1..Len(t) BY <1>1, <3>1, <4>1
      <4> QED BY <2>1, <4>1, <4>2
    <3>2. CASE k = Len(t) + 2
      <4>1. k - 1 = Len(t) + 1 /\ k > 1 BY <1>1, <3>2
      <4> QED BY <2>1, <4>1
    <3> QED BY <2>1, <2>2, <2>3, <3>1, <3>2
  <2>4. ASSUME NoCapital(t), NEW k \in 1..Len(u) PROVE u[k] # "A"
    BY <1>2, <2>1, <2>2, <2>4 DEF NoCapital
  <2> QED BY <1>1, <2>1, <2>3, <2>4 DEF DotsEscaped, NoCapital
<1>3. CASE c \notin {"-", "."}
  <2>1. /\ Len(u) = Len(t) + 1 /\ u[Len(t) + 1] = c /\ \A k \in 1..Len(t) : u[k] = t[k]
    BY <1>3 DEF Pushes
  <2>2. \A k \in 1..Len(u) : k \in 1..Len(t) \/ k = Len(t) + 1 BY <1>1, <2>1
  <2>3. ASSUME DotsEscaped(t), NEW k \in 1..Len(u), u[k] = "." PROVE k > 1 /\ u[k - 1] = "-"
    <3>1. k \in 1..Len(t) BY <1>3, <2>1, <2>2, <2>3
    <3>2. k > 1 /\ t[k - 1] = "-" BY <2>1, <2>3, <3>1 DEF DotsEscaped
    <3>3. k - 1 \in 1..Len(t) BY <1>1, <3>1, <3>2
    <3> QED BY <2>1, <3>2, <3>3
  <2>4. ASSUME NoCapital(t), c # "A", NEW k \in 1..Len(u) PROVE u[k] # "A"
    BY <2>1, <2>2, <2>4 DEF NoCapital
  <2> QED BY <1>1, <2>1, <2>3, <2>4 DEF DotsEscaped, NoCapital
<1> QED BY <1>2, <1>3

LEMMA EscapedText ==
    ASSUME NEW s \in Seq(Alphabet), NEW out, Escapes(out, s)
    PROVE  \A i \in 0..Len(s) : /\ out[i] \in Seq(Alphabet) /\ DotsEscaped(out[i])
                                /\ NoCapital(s) => NoCapital(out[i])
                                /\ i > 0 => Len(out[i]) > 0 /\ out[i][Len(out[i])] = s[i]
<1> DEFINE n == Len(s)
<1> DEFINE S == {i \in 0..n : DotsEscaped(out[i]) /\ (NoCapital(s) => NoCapital(out[i]))}
<1>1. n \in Nat /\ \A i \in 1..n : s[i] \in Alphabet OBVIOUS
<1>2. /\ out[0] = << >> /\ \A i \in 0..n : out[i] \in Seq(Alphabet)
      /\ \A i \in 1..n : Pushes(out[i - 1], s[i], out[i])
  BY EscapedParts
<1>3. 0 \in S BY <1>1, <1>2 DEF DotsEscaped, NoCapital
<1>4. ASSUME NEW i \in 0..n, i < n PROVE Pushes(out[i], s[i + 1], out[i + 1])
  <2>1. i + 1 \in 1..n /\ (i + 1) - 1 = i BY <1>4
  <2> QED BY <1>2, <2>1
<1>5. ASSUME NEW i \in 0..n, i < n, i \in S PROVE i + 1 \in S
  <2>1. i + 1 \in 1..n /\ s[i + 1] \in Alphabet /\ out[i] \in Seq(Alphabet) BY <1>1, <1>2, <1>5
  <2>2. Pushes(out[i], s[i + 1], out[i + 1]) BY <1>4, <1>5
  <2>3. DotsEscaped(out[i + 1]) BY <1>5, <2>1, <2>2, PushKeeps
  <2>4. ASSUME NoCapital(s) PROVE NoCapital(out[i + 1])
    <3>1. s[i + 1] # "A" /\ NoCapital(out[i]) BY <1>5, <2>1, <2>4 DEF NoCapital
    <3> QED BY <2>1, <2>2, <3>1, PushKeeps
  <2> QED BY <2>1, <2>3, <2>4
<1>6. \A i \in 0..n : i \in S
  <2> HIDE DEF S
  <2> QED BY <1>1, <1>3, <1>5, Climbs
<1>7. ASSUME NEW i \in 0..n, i > 0 PROVE Len(out[i]) > 0 /\ out[i][Len(out[i])] = s[i]
  <2>1. i - 1 \in 0..n /\ i \in 1..n BY <1>1, <1>7
  <2>2. Pushes(out[i - 1], s[i], out[i]) /\ out[i - 1] \in Seq(Alphabet) /\ s[i] \in Alphabet
    BY <1>1, <1>2, <2>1
  <2> QED BY <2>2, PushKeeps
<1> QED BY <1>2, <1>6, <1>7

\* What was pushed stays where it is.
LEMMA EscapedPrefix ==
    ASSUME NEW s \in Seq(Alphabet), NEW out, Escapes(out, s)
    PROVE  \A m \in 0..Len(s) : \A i \in 0..m :
             Len(out[i]) <= Len(out[m]) /\ \A k \in 1..Len(out[i]) : out[m][k] = out[i][k]
<1> DEFINE n == Len(s)
<1> DEFINE P(m) == \A i \in 0..m :
             Len(out[i]) <= Len(out[m]) /\ \A k \in 1..Len(out[i]) : out[m][k] = out[i][k]
<1> DEFINE S == {m \in 0..n : P(m)}
<1>1. n \in Nat /\ \A i \in 1..n : s[i] \in Alphabet OBVIOUS
<1>2. /\ \A i \in 0..n : out[i] \in Seq(Alphabet) /\ Len(out[i]) \in Nat
      /\ \A i \in 1..n : Pushes(out[i - 1], s[i], out[i])
  <2>1. /\ out[0] = << >> /\ \A i \in 0..n : out[i] \in Seq(Alphabet)
        /\ \A i \in 1..n : Pushes(out[i - 1], s[i], out[i])
    BY EscapedParts, Zenon
  <2>2. \A i \in 0..n : Len(out[i]) \in Nat BY <2>1
  <2> QED BY <2>1, <2>2, Zenon
<1>3. 0 \in S BY <1>1, <1>2
<1>4. ASSUME NEW m \in 0..n, m < n, m \in S PROVE m + 1 \in S
  <2>1. m + 1 \in 1..n /\ (m + 1) - 1 = m /\ s[m + 1] \in Alphabet /\ out[m] \in Seq(Alphabet) BY <1>1, <1>2, <1>4
  <2>2. Pushes(out[m], s[m + 1], out[m + 1]) BY <1>2, <2>1
  <2>3. Len(out[m + 1]) > Len(out[m]) /\ \A k \in 1..Len(out[m]) : out[m + 1][k] = out[m][k]
    BY <2>1, <2>2, PushKeeps DEF Pushes
  <2>4. ASSUME NEW i \in 0..(m + 1)
        PROVE Len(out[i]) <= Len(out[m + 1]) /\ \A k \in 1..Len(out[i]) : out[m + 1][k] = out[i][k]
    <3>1. CASE i = m + 1 BY <1>2, <2>1, <3>1
    <3>2. CASE i \in 0..m
      <4>1. Len(out[i]) <= Len(out[m]) /\ \A k \in 1..Len(out[i]) : out[m][k] = out[i][k] BY <1>4, <3>2
      <4>2. Len(out[i]) \in Nat /\ Len(out[m]) \in Nat /\ Len(out[m + 1]) \in Nat BY <1>2, <2>1, <3>2
      <4> QED BY <2>3, <4>1, <4>2
    <3> QED BY <3>1, <3>2
  <2> QED BY <2>1, <2>4
<1> HIDE DEF S
<1>5. \A m \in 0..n : m \in S BY <1>1, <1>3, <1>4, Climbs
<1> QED BY <1>5 DEF S

-----------------------------------------------------------------------------
(* Scanning.                                                               *)
ScanState == [local : Seq(Alphabet), domain : Seq(Alphabet), split : BOOLEAN, escape : BOOLEAN, bad : BOOLEAN]
ScanStart == [local |-> << >>, domain |-> << >>, split |-> FALSE, escape |-> FALSE, bad |-> FALSE]
Scans(r, s) == r = [i \in 0..Len(s) |-> IF i = 0 THEN ScanStart ELSE Scanned(r[i - 1], s[i])]

ScansTo(r, l, d, sp, es, b, c) ==
    /\ Scanned(r, c) \in ScanState
    /\ es /\ c \in {"-", "."} =>
         Scanned(r, c) = IF sp THEN [local |-> l, domain |-> Append(d, c), split |-> sp, escape |-> FALSE, bad |-> b]
                               ELSE [local |-> Append(l, c), domain |-> d, split |-> sp, escape |-> FALSE, bad |-> b]
    /\ ~es /\ c = "-" => Scanned(r, c) = [local |-> l, domain |-> d, split |-> sp, escape |-> TRUE, bad |-> b]
    /\ ~es /\ c = "." /\ ~sp =>
         Scanned(r, c) = [local |-> l, domain |-> d, split |-> TRUE, escape |-> es, bad |-> b]
    /\ ~es /\ c \notin {"-", "."} =>
         Scanned(r, c) = IF sp THEN [local |-> l, domain |-> Append(d, c), split |-> sp, escape |-> FALSE, bad |-> b]
                               ELSE [local |-> Append(l, c), domain |-> d, split |-> sp, escape |-> FALSE, bad |-> b]
LEMMA ScannedIs ==
    ASSUME NEW l \in Seq(Alphabet), NEW d \in Seq(Alphabet), NEW sp \in BOOLEAN, NEW es \in BOOLEAN,
           NEW b \in BOOLEAN, NEW c \in Alphabet, NEW r,
           r = [local |-> l, domain |-> d, split |-> sp, escape |-> es, bad |-> b]
    PROVE  ScansTo(r, l, d, sp, es, b, c)
<1>1. PICK l1, d1 \in Seq(Alphabet) : l1 = Append(l, c) /\ d1 = Append(d, c) BY Appends
<1>2. PICK q : q = IF sp THEN [local |-> l, domain |-> d1, split |-> sp, escape |-> FALSE, bad |-> b]
                         ELSE [local |-> l1, domain |-> d, split |-> sp, escape |-> FALSE, bad |-> b]
  OBVIOUS
<1>3. q = IF r.split THEN [r EXCEPT !.domain = Append(@, c), !.escape = FALSE]
                     ELSE [r EXCEPT !.local = Append(@, c), !.escape = FALSE]
  BY <1>1, <1>2
<1>4. q \in ScanState BY <1>1, <1>2 DEF ScanState
<1>5. es /\ c \in {"-", "."} => Scanned(r, c) = q BY <1>3 DEF Scanned
<1>6. ~es /\ c = "-" => Scanned(r, c) = [local |-> l, domain |-> d, split |-> sp, escape |-> TRUE, bad |-> b]
  BY DEF Scanned
<1>7. ~es /\ c = "." /\ ~sp => Scanned(r, c) = [local |-> l, domain |-> d, split |-> TRUE, escape |-> es, bad |-> b]
  BY DEF Scanned
<1>8. ~es /\ c \notin {"-", "."} => Scanned(r, c) = q BY <1>3 DEF Scanned
<1>9. Scanned(r, c) \in ScanState
  <2>0. \A x, y, z \in BOOLEAN : [local |-> l, domain |-> d, split |-> x, escape |-> y, bad |-> z] \in ScanState
    BY DEF ScanState
  <2>1. CASE es /\ c \notin {"-", "."}
    <3>1. Scanned(r, c) = [local |-> l, domain |-> d, split |-> sp, escape |-> es, bad |-> TRUE]
      BY <2>1 DEF Scanned
    <3> QED BY <2>0, <3>1
  <2>2. CASE ~es /\ c = "." /\ sp
    <3>1. Scanned(r, c) = [local |-> l, domain |-> d, split |-> sp, escape |-> es, bad |-> TRUE]
      BY <2>2 DEF Scanned
    <3> QED BY <2>0, <3>1
  <2>3. CASE ~es /\ c = "-" BY <1>6, <2>0, <2>3
  <2>4. CASE ~es /\ c = "." /\ ~sp BY <1>7, <2>0, <2>4
  <2>5. CASE (es /\ c \in {"-", "."}) \/ (~es /\ c \notin {"-", "."}) BY <1>4, <1>5, <1>8, <2>5
  <2> QED BY <2>1, <2>2, <2>3, <2>4, <2>5
<1> QED BY <1>1, <1>2, <1>5, <1>6, <1>7, <1>8, <1>9 DEF ScansTo

LEMMA ScannedType == ASSUME NEW r \in ScanState, NEW c \in Alphabet PROVE Scanned(r, c) \in ScanState
<1>1. PICK l \in Seq(Alphabet), d \in Seq(Alphabet), sp \in BOOLEAN, es \in BOOLEAN, b \in BOOLEAN :
        r = [local |-> l, domain |-> d, split |-> sp, escape |-> es, bad |-> b]
  BY DEF ScanState
<1>2. ScansTo(r, l, d, sp, es, b, c) BY <1>1, ScannedIs
<1> QED BY <1>2 DEF ScansTo

LEMMA ScanIs ==
    ASSUME NEW s \in Seq(Alphabet)
    PROVE  \E r : Scans(r, s) /\ Scan(s) = r[Len(s)]
<1> DEFINE n == Len(s)
<1> DEFINE step == [x \in ScanState \X (1..n) |-> Scanned(x[1], s[x[2]])]
<1>1. n \in Nat /\ \A i \in 1..n : s[i] \in Alphabet OBVIOUS
<1>2. step \in [ScanState \X (1..n) -> ScanState] BY <1>1, ScannedType
<1>3. \A t \in ScanState, i \in 1..n : step[<<t, i>>] = Scanned(t, s[i]) OBVIOUS
<1> HIDE DEF step
<1>4. ScanStart \in ScanState BY DEF ScanStart, ScanState
<1>5. PICK f \in [0..n -> ScanState] : Iterated(f, ScanStart, step, n) BY <1>1, <1>2, <1>4, Iterates
<1>6. f[0] = ScanStart /\ \A i \in 1..n : f[i] = Scanned(f[i - 1], s[i])
  <2>1. \A i \in 1..n : f[i - 1] \in ScanState BY <1>1
  <2> QED BY <1>3, <1>5, <2>1 DEF Iterated
<1>7. Scans(f, s)
  <2>1. f = [i \in 0..n |-> f[i]] OBVIOUS
  <2>2. \A i \in 0..n : f[i] = IF i = 0 THEN ScanStart ELSE Scanned(f[i - 1], s[i]) BY <1>1, <1>6
  <2> QED BY <2>1, <2>2 DEF Scans
<1>8. PICK g : g = CHOOSE r : Scans(r, s) OBVIOUS
<1>9. Scans(g, s) BY <1>7, <1>8
<1>10. Scan(s) = (CHOOSE r : Scans(r, s))[Len(s)] BY Zenon DEF Scan, Scans, ScanStart
<1> QED BY <1>8, <1>9, <1>10

Taken(s, i) == [j \in 1..i |-> s[j]]

LEMMA TakenIs ==
    ASSUME NEW s \in Seq(Alphabet)
    PROVE  /\ Taken(s, 0) = << >> /\ Taken(s, Len(s)) = s
           /\ \A i \in 0..Len(s) : Taken(s, i) \in Seq(Alphabet)
           /\ \A i \in 0..Len(s) : i < Len(s) => Append(Taken(s, i), s[i + 1]) = Taken(s, i + 1)
<1>1. Len(s) \in Nat /\ \A i \in 1..Len(s) : s[i] \in Alphabet OBVIOUS
<1>2. \A i \in 0..Len(s) : Taken(s, i) \in Seq(Alphabet) /\ Len(Taken(s, i)) = i BY <1>1 DEF Taken
<1>3. Taken(s, 0) = << >> BY DEF Taken
<1>4. Taken(s, Len(s)) = s BY DEF Taken
<1>5. ASSUME NEW i \in 0..Len(s), i < Len(s) PROVE Append(Taken(s, i), s[i + 1]) = Taken(s, i + 1)
  <2>1. PICK t \in Seq(Alphabet) : t = Taken(s, i) BY <1>2
  <2>2. PICK c \in Alphabet : c = s[i + 1] BY <1>1, <1>5
  <2>3. PICK u \in Seq(Alphabet) : u = Append(t, c) BY Appends
  <2>4. Len(u) = i + 1 /\ u[i + 1] = c /\ \A k \in 1..i : u[k] = t[k] BY <1>2, <2>1, <2>3, Appends
  <2>5. \A k \in 1..i : t[k] = s[k] BY <2>1 DEF Taken
  <2>6. \A k \in 1..(i + 1) : u[k] = s[k] BY <2>2, <2>4, <2>5
  <2>7. DOMAIN u = 1..(i + 1) /\ u = [k \in DOMAIN u |-> u[k]] BY <2>4
  <2>8. u = [k \in 1..(i + 1) |-> s[k]] BY <2>6, <2>7
  <2> QED BY <2>1, <2>2, <2>3, <2>8 DEF Taken
<1> QED BY <1>2, <1>3, <1>4, <1>5

\* The state of the scan that has read x of the part it is in.
Filled(l, x, sp) == IF sp THEN [local |-> l, domain |-> x, split |-> TRUE, escape |-> FALSE, bad |-> FALSE]
                          ELSE [local |-> x, domain |-> << >>, split |-> FALSE, escape |-> FALSE, bad |-> FALSE]

LEMMA ScanPush ==
    ASSUME NEW l \in Seq(Alphabet), NEW x \in Seq(Alphabet), NEW sp \in BOOLEAN, NEW c \in Alphabet
    PROVE  /\ c \notin {"-", "."} => Scanned(Filled(l, x, sp), c) = Filled(l, Append(x, c), sp)
           /\ c \in {"-", "."} => Scanned(Scanned(Filled(l, x, sp), "-"), c) = Filled(l, Append(x, c), sp)
<1> DEFINE rec(a, b, e) == [local |-> a, domain |-> b, split |-> sp, escape |-> e, bad |-> FALSE]
<1>1. PICK a \in Seq(Alphabet), b \in Seq(Alphabet) : a = (IF sp THEN l ELSE x) /\ b = (IF sp THEN x ELSE << >>)
  <2>1. << >> \in Seq(Alphabet) OBVIOUS
  <2> QED BY <2>1
<1>2. "-" \in Alphabet BY ForwardAssumption
<1>3. PICK r : r = rec(a, b, FALSE) OBVIOUS
<1>4. PICK q : q = rec(a, b, TRUE) OBVIOUS
<1>5. Filled(l, x, sp) = r BY <1>1, <1>3 DEF Filled
<1>6. Scanned(r, "-") = q
  <2>1. ScansTo(r, a, b, sp, FALSE, FALSE, "-") BY <1>2, <1>3, ScannedIs
  <2> QED BY <1>4, <2>1 DEF ScansTo
<1>7. Filled(l, Append(x, c), sp) = IF sp THEN rec(a, Append(b, c), FALSE) ELSE rec(Append(a, c), b, FALSE)
  BY <1>1 DEF Filled
<1>8. ASSUME c \notin {"-", "."}
      PROVE  Scanned(r, c) = IF sp THEN rec(a, Append(b, c), FALSE) ELSE rec(Append(a, c), b, FALSE)
  <2>1. ScansTo(r, a, b, sp, FALSE, FALSE, c) BY <1>3, ScannedIs
  <2> QED BY <1>8, <2>1 DEF ScansTo
<1>9. ASSUME c \in {"-", "."}
      PROVE  Scanned(q, c) = IF sp THEN rec(a, Append(b, c), FALSE) ELSE rec(Append(a, c), b, FALSE)
  <2>1. ScansTo(q, a, b, sp, TRUE, FALSE, c) BY <1>4, ScannedIs
  <2> QED BY <1>9, <2>1 DEF ScansTo
<1> QED BY <1>5, <1>6, <1>7, <1>8, <1>9

Lies(w, off, t) == off + Len(t) <= Len(w) /\ \A k \in 1..Len(t) : w[off + k] = t[k]

\* A scan that meets an escaped text at the start of a part has read that text behind it.
LEMMA ScanPiece ==
    ASSUME NEW s \in Seq(Alphabet), NEW out, Escapes(out, s), NEW w \in Seq(Alphabet), NEW r, Scans(r, w),
           NEW off \in Nat, Lies(w, off, out[Len(s)]),
           NEW l \in Seq(Alphabet), NEW sp \in BOOLEAN, r[off] = Filled(l, << >>, sp)
    PROVE  r[off + Len(out[Len(s)])] = Filled(l, s, sp)
<1> DEFINE n == Len(s)
<1> DEFINE S == {i \in 0..n : r[off + Len(out[i])] = Filled(l, Taken(s, i), sp)}
<1>1. n \in Nat /\ Len(w) \in Nat /\ \A i \in 1..n : s[i] \in Alphabet OBVIOUS
<1>2. /\ out[0] = << >> /\ \A i \in 0..n : out[i] \in Seq(Alphabet) /\ Len(out[i]) \in Nat
      /\ \A i \in 1..n : Pushes(out[i - 1], s[i], out[i])
  <2>1. /\ out[0] = << >> /\ \A i \in 0..n : out[i] \in Seq(Alphabet)
        /\ \A i \in 1..n : Pushes(out[i - 1], s[i], out[i])
    BY EscapedParts, Zenon
  <2>2. \A i \in 0..n : Len(out[i]) \in Nat BY <2>1
  <2> QED BY <2>1, <2>2, Zenon
<1>3. \A i \in 0..n : Len(out[i]) <= Len(out[n]) /\ \A k \in 1..Len(out[i]) : out[n][k] = out[i][k]
  BY <1>1, EscapedPrefix
<1>4. \A j \in 1..Len(w) : r[j] = Scanned(r[j - 1], w[j]) BY <1>1 DEF Scans
<1>0. off + Len(out[n]) <= Len(w) /\ \A k \in 1..Len(out[n]) : w[off + k] = out[n][k] BY DEF Lies
<1>5. 0 \in S
  <2>1. Len(out[0]) = 0 BY <1>2
  <2>2. Taken(s, 0) = << >> BY TakenIs
  <2>3. off + Len(out[0]) = off BY <2>1
  <2> QED BY <1>1, <2>2, <2>3
<1>6. ASSUME NEW i \in 0..n, i < n, i \in S PROVE i + 1 \in S
  <2>1. i + 1 \in 1..n /\ i + 1 \in 0..n /\ (i + 1) - 1 = i BY <1>1, <1>6
  <2>2. PICK c \in Alphabet : c = s[i + 1] BY <1>1, <2>1
  <2>3. PICK t \in Seq(Alphabet), u \in Seq(Alphabet) : t = out[i] /\ u = out[i + 1] BY <1>2, <2>1
  <2>4. Pushes(t, c, u) BY <1>2, <2>1, <2>2, <2>3
  <2>5. Len(t) \in Nat /\ Len(u) \in Nat /\ off + Len(u) <= Len(w) /\ \A k \in 1..Len(u) : w[off + k] = u[k]
    <3>1. Len(out[n]) \in Nat /\ Len(u) \in Nat /\ Len(t) \in Nat BY <1>1, <1>2, <2>3
    <3>2. Len(u) <= Len(out[n]) /\ \A k \in 1..Len(u) : out[n][k] = u[k] BY <1>3, <2>1, <2>3
    <3> QED BY <1>0, <1>1, <3>1, <3>2
  <2>6. PICK p \in Nat : p = off + Len(t) BY <2>5
  <2>7. PICK x \in Seq(Alphabet) : x = Taken(s, i) BY TakenIs
  <2>8. r[p] = Filled(l, x, sp) BY <1>6, <2>3, <2>6, <2>7
  <2>9. Append(x, c) = Taken(s, i + 1) BY <1>6, <2>2, <2>7, TakenIs
  <2>10. CASE c \notin {"-", "."}
    <3>1. Len(u) = Len(t) + 1 /\ u[Len(t) + 1] = c BY <2>4, <2>10 DEF Pushes
    <3>2. p + 1 \in 1..Len(w) /\ w[p + 1] = c /\ off + Len(u) = p + 1 /\ (p + 1) - 1 = p
      <4>1. Len(t) + 1 \in 1..Len(u) BY <2>5, <3>1
      <4>2. w[off + (Len(t) + 1)] = c BY <2>5, <3>1, <4>1
      <4>3. off + (Len(t) + 1) = p + 1 BY <2>5, <2>6
      <4> QED BY <1>1, <2>5, <2>6, <3>1, <4>2, <4>3
    <3>3. r[p + 1] = Scanned(r[p], c) BY <1>4, <3>2
    <3>4. r[p + 1] = Filled(l, Append(x, c), sp) BY <2>8, <2>10, <3>3, ScanPush
    <3> QED BY <2>1, <2>3, <2>9, <3>2, <3>4
  <2>11. CASE c \in {"-", "."}
    <3>1. Len(u) = Len(t) + 2 /\ u[Len(t) + 1] = "-" /\ u[Len(t) + 2] = c BY <2>4, <2>11 DEF Pushes
    <3>2. /\ p + 1 \in 1..Len(w) /\ w[p + 1] = "-" /\ (p + 1) - 1 = p
          /\ p + 2 \in 1..Len(w) /\ w[p + 2] = c /\ (p + 2) - 1 = p + 1 /\ off + Len(u) = p + 2
      <4>1. Len(t) + 1 \in 1..Len(u) /\ Len(t) + 2 \in 1..Len(u) BY <2>5, <3>1
      <4>2. w[off + (Len(t) + 1)] = "-" /\ w[off + (Len(t) + 2)] = c BY <2>5, <3>1, <4>1
      <4>3. off + (Len(t) + 1) = p + 1 /\ off + (Len(t) + 2) = p + 2 BY <2>5, <2>6
      <4> QED BY <1>1, <2>5, <2>6, <3>1, <4>2, <4>3
    <3>3. r[p + 1] = Scanned(r[p], "-") /\ r[p + 2] = Scanned(r[p + 1], c) BY <1>4, <3>2
    <3>4. r[p + 2] = Filled(l, Append(x, c), sp) BY <2>8, <2>11, <3>3, ScanPush
    <3> QED BY <2>1, <2>3, <2>9, <3>2, <3>4
  <2> QED BY <2>10, <2>11
<1>7. \A i \in 0..n : i \in S
  <2> HIDE DEF S
  <2> QED BY <1>1, <1>5, <1>6, Climbs
<1>8. n \in S BY <1>1, <1>7
<1>9. Taken(s, n) = s BY TakenIs
<1> QED BY <1>8, <1>9

ScanCase(s, out, w, r, off, l, sp) ==
    /\ s \in Seq(Alphabet) /\ Escapes(out, s) /\ w \in Seq(Alphabet) /\ Scans(r, w)
    /\ off \in Nat /\ Lies(w, off, out[Len(s)])
    /\ l \in Seq(Alphabet) /\ sp \in BOOLEAN /\ r[off] = Filled(l, << >>, sp)
ScanEnd(s, out, r, off, l, sp) == r[off + Len(out[Len(s)])] = Filled(l, s, sp)
LEMMA ScanPieces ==
    ASSUME NEW s, NEW out, NEW w, NEW r, NEW off, NEW l, NEW sp, ScanCase(s, out, w, r, off, l, sp)
    PROVE  ScanEnd(s, out, r, off, l, sp)
BY ScanPiece DEF ScanCase, ScanEnd

-----------------------------------------------------------------------------
(* Encoding and decoding.                                                  *)
Joined(l, d) == escape_into(l) \o <<".">> \o escape_into(d)

Joins(w, e, f) == /\ w \in Seq(Alphabet) /\ Len(w) = Len(e) + 1 + Len(f)
                  /\ \A k \in 1..Len(e) : w[k] = e[k]
                  /\ w[Len(e) + 1] = "."
                  /\ \A k \in 1..Len(f) : w[Len(e) + 1 + k] = f[k]
LEMMA JoinIs ==
    ASSUME NEW e \in Seq(Alphabet), NEW f \in Seq(Alphabet)
    PROVE  Joins(e \o <<".">> \o f, e, f)
<1>1. PICK q \in Seq(Alphabet) : q = <<".">> /\ Len(q) = 1 /\ q[1] = "."
  <2>1. PICK c \in Alphabet : c = "." BY ForwardAssumption
  <2>2. <<c>> \in Seq(Alphabet) /\ Len(<<c>>) = 1 /\ <<c>>[1] = c OBVIOUS
  <2> QED BY <2>1, <2>2
<1>2. PICK v \in Seq(Alphabet) : v = e \o q BY ConcatProperties
<1>3. Len(v) = Len(e) + 1 /\ (\A k \in 1..Len(e) : v[k] = e[k]) /\ v[Len(e) + 1] = "."
  <2>1. Len(e \o q) = Len(e) + Len(q)
        /\ \A i \in 1..(Len(e) + Len(q)) : (e \o q)[i] = IF i <= Len(e) THEN e[i] ELSE q[i - Len(e)]
    BY ConcatProperties
  <2>2. Len(e) \in Nat OBVIOUS
  <2>3. \A k \in 1..Len(e) : v[k] = e[k] BY <1>1, <1>2, <2>1, <2>2
  <2>4. Len(e) + 1 \in 1..(Len(e) + Len(q)) /\ ~(Len(e) + 1 <= Len(e)) /\ (Len(e) + 1) - Len(e) = 1
    BY <1>1, <2>2
  <2>5. v[Len(e) + 1] = q[1] BY <1>2, <2>1, <2>4
  <2> QED BY <1>1, <1>2, <2>1, <2>3, <2>5
<1>4. PICK w \in Seq(Alphabet) : w = v \o f BY ConcatProperties
<1>5. Len(w) = Len(v) + Len(f)
      /\ \A i \in 1..(Len(v) + Len(f)) : w[i] = IF i <= Len(v) THEN v[i] ELSE f[i - Len(v)]
  BY <1>4, ConcatProperties
<1>6. Len(e) \in Nat /\ Len(f) \in Nat /\ Len(v) = Len(e) + 1 BY <1>3
<1>7. \A k \in 1..Len(v) : w[k] = v[k] BY <1>5, <1>6
<1>8. ASSUME NEW k \in 1..Len(f) PROVE w[Len(e) + 1 + k] = f[k]
  <2>1. PICK i \in Nat : i = Len(e) + 1 + k BY <1>6
  <2>2. i \in 1..(Len(v) + Len(f)) /\ ~(i <= Len(v)) /\ i - Len(v) = k BY <1>6, <2>1
  <2>3. w[i] = f[i - Len(v)] BY <1>5, <2>2
  <2> QED BY <2>1, <2>2, <2>3
<1>9. \A k \in 1..Len(e) : w[k] = e[k] BY <1>3, <1>6, <1>7
<1>10. w[Len(e) + 1] = "." BY <1>3, <1>6, <1>7
<1>11. Len(w) = Len(e) + 1 + Len(f) BY <1>5, <1>6
<1>12. Joins(w, e, f) BY <1>8, <1>9, <1>10, <1>11 DEF Joins
<1> QED BY <1>1, <1>2, <1>4, <1>12

\* What a text becomes, for the two that are joined.
LEMMA EscapeFacts ==
    ASSUME NEW s \in Seq(Alphabet)
    PROVE  /\ escape_into(s) \in Seq(Alphabet) /\ DotsEscaped(escape_into(s))
           /\ NoCapital(s) => NoCapital(escape_into(s))
           /\ s # << >> => Len(escape_into(s)) > 0 /\ escape_into(s)[Len(escape_into(s))] = s[Len(s)]
<1>1. PICK out : Escapes(out, s) /\ escape_into(s) = out[Len(s)] BY EscapeIs
<1>2. Len(s) \in Nat /\ Len(s) \in 0..Len(s) /\ (s # << >> => Len(s) > 0) OBVIOUS
<1> QED BY <1>1, <1>2, EscapedText

LEMMA ScanJoined ==
    ASSUME NEW l \in Seq(Alphabet), NEW d \in Seq(Alphabet)
    PROVE  Joined(l, d) \in Seq(Alphabet) /\ Scan(Joined(l, d)) = Filled(l, d, TRUE)
<1>1. PICK g : Escapes(g, l) /\ escape_into(l) = g[Len(l)] BY EscapeIs
<1>2. PICK h : Escapes(h, d) /\ escape_into(d) = h[Len(d)] BY EscapeIs
<1>3. PICK e \in Seq(Alphabet), f \in Seq(Alphabet) : e = escape_into(l) /\ f = escape_into(d) BY EscapeFacts
<1>4. PICK w : w = Joined(l, d) OBVIOUS
<1>5. Joins(w, e, f) BY <1>3, <1>4, JoinIs DEF Joined
<1>6. w \in Seq(Alphabet) /\ Len(w) = Len(e) + 1 + Len(f) /\ Len(e) \in Nat /\ Len(f) \in Nat /\ Len(w) \in Nat
  BY <1>5 DEF Joins
<1>7. PICK r : Scans(r, w) /\ Scan(w) = r[Len(w)] BY <1>6, ScanIs
<1>8. << >> \in Seq(Alphabet) OBVIOUS
<1>9. r[Len(e)] = Filled(<< >>, l, FALSE)
  <2>1. r[0] = Filled(<< >>, << >>, FALSE) BY <1>6, <1>7 DEF Scans, ScanStart, Filled
  <2>2. e = g[Len(l)] /\ 0 + Len(e) <= Len(w) /\ 0 + Len(e) = Len(e) BY <1>1, <1>3, <1>6
  <2>3. Lies(w, 0, g[Len(l)])
    <3>1. \A k \in 1..Len(e) : w[0 + k] = e[k] BY <1>5, <1>6 DEF Joins
    <3> QED BY <2>2, <3>1 DEF Lies
  <2>4. r[0 + Len(g[Len(l)])] = Filled(<< >>, l, FALSE)
    <3>1. ScanCase(l, g, w, r, 0, << >>, FALSE) BY <1>1, <1>6, <1>7, <1>8, <2>1, <2>3 DEF ScanCase
    <3>2. ScanEnd(l, g, r, 0, << >>, FALSE) BY <3>1, ScanPieces
    <3> QED BY <3>2 DEF ScanEnd
  <2> QED BY <2>2, <2>4
<1>10. PICK off \in Nat : off = Len(e) + 1 BY <1>6
<1>11. r[off] = Filled(l, << >>, TRUE)
  <2>1. off \in 1..Len(w) /\ off - 1 = Len(e) /\ w[off] = "." BY <1>5, <1>6, <1>10 DEF Joins
  <2>2. r[off] = Scanned(r[off - 1], w[off]) BY <1>6, <1>7, <2>1 DEF Scans
  <2>3. PICK x : x = r[Len(e)] OBVIOUS
  <2>4. x = [local |-> l, domain |-> << >>, split |-> FALSE, escape |-> FALSE, bad |-> FALSE]
    BY <1>9, <2>3 DEF Filled
  <2>5. "." \in Alphabet BY ForwardAssumption
  <2>6. ScansTo(x, l, << >>, FALSE, FALSE, FALSE, ".") BY <1>8, <2>4, <2>5, ScannedIs
  <2>7. Scanned(x, ".") = [local |-> l, domain |-> << >>, split |-> TRUE, escape |-> FALSE, bad |-> FALSE]
    BY <2>6 DEF ScansTo
  <2> QED BY <2>1, <2>2, <2>3, <2>7 DEF Filled
<1>12. r[off + Len(f)] = Filled(l, d, TRUE)
  <2>1. f = h[Len(d)] /\ off + Len(f) <= Len(w) BY <1>2, <1>3, <1>6, <1>10
  <2>2. Lies(w, off, h[Len(d)]) BY <1>5, <1>10, <2>1 DEF Joins, Lies
  <2>3. r[off + Len(h[Len(d)])] = Filled(l, d, TRUE)
    <3>1. ScanCase(d, h, w, r, off, l, TRUE) BY <1>2, <1>6, <1>7, <1>11, <2>2 DEF ScanCase
    <3>2. ScanEnd(d, h, r, off, l, TRUE) BY <3>1, ScanPieces
    <3> QED BY <3>2 DEF ScanEnd
  <2> QED BY <2>1, <2>3
<1>13. off + Len(f) = Len(w) BY <1>6, <1>10
<1> QED BY <1>4, <1>6, <1>7, <1>12, <1>13

LEMMA LowerIs ==
    ASSUME NEW s \in Seq(Alphabet)
    PROVE  /\ lower(s) \in Seq(Alphabet) /\ Len(lower(s)) = Len(s) /\ NoCapital(lower(s))
           /\ \A i \in 1..Len(s) : lower(s)[i] = IF s[i] = "A" THEN "a" ELSE s[i]
           /\ NoCapital(s) => lower(s) = s
<1>1. Len(s) \in Nat /\ DOMAIN s = 1..Len(s) /\ "a" \in Alphabet /\ \A i \in 1..Len(s) : s[i] \in Alphabet
  BY ForwardAssumption
<1>2. lower(s) = [i \in 1..Len(s) |-> IF s[i] = "A" THEN "a" ELSE s[i]] BY <1>1 DEF lower
<1>3. lower(s) \in Seq(Alphabet) /\ Len(lower(s)) = Len(s) BY <1>1, <1>2
<1>4. \A i \in 1..Len(s) : lower(s)[i] = IF s[i] = "A" THEN "a" ELSE s[i] BY <1>2
<1>5. NoCapital(lower(s)) BY <1>3, <1>4 DEF NoCapital
<1>6. ASSUME NoCapital(s) PROVE lower(s) = s
  <2>1. \A i \in 1..Len(s) : (IF s[i] = "A" THEN "a" ELSE s[i]) = s[i] BY <1>6 DEF NoCapital
  <2>2. lower(s) = [i \in 1..Len(s) |-> s[i]] BY <1>2, <2>1
  <2> QED BY <1>1, <2>2
<1> QED BY <1>3, <1>4, <1>5, <1>6

LEMMA JoinedLower ==
    ASSUME NEW l \in Seq(Alphabet), NEW d \in Seq(Alphabet), NoCapital(l), NoCapital(d)
    PROVE  NoCapital(Joined(l, d))
<1>1. PICK e \in Seq(Alphabet), f \in Seq(Alphabet) :
        e = escape_into(l) /\ f = escape_into(d) /\ NoCapital(e) /\ NoCapital(f)
  BY EscapeFacts
<1>2. PICK w : w = Joined(l, d) OBVIOUS
<1>3. Joins(w, e, f) BY <1>1, <1>2, JoinIs DEF Joined
<1>4. ASSUME NEW k \in 1..Len(w) PROVE w[k] # "A"
  <2>0. Len(e) \in Nat /\ Len(f) \in Nat /\ Len(w) = Len(e) + 1 + Len(f) BY <1>3 DEF Joins
  <2>1. CASE k \in 1..Len(e) BY <1>1, <1>3, <2>1 DEF Joins, NoCapital
  <2>2. CASE k = Len(e) + 1 BY <1>3, <2>2 DEF Joins
  <2>3. CASE k > Len(e) + 1
    <3>1. PICK j \in 1..Len(f) : k = Len(e) + 1 + j
      <4>1. k - (Len(e) + 1) \in 1..Len(f) /\ k = Len(e) + 1 + (k - (Len(e) + 1)) BY <2>0, <2>3
      <4> QED BY <4>1
    <3> QED BY <1>1, <1>3, <3>1 DEF Joins, NoCapital
  <2> QED BY <2>0, <2>1, <2>2, <2>3
<1> QED BY <1>2, <1>4 DEF NoCapital

Legal(s) == /\ Len(s) <= MAX_LOCALPART_LEN /\ s # << >>
            /\ Head(s) # "." /\ Last(s) # "." /\ ~Doubled(s)

LEMMA EncodeIs ==
    ASSUME NEW l \in Seq(Alphabet), NEW d \in Seq(Alphabet), encode(l, d).ok
    PROVE  /\ encode(l, d) = [ok |-> TRUE, s |-> Joined(lower(l), lower(d))]
           /\ is_valid_local(lower(l)) /\ is_valid_domain(lower(d))
           /\ Len(Joined(lower(l), lower(d))) <= MAX_LOCALPART_LEN
<1>1. Refused.ok = FALSE BY DEF Refused
<1>2. PICK w : w = Joined(lower(l), lower(d)) OBVIOUS
<1>3. encode(l, d) = IF is_valid_local(lower(l)) /\ is_valid_domain(lower(d)) /\ Len(w) <= MAX_LOCALPART_LEN
                     THEN [ok |-> TRUE, s |-> w] ELSE Refused
  BY <1>2 DEF encode, Joined
<1> QED BY <1>1, <1>2, <1>3

\* decode leads an address back to the pair it was made for, in lower case, in whatever
\* case its letters arrive, for texts of every length (encode, decode).
THEOREM DecodeInvertsEncode ==
    ASSUME NEW l \in Seq(Alphabet), NEW d \in Seq(Alphabet), NEW a, encode(l, d).ok, lower(a) = encode(l, d).s
    PROVE  decode(a) = [ok |-> TRUE, local |-> lower(l), domain |-> lower(d)]
<1>1. PICK L \in Seq(Alphabet), D \in Seq(Alphabet) :
        L = lower(l) /\ D = lower(d) /\ lower(L) = L /\ lower(D) = D
  BY LowerIs
<1>2. PICK w : w = Joined(L, D) OBVIOUS
<1>3. encode(l, d) = [ok |-> TRUE, s |-> w] /\ is_valid_local(L) /\ is_valid_domain(D)
      /\ Len(w) <= MAX_LOCALPART_LEN
  BY <1>1, <1>2, EncodeIs
<1>4. lower(a) = w BY <1>3
<1>5. PICK r : r = Scan(w) OBVIOUS
<1>6. r = Filled(L, D, TRUE) BY <1>2, <1>5, ScanJoined
<1>7. r.local = L /\ r.domain = D /\ r.split = TRUE /\ r.escape = FALSE /\ r.bad = FALSE BY <1>6 DEF Filled
<1>8. encode(L, D) = [ok |-> TRUE, s |-> w] BY <1>1, <1>2, <1>3 DEF encode, Joined
<1>9. encode(r.local, r.domain).ok /\ encode(r.local, r.domain).s = w BY <1>7, <1>8
<1>10. decode(a) = [ok |-> TRUE, local |-> r.local, domain |-> r.domain]
  BY <1>3, <1>4, <1>5, <1>7, <1>9 DEF decode
<1> QED BY <1>1, <1>7, <1>10

\* No two senders share an address: encode is injective up to case.
THEOREM OneSenderPerAddress ==
    ASSUME NEW l \in Seq(Alphabet), NEW d \in Seq(Alphabet), NEW m \in Seq(Alphabet), NEW e \in Seq(Alphabet),
           encode(l, d).ok, encode(m, e) = encode(l, d)
    PROVE  lower(m) = lower(l) /\ lower(e) = lower(d)
<1>1. PICK a \in Seq(Alphabet) : a = encode(l, d).s /\ NoCapital(a)
  <2>1. PICK L \in Seq(Alphabet), D \in Seq(Alphabet) :
          L = lower(l) /\ D = lower(d) /\ NoCapital(L) /\ NoCapital(D)
    BY LowerIs
  <2>2. encode(l, d).s = Joined(L, D) BY <2>1, EncodeIs
  <2>3. Joined(L, D) \in Seq(Alphabet) BY ScanJoined
  <2>4. NoCapital(Joined(L, D)) BY <2>1, JoinedLower
  <2> QED BY <2>2, <2>3, <2>4
<1>2. lower(a) = encode(l, d).s /\ lower(a) = encode(m, e).s /\ encode(m, e).ok BY <1>1, LowerIs
<1>3. decode(a) = [ok |-> TRUE, local |-> lower(l), domain |-> lower(d)] BY <1>2, DecodeInvertsEncode
<1>4. decode(a) = [ok |-> TRUE, local |-> lower(m), domain |-> lower(e)] BY <1>2, DecodeInvertsEncode
<1>5. decode(a).local = lower(l) /\ decode(a).domain = lower(d) BY <1>3
<1>6. decode(a).local = lower(m) /\ decode(a).domain = lower(e) BY <1>4
<1> QED BY <1>5, <1>6

LEMMA JoinedLegal ==
    ASSUME NEW l \in Seq(Alphabet), NEW d \in Seq(Alphabet), is_valid_local(l), is_valid_domain(d),
           Len(Joined(l, d)) <= MAX_LOCALPART_LEN
    PROVE  Legal(Joined(l, d))
<1>1. PICK e \in Seq(Alphabet), f \in Seq(Alphabet) :
        /\ e = escape_into(l) /\ f = escape_into(d) /\ DotsEscaped(e) /\ DotsEscaped(f)
        /\ Len(e) > 0 /\ e[Len(e)] # "." /\ Len(f) > 0 /\ f[Len(f)] # "."
  <2>1. l # << >> /\ l[Len(l)] # "." /\ d # << >> /\ d[Len(d)] # "." BY DEF is_valid_local, is_valid_domain, Last
  <2> QED BY <2>1, EscapeFacts
<1>2. PICK w : w = Joined(l, d) OBVIOUS
<1>3. Joins(w, e, f) BY <1>1, <1>2, JoinIs DEF Joined
<1>4. PICK a, b \in Nat : a = Len(e) /\ b = Len(f) /\ a > 0 /\ b > 0 BY <1>1
<1>5. /\ w \in Seq(Alphabet) /\ Len(w) = a + 1 + b /\ w[a + 1] = "."
      /\ \A k \in 1..a : w[k] = e[k]
      /\ \A k \in 1..b : w[a + 1 + k] = f[k]
  BY <1>3, <1>4 DEF Joins
<1>6. e[1] # "." /\ f[1] # "." BY <1>1, <1>4 DEF DotsEscaped
<1>7. w # << >> /\ Head(w) # "."
  <2>1. Head(w) = w[1] /\ w[1] = e[1] BY <1>4, <1>5
  <2> QED BY <1>4, <1>5, <1>6, <2>1
<1>8. Last(w) # "."
  <2>1. w[a + 1 + b] = f[b] BY <1>4, <1>5
  <2> QED BY <1>1, <1>4, <1>5, <2>1 DEF Last
<1>9. ASSUME NEW i \in 1..(Len(w) - 1), w[i] = ".", w[i + 1] = "." PROVE FALSE
  <2>0. i \in Nat /\ i >= 1 /\ i + 1 <= a + 1 + b BY <1>4, <1>5
  <2>1. CASE i + 1 <= a
    <3>1. i \in 1..a /\ i + 1 \in 1..a /\ (i + 1) - 1 = i BY <1>4, <2>0, <2>1
    <3>2. e[i] = "." /\ e[i + 1] = "." BY <1>5, <1>9, <3>1
    <3> QED BY <1>1, <1>4, <3>1, <3>2 DEF DotsEscaped
  <2>2. CASE i = a
    <3>1. w[a] = e[a] BY <1>4, <1>5
    <3> QED BY <1>1, <1>4, <1>9, <2>2, <3>1
  <2>3. CASE i = a + 1
    <3>1. w[a + 1 + 1] = f[1] BY <1>4, <1>5
    <3> QED BY <1>4, <1>6, <1>9, <2>3, <3>1
  <2>4. CASE i > a + 1
    <3>0. i - (a + 1) \in Nat BY <1>4, <2>0, <2>4
    <3>1. PICK j \in Nat : j = i - (a + 1) BY <3>0
    <3>2. j \in 1..b /\ j + 1 \in 1..b /\ i = a + 1 + j /\ i + 1 = a + 1 + (j + 1) /\ (j + 1) - 1 = j
      BY <1>4, <2>0, <2>4, <3>1
    <3>3. f[j] = "." /\ f[j + 1] = "." BY <1>5, <1>9, <3>2
    <3> QED BY <1>1, <1>4, <3>2, <3>3 DEF DotsEscaped
  <2> QED BY <1>4, <2>0, <2>1, <2>2, <2>3, <2>4
<1>10. ~Doubled(w) BY <1>9 DEF Doubled
<1> QED BY <1>2, <1>7, <1>8, <1>10 DEF Legal

\* Folding letters moves no dot.
LEMMA LegalInAnyCase ==
    ASSUME NEW a \in Seq(Alphabet), Legal(lower(a))
    PROVE  Legal(a)
<1>1. PICK w : w = lower(a) OBVIOUS
<1>2. w \in Seq(Alphabet) /\ Len(w) = Len(a) /\ Len(a) \in Nat
      /\ \A i \in 1..Len(a) : w[i] = IF a[i] = "A" THEN "a" ELSE a[i]
  BY <1>1, LowerIs
<1>3. \A i \in 1..Len(a) : a[i] = "." => w[i] = "." BY <1>2
<1>4. Len(w) <= MAX_LOCALPART_LEN /\ w # << >> /\ Head(w) # "." /\ Last(w) # "." /\ ~Doubled(w)
  BY <1>1 DEF Legal
<1>5. Len(a) > 0 BY <1>2, <1>4
<1>6. Head(a) # "."
  <2>1. Head(a) = a[1] /\ Head(w) = w[1] BY <1>2, <1>5
  <2> QED BY <1>3, <1>4, <1>5, <2>1
<1>7. Last(a) # "." BY <1>2, <1>3, <1>4, <1>5 DEF Last
<1>8. ~Doubled(a)
  <2> SUFFICES ASSUME NEW i \in 1..(Len(a) - 1), a[i] = ".", a[i + 1] = "." PROVE FALSE BY DEF Doubled
  <2>1. i \in 1..Len(a) /\ i + 1 \in 1..Len(a) BY <1>2
  <2>2. w[i] = "." /\ w[i + 1] = "." BY <1>3, <2>1
  <2> QED BY <1>2, <1>4, <2>2 DEF Doubled
<1> QED BY <1>2, <1>4, <1>5, <1>6, <1>7, <1>8 DEF Legal

-----------------------------------------------------------------------------
(* On its way an address keeps its letters but for their case.             *)
Made(p, a) == encode(p.local, p.domain).ok /\ a \in Seq(Alphabet) /\ lower(a) = encode(p.local, p.domain).s

FwdInv == /\ pair \in Pairs /\ hop \in {"sender", "mta", "gateway"}
          /\ hop = "sender" => address = Refused
          /\ hop = "mta" => \/ address = Refused
                            \/ address = [ok |-> TRUE, s |-> address.s] /\ Made(pair, address.s)
          /\ hop = "gateway" => address.ok /\ Made(pair, address.s)

LEMMA EncodeMakes ==
    ASSUME NEW p \in Pairs
    PROVE  \/ encode(p.local, p.domain) = Refused
           \/ \E a \in Seq(Alphabet) : encode(p.local, p.domain) = [ok |-> TRUE, s |-> a] /\ lower(a) = a
<1>1. PICK l \in Seq(Alphabet), d \in Seq(Alphabet) : l = p.local /\ d = p.domain BY ForwardAssumption
<1>2. encode(l, d) = Refused \/ encode(l, d).ok BY DEF encode
<1>3. ASSUME encode(l, d).ok
      PROVE  \E a \in Seq(Alphabet) : encode(l, d) = [ok |-> TRUE, s |-> a] /\ lower(a) = a
  <2>1. PICK L \in Seq(Alphabet), D \in Seq(Alphabet) :
          L = lower(l) /\ D = lower(d) /\ NoCapital(L) /\ NoCapital(D)
    BY LowerIs
  <2>2. PICK a \in Seq(Alphabet) : a = Joined(L, D) BY ScanJoined
  <2>3. NoCapital(a) BY <2>1, <2>2, JoinedLower
  <2>4. encode(l, d) = [ok |-> TRUE, s |-> a] BY <1>3, <2>1, <2>2, EncodeIs
  <2>5. lower(a) = a BY <2>3, LowerIs
  <2> QED BY <2>4, <2>5
<1> QED BY <1>1, <1>2, <1>3

LEMMA FoldLower ==
    ASSUME NEW a \in Seq(Alphabet), NEW S \in SUBSET {i \in DOMAIN a : a[i] = "a"}, NEW b,
           b = [i \in DOMAIN a |-> IF i \in S THEN "A" ELSE a[i]]
    PROVE  b \in Seq(Alphabet) /\ lower(b) = lower(a)
<1>1. "A" \in Alphabet BY ForwardAssumption
<1>2. DOMAIN a = 1..Len(a) /\ Len(a) \in Nat /\ \A i \in 1..Len(a) : a[i] \in Alphabet OBVIOUS
<1>3. b \in Seq(Alphabet) BY <1>1, <1>2
<1>4. \A i \in DOMAIN a : (IF b[i] = "A" THEN "a" ELSE b[i]) = (IF a[i] = "A" THEN "a" ELSE a[i]) OBVIOUS
<1>5. lower(b) = [i \in DOMAIN a |-> IF b[i] = "A" THEN "a" ELSE b[i]] BY DEF lower
<1> QED BY <1>3, <1>4, <1>5 DEF lower

LEMMA FwdStep == FwdInv /\ [FwdNext]_fwdVars => FwdInv'
<1> SUFFICES ASSUME FwdInv, [FwdNext]_fwdVars PROVE FwdInv' OBVIOUS
<1>1. CASE Encode
  <2>1. hop' = "mta" /\ address' = encode(pair.local, pair.domain) /\ pair' = pair BY <1>1 DEF Encode
  <2>2. CASE encode(pair.local, pair.domain) = Refused
    <3>1. (address = Refused)' BY <2>1, <2>2 DEF Refused
    <3>2. pair' \in Pairs /\ hop' = "mta" BY <2>1 DEF FwdInv
    <3> QED BY <3>1, <3>2 DEF FwdInv
  <2>3. CASE \E a \in Seq(Alphabet) : encode(pair.local, pair.domain) = [ok |-> TRUE, s |-> a] /\ lower(a) = a
    <3>1. PICK a \in Seq(Alphabet) : encode(pair.local, pair.domain) = [ok |-> TRUE, s |-> a] /\ lower(a) = a BY <2>3
    <3>2. address' = [ok |-> TRUE, s |-> a] BY <2>1, <3>1
    <3>3. address'.s = a BY <3>2
    <3>4. Made(pair, a) BY <3>1 DEF Made
    <3> QED BY <2>1, <3>2, <3>3, <3>4 DEF FwdInv
  <2> QED BY <2>2, <2>3, EncodeMakes DEF FwdInv
<1>2. CASE Fold
  <2>1. hop = "mta" /\ address.ok /\ hop' = "gateway" /\ pair' = pair BY <1>2 DEF Fold
  <2>2. PICK a : address = [ok |-> TRUE, s |-> a] /\ Made(pair, a) BY <2>1 DEF FwdInv, Refused
  <2>3. PICK S \in SUBSET {i \in DOMAIN address.s : address.s[i] = "a"} :
          address' = [address EXCEPT !.s = [i \in DOMAIN @ |-> IF i \in S THEN "A" ELSE @[i]]]
    BY <1>2 DEF Fold
  <2>4. address.s = a BY <2>2
  <2>5. PICK b : b = [i \in DOMAIN a |-> IF i \in S THEN "A" ELSE a[i]] OBVIOUS
  <2>6. address' = [ok |-> TRUE, s |-> b] BY <2>2, <2>3, <2>4, <2>5
  <2>7. address'.ok /\ address'.s = b BY <2>6
  <2>8. a \in Seq(Alphabet) /\ S \in SUBSET {i \in DOMAIN a : a[i] = "a"} BY <2>2, <2>3, <2>4 DEF Made
  <2>9. b \in Seq(Alphabet) /\ lower(b) = lower(a) BY <2>5, <2>8, FoldLower
  <2>10. Made(pair, b) BY <2>2, <2>9 DEF Made
  <2> QED BY <2>1, <2>7, <2>10 DEF FwdInv
<1>3. CASE UNCHANGED fwdVars BY <1>3 DEF FwdInv, fwdVars
<1> QED BY <1>1, <1>2, <1>3 DEF FwdNext

LEMMA FwdSound == FwdInv => AddressSound
<1> SUFFICES ASSUME FwdInv PROVE AddressSound OBVIOUS
<1>1. PICK l \in Seq(Alphabet), d \in Seq(Alphabet) : l = pair.local /\ d = pair.domain
  BY ForwardAssumption DEF FwdInv
<1>2. LeadsBack
  <2> SUFFICES ASSUME hop = "gateway"
               PROVE  decode(address.s) = [ok |-> TRUE, local |-> lower(l), domain |-> lower(d)]
    BY <1>1 DEF LeadsBack
  <2>1. encode(l, d).ok /\ lower(address.s) = encode(l, d).s BY <1>1 DEF FwdInv, Made
  <2>2. PICK a : a = address.s OBVIOUS
  <2> QED BY <2>1, <2>2, DecodeInvertsEncode
<1>3. LegalLocalPart
  <2> SUFFICES ASSUME address.ok PROVE Legal(address.s) BY DEF LegalLocalPart, Legal
  <2>1. PICK a : a = address.s /\ Made(pair, a) BY DEF FwdInv, Refused
  <2>2. a \in Seq(Alphabet) /\ encode(l, d).ok /\ lower(a) = encode(l, d).s BY <1>1, <2>1 DEF Made
  <2>3. PICK L \in Seq(Alphabet), D \in Seq(Alphabet) : L = lower(l) /\ D = lower(d) BY LowerIs
  <2>4. encode(l, d).s = Joined(L, D) /\ is_valid_local(L) /\ is_valid_domain(D)
        /\ Len(Joined(L, D)) <= MAX_LOCALPART_LEN
    BY <2>2, <2>3, EncodeIs
  <2>5. Legal(lower(a)) BY <2>2, <2>4, JoinedLegal
  <2> QED BY <2>1, <2>2, <2>5, LegalInAnyCase
<1> QED BY <1>2, <1>3 DEF AddressSound

\* A forwarded address is a legal local part and leads back to the sender it was made
\* for, however the mail servers on its way fold its letters, for senders of every
\* length over every alphabet.
THEOREM AddressIsSound == FwdSpec => []AddressSound
<1>1. FwdInit => FwdInv BY DEF FwdInit, FwdInv
<1>2. FwdInv /\ [FwdNext]_fwdVars => FwdInv' BY FwdStep
<1> QED BY <1>1, <1>2, FwdSound, PTL DEF FwdSpec

-----------------------------------------------------------------------------
(***************************************************************************)
(* Sender authentication.  SelectIn keeps the places of what it takes in   *)
(* their order, which is all the proofs need of it.                        *)
(***************************************************************************)

\* out is what is left of s: its places, in order, are those whose element is in S.
Picks(out, s, S, n, e) ==
    /\ e \in [1..Len(out) -> 1..n]
    /\ \A j \in 1..Len(out) : out[j] = s[e[j]]
    /\ \A j, k \in 1..Len(out) : j < k => e[j] < e[k]
    /\ \A i \in 1..n : s[i] \in S <=> \E j \in 1..Len(out) : e[j] = i
Picked(out, s, S, n) == \E e : Picks(out, s, S, n, e)

LEMMA PicksMore ==
    ASSUME NEW T, NEW s \in Seq(T), NEW S, NEW n \in 1..Len(s), NEW out \in Seq(T),
           Picked(out, s, S, n - 1)
    PROVE  Picked(IF s[n] \in S THEN Append(out, s[n]) ELSE out, s, S, n)
<1>0. n \in Nat /\ n - 1 \in Nat /\ Len(out) \in Nat /\ s[n] \in T OBVIOUS
<1>1. PICK e : Picks(out, s, S, n - 1, e) BY DEF Picked
<1>2. CASE s[n] \notin S
  <2>1. Picks(out, s, S, n, e)
    <3>1. e \in [1..Len(out) -> 1..n] BY <1>0, <1>1 DEF Picks
    <3>2. \A i \in 1..n : s[i] \in S <=> \E j \in 1..Len(out) : e[j] = i
      <4>1. \A i \in 1..n : i = n \/ i \in 1..(n - 1) BY <1>0
      <4>2. \A j \in 1..Len(out) : e[j] # n BY <1>0, <1>1 DEF Picks
      <4> QED BY <1>1, <1>2, <4>1, <4>2 DEF Picks
    <3> QED BY <1>1, <3>1, <3>2 DEF Picks
  <2> QED BY <1>2, <2>1 DEF Picked
<1>3. CASE s[n] \in S
  <2>1. PICK m \in Nat : m = Len(out) BY <1>0
  <2>2. PICK u \in Seq(T) : u = Append(out, s[n]) BY <1>0, AppendProperties
  <2>3. Len(u) = m + 1 /\ u[m + 1] = s[n] /\ \A j \in 1..m : u[j] = out[j]
    BY <1>0, <2>1, <2>2, AppendProperties
  <2>4. PICK f : f = [j \in 1..(m + 1) |-> IF j = m + 1 THEN n ELSE e[j]] OBVIOUS
  <2>5. e \in [1..m -> 1..(n - 1)] BY <1>1, <2>1 DEF Picks
  <2>6. f[m + 1] = n /\ \A j \in 1..m : f[j] = e[j] BY <2>1, <2>4
  <2>7. f \in [1..(m + 1) -> 1..n] BY <1>0, <2>4, <2>5
  <2>8. \A j \in 1..(m + 1) : j = m + 1 \/ j \in 1..m BY <2>1
  <2>9. \A j \in 1..(m + 1) : u[j] = s[f[j]] BY <1>1, <2>1, <2>3, <2>6, <2>8 DEF Picks
  <2>10. \A j, k \in 1..(m + 1) : j < k => f[j] < f[k]
    <3>1. \A j, k \in 1..(m + 1) : j < k => j \in 1..m BY <2>1
    <3>2. \A j \in 1..m : e[j] \in Int /\ e[j] < n BY <1>0, <2>5
    <3> QED BY <1>1, <2>1, <2>6, <2>8, <3>1, <3>2 DEF Picks
  <2>11. \A i \in 1..n : s[i] \in S <=> \E j \in 1..(m + 1) : f[j] = i
    <3>1. \A i \in 1..n : i = n \/ i \in 1..(n - 1) BY <1>0
    <3>2. \A j \in 1..m : j \in 1..(m + 1) BY <2>1
    <3>3. m + 1 \in 1..(m + 1) BY <2>1
    <3>4. ASSUME NEW i \in 1..(n - 1) PROVE s[i] \in S <=> \E j \in 1..(m + 1) : f[j] = i
      <4>1. s[i] \in S <=> \E j \in 1..m : e[j] = i BY <1>1, <2>1 DEF Picks
      <4>2. f[m + 1] # i BY <1>0, <2>6
      <4> QED BY <2>6, <2>8, <3>2, <4>1, <4>2
    <3> QED BY <1>3, <2>6, <3>1, <3>3, <3>4
  <2>12. Picks(u, s, S, n, f) BY <2>3, <2>7, <2>9, <2>10, <2>11 DEF Picks
  <2> QED BY <1>3, <2>2, <2>12 DEF Picked
<1> QED BY <1>2, <1>3

Selects(sel, s, S) ==
    sel = [i \in 0..Len(s) |-> IF i = 0 THEN <<>>
                               ELSE IF s[i] \in S THEN Append(sel[i - 1], s[i])
                               ELSE sel[i - 1]]
LEMMA SelectInPicks ==
    ASSUME NEW T, NEW s \in Seq(T), NEW S
    PROVE  SelectIn(s, S) \in Seq(T) /\ Picked(SelectIn(s, S), s, S, Len(s))
<1> DEFINE n == Len(s)
<1> DEFINE step == [x \in Seq(T) \X (1..n) |-> IF s[x[2]] \in S THEN Append(x[1], s[x[2]]) ELSE x[1]]
<1>1. n \in Nat /\ \A i \in 1..n : s[i] \in T OBVIOUS
<1>2. step \in [Seq(T) \X (1..n) -> Seq(T)]
  <2>1. \A t \in Seq(T), i \in 1..n : Append(t, s[i]) \in Seq(T) BY <1>1, AppendProperties
  <2> QED BY <2>1
<1>3. \A t \in Seq(T), i \in 1..n : step[<<t, i>>] = IF s[i] \in S THEN Append(t, s[i]) ELSE t OBVIOUS
<1> HIDE DEF step
<1>4. << >> \in Seq(T) OBVIOUS
<1>5. PICK f \in [0..n -> Seq(T)] : Iterated(f, << >>, step, n) BY <1>1, <1>2, <1>4, Iterates
<1>6. f[0] = << >> /\ \A i \in 1..n : f[i] = IF s[i] \in S THEN Append(f[i - 1], s[i]) ELSE f[i - 1]
  <2>1. \A i \in 1..n : f[i - 1] \in Seq(T) BY <1>1
  <2> QED BY <1>3, <1>5, <2>1 DEF Iterated
<1>7. Selects(f, s, S)
  <2>1. f = [i \in 0..n |-> f[i]] OBVIOUS
  <2>2. \A i \in 0..n : f[i] = IF i = 0 THEN << >> ELSE IF s[i] \in S THEN Append(f[i - 1], s[i]) ELSE f[i - 1]
    <3>1. \A i \in 0..n : i # 0 => i \in 1..n BY <1>1
    <3> QED BY <1>6, <3>1, Zenon
  <2> QED BY <2>1, <2>2, Zenon DEF Selects
<1>8. PICK g : g = CHOOSE sel : Selects(sel, s, S) OBVIOUS
<1>9. Selects(g, s, S) BY <1>7, <1>8
<1>10. SelectIn(s, S) = (CHOOSE sel : Selects(sel, s, S))[Len(s)] BY Zenon DEF SelectIn, Selects
<1>11. g[0] = << >> /\ \A i \in 1..n : g[i] = IF s[i] \in S THEN Append(g[i - 1], s[i]) ELSE g[i - 1]
  <2>1. \A i \in 0..n : g[i] = IF i = 0 THEN << >> ELSE IF s[i] \in S THEN Append(g[i - 1], s[i]) ELSE g[i - 1]
    BY <1>9, Zenon DEF Selects
  <2>2. 0 \in 0..n /\ \A i \in 1..n : i \in 0..n /\ i # 0 BY <1>1
  <2> QED BY <2>1, <2>2, Zenon
<1> DEFINE Q == {i \in 0..n : g[i] \in Seq(T) /\ Picked(g[i], s, S, i)}
<1>12. 0 \in Q
  <2>1. Picks(<< >>, s, S, 0, << >>)
    <3>1. Len(<< >>) = 0 /\ 1..0 = {} /\ << >> \in [1..0 -> 1..0] OBVIOUS
    <3> QED BY <3>1 DEF Picks
  <2>2. Picked(<< >>, s, S, 0) BY <2>1 DEF Picked
  <2>3. g[0] \in Seq(T) /\ Picked(g[0], s, S, 0) BY <1>4, <1>11, <2>2, Zenon
  <2>4. 0 \in 0..n BY <1>1
  <2> QED BY <2>3, <2>4, Zenon
<1>13. ASSUME NEW i \in 0..n, i < n, i \in Q PROVE i + 1 \in Q
  <2>1. i + 1 \in 1..n /\ (i + 1) - 1 = i /\ i + 1 \in 0..n BY <1>13
  <2>2. g[i + 1] = IF s[i + 1] \in S THEN Append(g[i], s[i + 1]) ELSE g[i] BY <1>11, <2>1
  <2>3. g[i] \in Seq(T) /\ Picked(g[i], s, S, i) /\ s[i + 1] \in T BY <1>1, <1>13, <2>1
  <2>4. g[i + 1] \in Seq(T) BY <2>2, <2>3, AppendProperties
  <2>5. Picked(g[i + 1], s, S, i + 1) BY <2>1, <2>2, <2>3, PicksMore
  <2> QED BY <2>1, <2>4, <2>5
<1>14. n \in Q
  <2>1. \A i \in 0..n : i \in Q
    <3> HIDE DEF Q
    <3> QED BY <1>1, <1>12, <1>13, Climbs
  <2> QED BY <1>1, <2>1
<1> QED BY <1>8, <1>10, <1>14

\* What it takes is what s has of S.
LEMMA SelectInRange ==
    ASSUME NEW T, NEW s \in Seq(T), NEW S
    PROVE  /\ \A j \in 1..Len(SelectIn(s, S)) : SelectIn(s, S)[j] \in S /\ \E i \in 1..Len(s) : SelectIn(s, S)[j] = s[i]
           /\ \A i \in 1..Len(s) : s[i] \in S => \E j \in 1..Len(SelectIn(s, S)) : SelectIn(s, S)[j] = s[i]
<1>1. PICK u \in Seq(T) : u = SelectIn(s, S) BY SelectInPicks
<1>2. PICK e : Picks(u, s, S, Len(s), e) BY <1>1, SelectInPicks DEF Picked
<1>3. ASSUME NEW j \in 1..Len(u) PROVE u[j] \in S /\ \E i \in 1..Len(s) : u[j] = s[i]
  <2>1. e[j] \in 1..Len(s) /\ u[j] = s[e[j]] BY <1>2 DEF Picks
  <2>2. s[e[j]] \in S BY <1>2, <2>1 DEF Picks
  <2> QED BY <2>1, <2>2
<1>4. ASSUME NEW i \in 1..Len(s), s[i] \in S PROVE \E j \in 1..Len(u) : u[j] = s[i]
  <2>1. PICK j \in 1..Len(u) : e[j] = i BY <1>2, <1>4 DEF Picks
  <2> QED BY <1>2, <2>1 DEF Picks
<1> QED BY <1>1, <1>3, <1>4

-----------------------------------------------------------------------------
(***************************************************************************)
(* SPF.  Every open call is on a domain the sender's record leads to and   *)
(* walks terms of that domain's record, so a match with a '+' is somebody's *)
(* word for the host.  Every query but the first is charged before it is   *)
(* sent, and a call starts with its charge not yet used; once the budget is *)
(* overdrawn all callers return PermError and nothing more is sent.        *)
(***************************************************************************)

Calls == [domain : Domains, mechanisms : Seq(SpfTerms), redirect : SpfNames, pos : Nat]
FrameOk(f, z, root) ==
    /\ f.domain \in Reached(z, root)
    /\ \A k \in 1..Len(f.mechanisms) : f.mechanisms[k] \in Terms(z, f.domain) /\ MechanismOk(f.mechanisms[k])
    /\ f.redirect \in Domains => f.redirect \in Refers(z, f.domain)
    /\ f.pos \in 1..(Len(f.mechanisms) + 1)
FramesOk(fs) == fs \in Seq(Calls) /\ \A i \in 1..Len(fs) : FrameOk(fs[i], scn.zone, Identity(scn))

Budgets == [lookups : Nat, voids : Nat, queries : Nat]
SpfTypes == /\ case \in Cases /\ host \in Nat /\ spent \in Budgets /\ result \in SpfVerdicts
            /\ todo \in {"start", "call", "walk", "mx", "return", "done"}
FramesInv == /\ FramesOk(frames)
             /\ todo \in {"call", "walk", "mx", "return"} => frames # <<>>
             /\ todo = "mx" => /\ Top.pos <= Len(Top.mechanisms) /\ Mech.t = "mx" /\ ~mechanism_has_macro(Mech)
                               /\ host \in 1..Len(scn.zone.mx[Target].v)
PassInv == result = "Pass" => Vouched(scn.zone, Identity(scn), scn.ip)
BudgetInv == /\ spent.queries <= spent.lookups + 1
             /\ spent.queries <= MaxLookups + 1
             /\ todo \in {"start", "call"} => spent.queries <= spent.lookups
             /\ spent.lookups > MaxLookups => todo \in {"return", "done"} /\ result = "PermError"
SpfInv == SpfTypes /\ FramesInv /\ PassInv /\ BudgetInv

\* The budget an outcome leaves, and that an overdraft aborts.
StOk(st) == st \in Budgets /\ st.queries <= st.lookups + 1 /\ st.queries <= MaxLookups + 1
OutcomeOk(o) ==
    /\ StOk(o.st) /\ o.o \in {"match", "nomatch", "abort"} /\ o.r \in SpfVerdicts \ {"Pass"}
    /\ o.st.lookups > MaxLookups => o.o = "abort" /\ o.r = "PermError"

LEMMA AuthConstants ==
    /\ MaxLookups \in Nat /\ MaxVoidLookups \in Nat /\ MaxChainDepth \in Nat
    /\ "" \notin Domains /\ "%" \notin Domains
BY AuthAssumption

LEMMA ScenarioFacts ==
    ASSUME case \in Cases
    PROVE  /\ ZoneOk(scn.zone) /\ scn.from \in Domains \cup {""} /\ scn.helo \in Domains \cup {""}
           /\ MessageOk(scn.orig) /\ MessageOk(scn.msg) /\ Unforged(scn)
           /\ \E i \in DOMAIN scn.orig.hdr : \A j \in DOMAIN scn.orig.hdr : scn.orig.hdr[j].n = "from" <=> j = i
BY AuthAssumption DEF scn, ScenarioOk

LEMMA OutcomeFields ==
    ASSUME NEW r, NEW st
    PROVE  /\ Match(st).o = "match" /\ Match(st).r = "None" /\ Match(st).st = st
           /\ NoMatch(st).o = "nomatch" /\ NoMatch(st).r = "None" /\ NoMatch(st).st = st
           /\ Abort(r, st).o = "abort" /\ Abort(r, st).r = r /\ Abort(r, st).st = st
           /\ "None" \in SpfVerdicts \ {"Pass"} /\ "PermError" \in SpfVerdicts \ {"Pass"}
           /\ "TempError" \in SpfVerdicts \ {"Pass"} 
BY DEF Match, NoMatch, Abort, SpfVerdicts

LEMMA ChargeVoid ==
    ASSUME NEW s \in Budgets, NEW m, m = charge_void(s)
    PROVE  /\ m.st \in Budgets /\ m.st.lookups = s.lookups /\ m.st.queries = s.queries
           /\ m.o \in {"nomatch", "abort"} /\ m.r \in SpfVerdicts \ {"Pass"}
<1>0. /\ [s EXCEPT !.voids = @ + 1] \in Budgets /\ [s EXCEPT !.voids = @ + 1].lookups = s.lookups
      /\ [s EXCEPT !.voids = @ + 1].queries = s.queries
  BY DEF Budgets
<1>1. PICK v \in Budgets : v = [s EXCEPT !.voids = @ + 1] /\ v.lookups = s.lookups /\ v.queries = s.queries
  BY <1>0
<1>2. m = Abort("PermError", v) \/ m = NoMatch(v) BY <1>1, Zenon DEF charge_void
<1>3. m.st = v /\ m.o \in {"nomatch", "abort"} /\ m.r \in SpfVerdicts \ {"Pass"} BY <1>2, OutcomeFields
<1> QED BY <1>1, <1>3

\* Looking an address up: one query, and at most one void lookup.
LEMMA AddressLookup ==
    ASSUME NEW z, NEW target, NEW ip, NEW c4, NEW c6, NEW st \in Budgets, NEW m,
           m = match_address_lookup(z, target, ip, c4, c6, st)
    PROVE  /\ m.st \in Budgets /\ m.st.lookups = st.lookups /\ m.st.queries = st.queries + 1
           /\ m.o \in {"match", "nomatch", "abort"} /\ m.r \in SpfVerdicts \ {"Pass"}
           /\ m.o = "match" => \E x \in (IF ip.v = 4 THEN z.a[target].v ELSE z.aaaa[target].v) :
                                   IF ip.v = 4 THEN in_cidr(W4, ip.n, x, c4) ELSE in_cidr(W6, ip.n, x, c6)
<1>0. Queried(st) \in Budgets /\ Queried(st).lookups = st.lookups /\ Queried(st).queries = st.queries + 1
  BY DEF Queried, Budgets
<1>1. PICK s \in Budgets : s = Queried(st) /\ s.lookups = st.lookups /\ s.queries = st.queries + 1 BY <1>0
<1>2. PICK ans : ans = IF ip.v = 4 THEN z.a[target] ELSE z.aaaa[target] OBVIOUS
<1>3. \/ m = Abort("TempError", s) \/ m = charge_void(s) \/ m = NoMatch(s)
      \/ m = Match(s) /\ \E x \in ans.v : IF ip.v = 4 THEN in_cidr(W4, ip.n, x, c4) ELSE in_cidr(W6, ip.n, x, c6)
  BY <1>1, <1>2, Zenon DEF match_address_lookup
<1>5. (IF ip.v = 4 THEN z.a[target].v ELSE z.aaaa[target].v) = ans.v BY <1>2
<1>6. CASE m = charge_void(s)
  <2>1. /\ m.st \in Budgets /\ m.st.lookups = s.lookups /\ m.st.queries = s.queries
        /\ m.o \in {"nomatch", "abort"} /\ m.r \in SpfVerdicts \ {"Pass"}
    BY <1>6, ChargeVoid
  <2> QED BY <1>1, <2>1
<1>7. CASE m # charge_void(s)
  <2>1. m.st = s /\ m.o \in {"match", "nomatch", "abort"} /\ m.r \in SpfVerdicts \ {"Pass"}
    BY <1>3, <1>7, OutcomeFields
  <2>2. m.o = "match" => \E x \in ans.v : IF ip.v = 4 THEN in_cidr(W4, ip.n, x, c4) ELSE in_cidr(W6, ip.n, x, c6)
    BY <1>3, <1>7, OutcomeFields
  <2> QED BY <1>1, <1>5, <2>1, <2>2
<1> QED BY <1>6, <1>7

LEMMA Charged ==
    ASSUME NEW st \in Budgets, NEW s, s = charge_lookup(st)
    PROVE  s \in Budgets /\ s.lookups = st.lookups + 1 /\ s.queries = st.queries
BY DEF charge_lookup, Budgets

LEMMA QueriedIs ==
    ASSUME NEW st \in Budgets, NEW s, s = Queried(st)
    PROVE  s \in Budgets /\ s.lookups = st.lookups /\ s.queries = st.queries + 1
BY DEF Queried, Budgets

\* A mechanism that needs no other record: within the budget, and a match means that its
\* terms stand for the host.
LEMMA PlainOutcome ==
    ASSUME NEW z, NEW d, NEW ip, NEW m \in SpfTerms, MechanismOk(m), m.t \notin {"include", "mx"},
           NEW st0 \in Budgets, st0.lookups <= MaxLookups, st0.queries <= st0.lookups + 1,
           NEW o, o = eval_mechanism(z, m, d, ip, st0)
    PROVE  OutcomeOk(o) /\ (o.o = "match" => Stands(z, d, m, ip))
<1>0. MaxLookups \in Nat BY AuthConstants
<1>1. m.t \in {"all", "ip4", "ip6", "ptr", "a", "exists"} BY DEF MechanismOk
<1>2. CASE m.t \in {"all", "ip4", "ip6"}
  <2>1. o.st = st0 /\ o.o \in {"match", "nomatch"} /\ o.r = "None" /\ (o.o = "match" => Stands(z, d, m, ip))
    <3>1. CASE m.t = "all"
      <4>1. o = Match(st0) BY <3>1 DEF eval_mechanism
      <4> QED BY <3>1, <4>1, OutcomeFields DEF Stands
    <3>2. CASE m.t = "ip4"
      <4>1. o = IF ip.v = 4 /\ in_cidr(W4, ip.n, m.net, m.c4) THEN Match(st0) ELSE NoMatch(st0)
        BY <3>2 DEF eval_mechanism
      <4> QED BY <3>2, <4>1, OutcomeFields DEF Stands
    <3>3. CASE m.t = "ip6"
      <4>1. o = IF ip.v = 6 /\ in_cidr(W6, ip.n, m.net, m.c6) THEN Match(st0) ELSE NoMatch(st0)
        BY <3>3 DEF eval_mechanism
      <4>2. o.st = st0 /\ o.o \in {"match", "nomatch"} /\ o.r = "None" BY <4>1, OutcomeFields
      <4>3. ASSUME o.o = "match" PROVE Stands(z, d, m, ip)
        <5>1. ip.v = 6 /\ in_cidr(W6, ip.n, m.net, m.c6) BY <4>1, <4>3, OutcomeFields
        <5> QED BY <3>3, <5>1 DEF Stands
      <4> QED BY <4>2, <4>3
    <3> QED BY <1>2, <3>1, <3>2, <3>3
  <2> QED BY <1>0, <2>1, OutcomeFields DEF OutcomeOk, StOk, Budgets
<1>3. CASE m.t \in {"ptr", "a", "exists"}
  <2>1. PICK st : st = charge_lookup(st0) OBVIOUS
  <2>2. st \in Budgets /\ st.lookups = st0.lookups + 1 /\ st.queries = st0.queries BY <2>1, Charged
  <2>3. st.lookups \in Nat /\ st.queries \in Nat /\ st0.lookups \in Nat /\ st0.queries \in Nat BY <2>2 DEF Budgets
  <2>4. PICK target : target = IF m.d = "" THEN d ELSE m.d OBVIOUS
  <2>5. CASE OverLookups(st)
    <3>1. o = Abort("PermError", st) BY <1>3, <2>1, <2>5 DEF eval_mechanism
    <3>2. o.o = "abort" /\ o.r = "PermError" /\ o.st = st /\ o.r \in SpfVerdicts \ {"Pass"} BY <3>1, OutcomeFields
    <3> QED BY <1>0, <2>2, <2>3, <3>2 DEF OutcomeOk, StOk
  <2>6. CASE ~OverLookups(st)
    <3>1. st.lookups <= MaxLookups BY <1>0, <2>3, <2>6 DEF OverLookups
    <3>2. CASE m.t = "ptr"
      <4>1. o = NoMatch(st) BY <2>1, <2>6, <3>2 DEF eval_mechanism
      <4>2. o.o = "nomatch" /\ o.st = st /\ o.r \in SpfVerdicts \ {"Pass"} BY <4>1, OutcomeFields
      <4> QED BY <1>0, <2>2, <2>3, <3>1, <4>2 DEF OutcomeOk, StOk
    <3>3. CASE m.t = "a"
      <4>1. o = match_address_lookup(z, target, ip, m.c4, m.c6, st) BY <2>1, <2>4, <2>6, <3>3 DEF eval_mechanism
      <4>2. /\ o.st \in Budgets /\ o.st.lookups = st.lookups /\ o.st.queries = st.queries + 1
            /\ o.o \in {"match", "nomatch", "abort"} /\ o.r \in SpfVerdicts \ {"Pass"}
            /\ o.o = "match" => \E x \in (IF ip.v = 4 THEN z.a[target].v ELSE z.aaaa[target].v) :
                                   IF ip.v = 4 THEN in_cidr(W4, ip.n, x, m.c4) ELSE in_cidr(W6, ip.n, x, m.c6)
        BY <2>2, <4>1, AddressLookup
      <4>3. OutcomeOk(o) BY <1>0, <2>2, <2>3, <3>1, <4>2 DEF OutcomeOk, StOk
      <4>4. o.o = "match" => Stands(z, d, m, ip) BY <2>4, <3>3, <4>2 DEF Stands
      <4> QED BY <4>3, <4>4
    <3>4. CASE m.t = "exists"
      <4>1. PICK s : s = Queried(st) OBVIOUS
      <4>2. s \in Budgets /\ s.lookups = st.lookups /\ s.queries = st.queries + 1 BY <2>2, <4>1, QueriedIs
      <4>3. m.d # "" BY <3>4 DEF MechanismOk
      <4>4. o = IF ~z.a[m.d].ok THEN Abort("TempError", s)
                ELSE IF z.a[m.d].v = {} THEN charge_void(s) ELSE Match(s)
        BY <2>1, <2>6, <3>4, <4>1 DEF eval_mechanism
      <4>5. /\ o.st \in Budgets /\ o.st.lookups = s.lookups /\ o.st.queries = s.queries
            /\ o.o \in {"match", "nomatch", "abort"} /\ o.r \in SpfVerdicts \ {"Pass"}
            /\ o.o = "match" => z.a[m.d].v # {}
        <5>1. CASE o = charge_void(s) /\ z.a[m.d].v = {} BY <4>2, <5>1, ChargeVoid
        <5>2. CASE o = Abort("TempError", s) BY <4>2, <5>2, OutcomeFields
        <5>3. CASE o = Match(s) /\ z.a[m.d].v # {} BY <4>2, <5>3, OutcomeFields
        <5> QED BY <4>4, <5>1, <5>2, <5>3
      <4>6. OutcomeOk(o) BY <1>0, <2>2, <2>3, <3>1, <4>2, <4>5 DEF OutcomeOk, StOk
      <4>7. o.o = "match" => Stands(z, d, m, ip) BY <3>4, <4>3, <4>5 DEF Stands
      <4> QED BY <4>6, <4>7
    <3> QED BY <1>3, <3>2, <3>3, <3>4
  <2> QED BY <2>5, <2>6
<1> QED BY <1>1, <1>2, <1>3

\* A term with a '+' that stands for the host is somebody's word for it.
LEMMA StandsVouches ==
    ASSUME NEW f, NEW z, NEW root, NEW ip, FrameOk(f, z, root), NEW k \in 1..Len(f.mechanisms),
           f.mechanisms[k].q = "Pass", Stands(z, f.domain, f.mechanisms[k], ip)
    PROVE  Vouched(z, root, ip)
BY DEF FrameOk, Vouched

\* What a record refers to is reached with it.
LEMMA ReachedOn ==
    ASSUME NEW z, NEW root, NEW d \in Reached(z, root), NEW x \in Refers(z, d)
    PROVE  x \in Reached(z, root)
<1>1. x \in DOMAIN z.txt BY DEF Refers
<1>2. ASSUME NEW S \in SUBSET DOMAIN z.txt, root \in S, \A y \in S : Refers(z, y) \subseteq S PROVE x \in S
  <2>1. d \in S BY <1>2 DEF Reached
  <2> QED BY <1>2, <2>1
<1> QED BY <1>1, <1>2 DEF Reached

LEMMA ReachedRoot ==
    ASSUME NEW z, NEW root \in DOMAIN z.txt PROVE root \in Reached(z, root)
BY DEF Reached

LEMMA ReturnKeeps ==
    ASSUME SpfInv, NEW r \in SpfVerdicts, NEW st, Return(r, st), UNCHANGED case, frames # <<>>,
           StOk(st), st.lookups > MaxLookups => r = "PermError",
           r = "Pass" => Vouched(scn.zone, Identity(scn), scn.ip)
    PROVE  SpfInv'
<1>1. /\ todo' = "return" /\ result' = r /\ spent' = st /\ frames' = frames /\ host' = host /\ case' = case
      /\ scn' = scn
  BY DEF Return, scn
<1>2. SpfTypes' BY <1>1 DEF SpfInv, SpfTypes, StOk
<1>3. FramesInv' BY <1>1 DEF SpfInv, FramesInv, FramesOk
<1>4. PassInv' BY <1>1 DEF PassInv
<1>5. BudgetInv' BY <1>1 DEF BudgetInv, StOk
<1> QED BY <1>2, <1>3, <1>4, <1>5 DEF SpfInv

LEMMA CallKeeps ==
    ASSUME SpfInv, NEW d \in Domains, NEW st, Call(d, st), UNCHANGED case, d \in Reached(scn.zone, Identity(scn)),
           st \in Budgets, st.queries <= st.lookups, st.lookups <= MaxLookups
    PROVE  SpfInv'
<1>0. MaxLookups \in Nat BY AuthConstants
<1>1. /\ todo' = "call" /\ result' = result /\ spent' = st /\ frames' = Append(frames, Frame(d)) /\ host' = host
      /\ case' = case /\ scn' = scn
  BY DEF Call, scn
<1>2. SpfTypes' BY <1>1 DEF SpfInv, SpfTypes
<1>3. FramesInv'
  <2>1. PICK f : f = Frame(d) OBVIOUS
  <2>2. f \in Calls /\ FrameOk(f, scn.zone, Identity(scn))
    <3>1. f.domain = d /\ f.mechanisms = << >> /\ f.redirect = "" /\ f.pos = 1 BY <2>1 DEF Frame
    <3>2. << >> \in Seq(SpfTerms) /\ Len(<< >>) = 0 OBVIOUS
    <3>3. f \in Calls BY <2>1, <3>2 DEF Calls, Frame, SpfNames
    <3>7. Len(f.mechanisms) = 0 BY <3>1, <3>2, Zenon
    <3>4. \A k \in 1..Len(f.mechanisms) : FALSE BY <3>7
    <3>8. f.pos = 1 BY <3>1
    <3>5. f.pos \in 1..(Len(f.mechanisms) + 1) BY <3>7, <3>8
    <3>6. f.redirect \notin Domains BY <3>1, AuthConstants
    <3> QED BY <3>1, <3>3, <3>4, <3>5, <3>6 DEF FrameOk
  <2>3. frames \in Seq(Calls) /\ \A i \in 1..Len(frames) : FrameOk(frames[i], scn.zone, Identity(scn))
    BY DEF SpfInv, FramesInv, FramesOk
  <2>10. PICK fs \in Seq(Calls) : fs = Append(frames, f) BY <2>2, <2>3, AppendProperties
  <2>4. /\ fs = Append(frames, f) /\ Len(fs) = Len(frames) + 1 /\ fs[Len(frames) + 1] = f
        /\ \A i \in 1..Len(frames) : fs[i] = frames[i]
    BY <2>2, <2>3, <2>10, AppendProperties
  <2>5. Len(frames) \in Nat BY <2>3
  <2>6. \A i \in 1..Len(fs) : i = Len(frames) + 1 \/ i \in 1..Len(frames) BY <2>4, <2>5
  <2>7. \A i \in 1..Len(fs) : FrameOk(fs[i], scn.zone, Identity(scn)) BY <2>2, <2>3, <2>4, <2>6
  <2>8. fs # << >> BY <2>4, <2>5
  <2> QED BY <1>1, <2>1, <2>4, <2>7, <2>8 DEF FramesInv, FramesOk
<1>4. PassInv' BY <1>1 DEF PassInv, SpfInv
<1>5. BudgetInv' BY <1>0, <1>1 DEF BudgetInv, Budgets
<1> QED BY <1>2, <1>3, <1>4, <1>5 DEF SpfInv

LEMMA OutcomeKeeps ==
    ASSUME SpfInv, NEW o, NEW fs, Outcome(o, fs), UNCHANGED case, FramesOk(fs), fs # <<>>, OutcomeOk(o),
           NEW n, n = Len(fs), fs[n].pos <= Len(fs[n].mechanisms),
           o.o = "match" /\ fs[n].mechanisms[fs[n].pos].q = "Pass" => Vouched(scn.zone, Identity(scn), scn.ip)
    PROVE  SpfInv'
<1>0. MaxLookups \in Nat BY AuthConstants
<1>1. case' = case /\ scn' = scn /\ spent' = o.st /\ host' = host BY DEF Outcome, scn
<1>2. fs \in Seq(Calls) /\ n \in 1..Len(fs) /\ n \in Nat
  <2>1. fs \in Seq(Calls) BY DEF FramesOk
  <2> QED BY <2>1, EmptySeq
<1>3. PICK f \in Calls : f = fs[n] BY <1>2
<1>4. FrameOk(f, scn.zone, Identity(scn)) BY <1>2, <1>3 DEF FramesOk
<1>5. /\ f.mechanisms \in Seq(SpfTerms) /\ f.pos \in Nat /\ f.pos \in 1..Len(f.mechanisms)
      /\ Len(f.mechanisms) \in Nat
  <2>1. f.mechanisms \in Seq(SpfTerms) /\ f.pos \in Nat BY DEF Calls
  <2>2. Len(f.mechanisms) \in Nat BY <2>1
  <2>3. f.pos <= Len(f.mechanisms) BY <1>3
  <2>4. f.pos \in 1..(Len(f.mechanisms) + 1) BY <1>4 DEF FrameOk
  <2> QED BY <2>1, <2>2, <2>3, <2>4
<1>6. o.st \in Budgets /\ o.st.queries \in Nat /\ o.st.lookups \in Nat BY DEF OutcomeOk, StOk, Budgets
<1>7. CASE o.o = "nomatch"
  <2>1. todo' = "walk" /\ result' = result /\ frames' = [fs EXCEPT ![n].pos = @ + 1] BY <1>7 DEF Outcome
  <2>2. SpfTypes' BY <1>1, <1>6, <2>1 DEF SpfInv, SpfTypes
  <2>3. PICK g : g = [f EXCEPT !.pos = @ + 1] OBVIOUS
  <2>4. /\ g \in Calls /\ g.domain = f.domain /\ g.mechanisms = f.mechanisms /\ g.redirect = f.redirect
        /\ g.pos = f.pos + 1
    <3>1. f = [domain |-> f.domain, mechanisms |-> f.mechanisms, redirect |-> f.redirect, pos |-> f.pos]
          /\ f.domain \in Domains /\ f.redirect \in SpfNames
      BY DEF Calls
    <3>2. PICK a, b, c, k : a = f.domain /\ b = f.mechanisms /\ c = f.redirect /\ k = f.pos OBVIOUS
    <3>3. g = [domain |-> a, mechanisms |-> b, redirect |-> c, pos |-> k + 1] BY <2>3, <3>1, <3>2
    <3>4. a \in Domains /\ b \in Seq(SpfTerms) /\ c \in SpfNames  BY <1>5, <3>1, <3>2, Zenon
    <3>6. k \in Nat BY <1>5, <3>2, Zenon
    <3>5. k + 1 \in Nat BY <3>6
    <3> QED BY <3>2, <3>3, <3>4, <3>5 DEF Calls
  <2>5. FrameOk(g, scn.zone, Identity(scn))
    <3>1. g.pos \in 1..(Len(g.mechanisms) + 1) BY <1>5, <2>4
    <3> QED BY <1>4, <2>4, <3>1 DEF FrameOk
  <2>6. frames' = [fs EXCEPT ![n] = g] BY <1>2, <1>3, <2>1, <2>3
  <2>7. /\ frames' \in Seq(Calls) /\ Len(frames') = Len(fs) /\ frames'[n] = g
        /\ \A i \in 1..Len(fs) : i # n => frames'[i] = fs[i]
    BY <1>2, <2>4, <2>6
  <2>8. \A i \in 1..Len(frames') : FrameOk(frames'[i], scn.zone, Identity(scn))
    BY <2>5, <2>7 DEF FramesOk
  <2>9. frames' # << >> BY <1>2, <2>7
  <2>10. FramesInv' BY <1>1, <2>1, <2>7, <2>8, <2>9 DEF FramesInv, FramesOk
  <2>11. PassInv' BY <1>1, <2>1 DEF SpfInv, PassInv
  <2>12. BudgetInv' BY <1>0, <1>1, <1>6, <1>7, <2>1 DEF BudgetInv, OutcomeOk, StOk
  <2> QED BY <2>2, <2>10, <2>11, <2>12 DEF SpfInv
<1>8. CASE o.o # "nomatch"
  <2>1. PICK r : r = IF o.o = "abort" THEN o.r ELSE fs[n].mechanisms[fs[n].pos].q OBVIOUS
  <2>2. todo' = "return" /\ frames' = fs /\ result' = r BY <1>8, <2>1 DEF Outcome
  <2>3. r \in SpfVerdicts
    <3>1. f.mechanisms[f.pos] \in SpfTerms BY <1>5
    <3>2. f.mechanisms[f.pos].q \in SpfVerdicts BY <3>1 DEF SpfTerms, SpfVerdicts
    <3> QED BY <1>3, <2>1, <3>2 DEF OutcomeOk
  <2>4. r = "Pass" => Vouched(scn.zone, Identity(scn), scn.ip)
    BY <1>8, <2>1 DEF OutcomeOk
  <2>5. SpfTypes' BY <1>1, <1>6, <2>2, <2>3 DEF SpfInv, SpfTypes
  <2>6. FramesInv' BY <1>1, <2>2 DEF FramesInv, FramesOk
  <2>7. PassInv' BY <1>1, <2>2, <2>4 DEF PassInv
  <2>8. BudgetInv' BY <1>0, <1>1, <1>6, <2>1, <2>2 DEF BudgetInv, OutcomeOk, StOk
  <2> QED BY <2>5, <2>6, <2>7, <2>8 DEF SpfInv
<1> QED BY <1>7, <1>8

\* What is left of a record that parses are terms of it, each of which is in order.
LEMMA ParsedRecord ==
    ASSUME NEW terms \in Seq(SpfTerms), NEW rec, rec = parse_record(terms), record_parses(terms)
    PROVE  /\ rec.mechanisms \in Seq(SpfTerms)
           /\ \A k \in 1..Len(rec.mechanisms) : rec.mechanisms[k] \in Range(terms) /\ MechanismOk(rec.mechanisms[k])
           /\ rec.redirect \in SpfNames
           /\ rec.redirect \in Domains => \E t \in Range(terms) : t.t = "redirect" /\ t.d = rec.redirect
<1> DEFINE S == {t \in Range(terms) : ~IsModifier(t)}
<1> DEFINE reds == Redirects(terms)
<1>0. rec = [mechanisms |-> SelectIn(terms, S),
             redirect |-> IF reds = {} THEN "" ELSE terms[CHOOSE i \in reds : TRUE].d]
  BY Zenon DEF parse_record
<1>1. \A t : t \in S <=> t \in Range(terms) /\ ~IsModifier(t) OBVIOUS
<1>2. \A i : i \in reds <=> i \in DOMAIN terms /\ terms[i].t = "redirect" BY DEF Redirects
<1> HIDE DEF S, reds
<1>3. /\ rec.mechanisms = SelectIn(terms, S)
      /\ rec.redirect = IF reds = {} THEN "" ELSE terms[CHOOSE i \in reds : TRUE].d
      /\ \A i \in DOMAIN terms : IsModifier(terms[i]) \/ MechanismOk(terms[i])
  <2>1. PICK a, b : a = SelectIn(terms, S) /\ b = IF reds = {} THEN "" ELSE terms[CHOOSE i \in reds : TRUE].d OBVIOUS
  <2>2. rec = [mechanisms |-> a, redirect |-> b] BY <1>0, <2>1, Zenon
  <2>3. rec.mechanisms = a /\ rec.redirect = b BY <2>2
  <2>4. \A i \in DOMAIN terms : IsModifier(terms[i]) \/ MechanismOk(terms[i]) BY Zenon DEF record_parses
  <2> QED BY <2>1, <2>3, <2>4, Zenon
<1>4. DOMAIN terms = 1..Len(terms) /\ \A i \in DOMAIN terms : terms[i] \in SpfTerms OBVIOUS
<1>5. rec.mechanisms \in Seq(SpfTerms) BY <1>3, SelectInPicks
<1>6. ASSUME NEW k \in 1..Len(rec.mechanisms)
      PROVE  rec.mechanisms[k] \in Range(terms) /\ MechanismOk(rec.mechanisms[k])
  <2>0. \A j \in 1..Len(SelectIn(terms, S)) :
           SelectIn(terms, S)[j] \in S /\ \E i \in 1..Len(terms) : SelectIn(terms, S)[j] = terms[i]
    BY SelectInRange
  <2>1. /\ rec.mechanisms[k] \in S
        /\ \E i \in 1..Len(terms) : rec.mechanisms[k] = terms[i]
    BY <1>3, <1>6, <2>0, Zenon
  <2> QED BY <1>1, <1>3, <1>4, <2>1
<1>7. CASE reds = {} BY <1>3, <1>5, <1>6, <1>7, AuthConstants DEF SpfNames
<1>8. CASE reds # {}
  <2>1. PICK i \in reds : i = CHOOSE j \in reds : TRUE BY <1>8
  <2>2. i \in DOMAIN terms /\ terms[i].t = "redirect" /\ rec.redirect = terms[i].d BY <1>2, <1>3, <1>8, <2>1
  <2>3. terms[i].d \in SpfNames BY <1>4, <2>2 DEF SpfTerms
  <2>4. terms[i] \in Range(terms) BY <2>2 DEF Range
  <2> QED BY <1>5, <1>6, <2>2, <2>3, <2>4
<1> QED BY <1>7, <1>8

\* The call on top of the stack.
LEMMA TopFrame ==
    ASSUME SpfInv, frames # <<>>
    PROVE  /\ Len(frames) \in 1..Len(frames) /\ Len(frames) \in Nat /\ frames \in Seq(Calls)
           /\ Top \in Calls /\ FrameOk(Top, scn.zone, Identity(scn))
           /\ Top.domain \in Domains /\ Top.mechanisms \in Seq(SpfTerms) /\ Top.pos \in Nat
           /\ Len(Top.mechanisms) \in Nat /\ Top.redirect \in SpfNames
           /\ Top.pos <= Len(Top.mechanisms) =>
                /\ Top.pos \in 1..Len(Top.mechanisms) /\ Mech \in SpfTerms
                /\ Mech \in Terms(scn.zone, Top.domain) /\ MechanismOk(Mech)
<1>1. frames \in Seq(Calls) /\ \A i \in 1..Len(frames) : FrameOk(frames[i], scn.zone, Identity(scn))
  BY DEF SpfInv, FramesInv, FramesOk
<1>2. Len(frames) \in 1..Len(frames) /\ Len(frames) \in Nat BY <1>1, EmptySeq
<1>3. Top \in Calls /\ FrameOk(Top, scn.zone, Identity(scn)) BY <1>1, <1>2 DEF Top
<1>4. /\ Top.domain \in Domains /\ Top.mechanisms \in Seq(SpfTerms) /\ Top.pos \in Nat
      /\ Top.redirect \in SpfNames
  BY <1>3 DEF Calls
<1>5. Len(Top.mechanisms) \in Nat BY <1>4
<1>6. Top.pos \in 1..(Len(Top.mechanisms) + 1) BY <1>3 DEF FrameOk
<1>7. ASSUME Top.pos <= Len(Top.mechanisms)
      PROVE  /\ Top.pos \in 1..Len(Top.mechanisms) /\ Mech \in SpfTerms
             /\ Mech \in Terms(scn.zone, Top.domain) /\ MechanismOk(Mech)
  <2>1. Top.pos \in 1..Len(Top.mechanisms) BY <1>4, <1>5, <1>6, <1>7
  <2>2. Mech \in SpfTerms BY <1>4, <2>1 DEF Mech
  <2>3. Mech \in Terms(scn.zone, Top.domain) /\ MechanismOk(Mech) BY <1>3, <2>1 DEF FrameOk, Mech
  <2> QED BY <2>1, <2>2, <2>3
<1> QED BY <1>1, <1>2, <1>3, <1>4, <1>5, <1>7

LEMMA BudgetFacts ==
    ASSUME SpfInv
    PROVE  /\ StOk(spent) /\ spent \in Budgets /\ spent.queries \in Nat /\ spent.lookups \in Nat
           /\ MaxLookups \in Nat
           /\ todo \in {"start", "call"} => spent.queries <= spent.lookups
           /\ todo \notin {"return", "done"} => spent.lookups <= MaxLookups
<1>1. spent \in Budgets BY DEF SpfInv, SpfTypes
<1>2. spent.queries \in Nat /\ spent.lookups \in Nat /\ MaxLookups \in Nat BY <1>1, AuthConstants DEF Budgets
<1> QED BY <1>1, <1>2 DEF SpfInv, BudgetInv, StOk

LEMMA EvaluateKeeps == ASSUME SpfInv, spf_evaluate, UNCHANGED case PROVE SpfInv'
<1>1. todo = "start" BY DEF spf_evaluate
<1>2. case \in Cases BY DEF SpfInv, SpfTypes
<1>3. ZoneOk(scn.zone) /\ scn.from \in Domains \cup {""} /\ scn.helo \in Domains \cup {""} BY <1>2, ScenarioFacts
<1>4. CASE Identity(scn) = ""
  <2>1. todo' = "done" /\ UNCHANGED <<frames, host, spent, result>> BY <1>4, AuthConstants DEF spf_evaluate
  <2>2. UNCHANGED scn BY DEF scn
  <2>3. SpfTypes' BY <2>1 DEF SpfInv, SpfTypes
  <2>4. FramesInv' BY <2>1, <2>2 DEF SpfInv, FramesInv, FramesOk
  <2>5. PassInv' BY <2>1, <2>2 DEF SpfInv, PassInv
  <2>6. BudgetInv' BY <1>1, <2>1, BudgetFacts DEF SpfInv, BudgetInv
  <2> QED BY <2>3, <2>4, <2>5, <2>6 DEF SpfInv
<1>5. CASE Identity(scn) # ""
  <2>1. Call(Identity(scn), spent) BY <1>5 DEF spf_evaluate
  <2>2. Identity(scn) \in Domains BY <1>3, <1>5 DEF Identity
  <2>3. DOMAIN scn.zone.txt = Domains BY <1>3 DEF ZoneOk
  <2>4. Identity(scn) \in Reached(scn.zone, Identity(scn)) BY <2>2, <2>3, ReachedRoot
  <2> QED BY <1>1, <2>1, <2>2, <2>4, BudgetFacts, CallKeeps
<1> QED BY <1>4, <1>5

LEMMA CheckHostKeeps == ASSUME SpfInv, check_host, UNCHANGED case PROVE SpfInv'
<1>1. todo = "call" /\ frames # <<>> BY DEF check_host, SpfInv, FramesInv
<1>2. PICK z : z = scn.zone OBVIOUS
<1>3. ZoneOk(z) BY <1>2, ScenarioFacts DEF SpfInv, SpfTypes
<1>4. PICK d \in Domains : d = Top.domain BY <1>1, TopFrame
<1>5. PICK txt : txt = z.txt[d] OBVIOUS
<1>6. txt.v \in Seq([spf : BOOLEAN, terms : Seq(SpfTerms)]) BY <1>3, <1>5 DEF ZoneOk
<1>7. PICK cands : cands = {i \in DOMAIN txt.v : txt.v[i].spf} OBVIOUS
<1>8. PICK ts : ts = txt.v[CHOOSE i \in cands : TRUE].terms OBVIOUS
<1>14. PICK rec : rec = parse_record(ts) OBVIOUS
<1>9. PICK st : st = Queried(spent) OBVIOUS
<1>10. st \in Budgets /\ st.lookups = spent.lookups /\ st.queries = spent.queries + 1 BY <1>9, BudgetFacts, QueriedIs
<1>11. StOk(spent) /\ StOk(st) /\ spent.lookups <= MaxLookups /\ ~(st.lookups > MaxLookups) /\ ~(spent.lookups > MaxLookups)
  BY <1>1, <1>10, BudgetFacts DEF StOk
<1>12. CASE \E r \in {"PermError", "None", "TempError"}, s \in {spent, st} : Return(r, s)
  <2>1. PICK r \in {"PermError", "None", "TempError"}, s \in {spent, st} : Return(r, s) BY <1>12
  <2>2. r \in SpfVerdicts /\ r # "Pass" /\ StOk(s) /\ ~(s.lookups > MaxLookups) BY <1>11, <2>1 DEF SpfVerdicts
  <2> QED BY <1>1, <2>1, <2>2, ReturnKeeps
<1>13. CASE /\ todo' = "walk" /\ spent' = st /\ UNCHANGED <<host, result>>
            /\ cands # {} /\ ~(\E i, j \in cands : i # j) /\ record_parses(ts)
            /\ frames' = [frames EXCEPT ![Len(frames)] =
                             [domain |-> @.domain, mechanisms |-> rec.mechanisms, redirect |-> rec.redirect, pos |-> 1]]
  <2>1. PICK i \in cands : i = CHOOSE j \in cands : TRUE BY <1>13
  <2>2. i \in DOMAIN txt.v /\ txt.v[i].spf /\ cands = {i} BY <1>7, <1>13, <2>1
  <2>13. txt.v[i] \in [spf : BOOLEAN, terms : Seq(SpfTerms)] 
    <3>1. PICK TX : TX = [spf : BOOLEAN, terms : Seq(SpfTerms)] OBVIOUS
    <3>2. txt.v \in Seq(TX) BY <1>6, <3>1, Zenon
    <3>3. txt.v[i] \in TX BY <2>2, <3>2
    <3> QED BY <3>1, <3>3, Zenon
  <2>3. PICK terms \in Seq(SpfTerms) : terms = txt.v[i].terms BY <2>13
  <2>4. rec = parse_record(terms) /\ record_parses(terms) BY <1>8, <1>13, <1>14, <2>1, <2>3
  <2>5. /\ rec.mechanisms \in Seq(SpfTerms)
        /\ \A k \in 1..Len(rec.mechanisms) : rec.mechanisms[k] \in Range(terms) /\ MechanismOk(rec.mechanisms[k])
        /\ rec.redirect \in SpfNames
        /\ rec.redirect \in Domains => \E t \in Range(terms) : t.t = "redirect" /\ t.d = rec.redirect
    BY <2>4, ParsedRecord
  <2>6. Range(terms) \subseteq Terms(z, d)
    <3>1. cands = {x \in DOMAIN z.txt[d].v : z.txt[d].v[x].spf} BY <1>5, <1>7
    <3>2. \A x \in Range(terms) : \E x1 \in cands : x \in Range(z.txt[d].v[x1].terms) BY <1>5, <2>2, <2>3
    <3> QED BY <2>2, <3>1, <3>2 DEF Terms
  <2>7. rec.redirect \in Domains => rec.redirect \in Refers(z, d)
    <3>1. DOMAIN z.txt = Domains BY <1>3 DEF ZoneOk
    <3> QED BY <2>5, <2>6, <3>1 DEF Refers
  <2>8. PICK n : n = Len(frames) OBVIOUS
  <2>9. n \in 1..Len(frames) /\ frames \in Seq(Calls) /\ frames[n] \in Calls
        /\ FrameOk(frames[n], z, Identity(scn)) /\ frames[n].domain = d /\ frames[n].pos \in Nat
    BY <1>1, <1>2, <1>4, <2>8, TopFrame DEF Top
  <2>10. PICK g : g = [domain |-> d, mechanisms |-> rec.mechanisms, redirect |-> rec.redirect, pos |-> 1]
    OBVIOUS
  <2>11. g \in Calls BY <2>5, <2>9, <2>10 DEF Calls
  <2>12. frames' = [frames EXCEPT ![n] = g]
    BY <1>13, <2>8, <2>9, <2>10
  <2>14. FrameOk(g, z, Identity(scn))
    <3>1. g.domain = d /\ g.mechanisms = rec.mechanisms /\ g.redirect = rec.redirect /\ g.pos = 1 BY <2>10
    <3>2. d \in Reached(z, Identity(scn)) BY <2>9 DEF FrameOk
    <3>3. Len(rec.mechanisms) \in Nat BY <2>5
    <3>4. 1 \in 1..(Len(rec.mechanisms) + 1) BY <3>3
    <3> QED BY <2>5, <2>6, <2>7, <3>1, <3>2, <3>4 DEF FrameOk
  <2>15. /\ frames' \in Seq(Calls) /\ Len(frames') = Len(frames) /\ frames'[n] = g
         /\ \A k \in 1..Len(frames) : k # n => frames'[k] = frames[k]
    BY <2>9, <2>11, <2>12
  <2>16. UNCHANGED scn BY DEF scn
  <2>17. \A k \in 1..Len(frames') : FrameOk(frames'[k], z, Identity(scn))
    BY <1>2, <2>14, <2>15 DEF SpfInv, FramesInv, FramesOk
  <2>18. frames' # << >> BY <2>9, <2>15
  <2>19. FramesInv' BY <1>2, <1>13, <2>15, <2>16, <2>17, <2>18 DEF FramesInv, FramesOk
  <2>20. SpfTypes' BY <1>10, <1>13 DEF SpfInv, SpfTypes
  <2>21. PassInv' BY <1>13, <2>16 DEF SpfInv, PassInv
  <2>22. BudgetInv' BY <1>11, <1>13 DEF BudgetInv, StOk
  <2> QED BY <2>19, <2>20, <2>21, <2>22 DEF SpfInv
<1> QED BY <1>2, <1>4, <1>5, <1>7, <1>8, <1>9, <1>12, <1>13, <1>14 DEF check_host

\* What every step at a mechanism starts from.
LEMMA AtTheMechanism ==
    ASSUME SpfInv, todo \in {"walk", "mx"}
    PROVE  /\ frames # <<>> /\ FramesOk(frames) /\ spent.lookups <= MaxLookups /\ StOk(spent)
           /\ spent \in Budgets /\ spent.queries <= spent.lookups + 1
BY BudgetFacts DEF SpfInv, FramesInv, BudgetInv

\* A charge and the query after it stay in the budget, or the charge is the overdraft.
LEMMA ChargeAndQuery ==
    ASSUME NEW st0 \in Budgets, st0.lookups <= MaxLookups, st0.queries <= st0.lookups + 1,
           NEW st, st = charge_lookup(st0), NEW s, s = Queried(st)
    PROVE  /\ StOk(st) /\ st.queries <= st.lookups /\ (~OverLookups(st) => st.lookups <= MaxLookups)
           /\ s \in Budgets /\ s.lookups = st.lookups /\ (~OverLookups(st) => StOk(s))
<1>1. st \in Budgets /\ st.lookups = st0.lookups + 1 /\ st.queries = st0.queries BY Charged
<1>2. s \in Budgets /\ s.lookups = st.lookups /\ s.queries = st.queries + 1 BY <1>1, QueriedIs
<1>3. /\ st.lookups \in Nat /\ st.queries \in Nat /\ st0.lookups \in Nat /\ st0.queries \in Nat /\ MaxLookups \in Nat
  BY <1>1, AuthConstants DEF Budgets
<1> QED BY <1>1, <1>2, <1>3 DEF StOk, OverLookups

LEMMA MacroKeeps == ASSUME SpfInv, macro_mechanism, UNCHANGED case PROVE SpfInv'
<1>1. todo = "walk" /\ Return("PermError", spent) BY DEF macro_mechanism, AtMechanism
<1>2. "PermError" \in SpfVerdicts BY DEF SpfVerdicts
<1> QED BY <1>1, <1>2, AtTheMechanism, ReturnKeeps

LEMMA PlainKeeps == ASSUME SpfInv, plain_mechanism, UNCHANGED case PROVE SpfInv'
<1>1. /\ todo = "walk" /\ Top.pos <= Len(Top.mechanisms) /\ Mech.t \notin {"include", "mx"}
  BY DEF plain_mechanism, AtMechanism
<1>2. PICK o : o = eval_mechanism(scn.zone, Mech, Top.domain, scn.ip, spent) OBVIOUS
<1>3. Outcome(o, frames) BY <1>2 DEF plain_mechanism
<1>4. frames # <<>> BY <1>1, AtTheMechanism
<1>5. Mech \in SpfTerms /\ MechanismOk(Mech) /\ Top.pos \in 1..Len(Top.mechanisms)
      /\ FrameOk(Top, scn.zone, Identity(scn))
  BY <1>1, <1>4, TopFrame
<1>6. OutcomeOk(o) /\ (o.o = "match" => Stands(scn.zone, Top.domain, Mech, scn.ip))
  BY <1>1, <1>2, <1>5, AtTheMechanism, PlainOutcome
<1>7. o.o = "match" /\ Mech.q = "Pass" => Vouched(scn.zone, Identity(scn), scn.ip)
  BY <1>5, <1>6, StandsVouches DEF Mech
<1> QED BY <1>1, <1>3, <1>4, <1>6, <1>7, AtTheMechanism, OutcomeKeeps DEF Top, Mech

LEMMA IncludeKeeps == ASSUME SpfInv, include_mechanism, UNCHANGED case PROVE SpfInv'
<1>1. todo = "walk" /\ Top.pos <= Len(Top.mechanisms) /\ Mech.t = "include" /\ ~mechanism_has_macro(Mech)
  BY DEF include_mechanism, AtMechanism
<1>2. PICK st : st = charge_lookup(spent) OBVIOUS
<1>3. StOk(st) /\ st.queries <= st.lookups /\ (~OverLookups(st) => st.lookups <= MaxLookups)
  BY <1>1, <1>2, AtTheMechanism, ChargeAndQuery
<1>4. frames # <<>> BY <1>1, AtTheMechanism
<1>5. CASE OverLookups(st)
  <2>1. Return("PermError", st) BY <1>2, <1>5 DEF include_mechanism
  <2>2. "PermError" \in SpfVerdicts BY DEF SpfVerdicts
  <2> QED BY <1>3, <1>4, <2>1, <2>2, ReturnKeeps
<1>6. CASE ~OverLookups(st)
  <2>1. Call(Mech.d, st) BY <1>2, <1>6 DEF include_mechanism
  <2>2. Mech \in SpfTerms /\ MechanismOk(Mech) /\ Mech \in Terms(scn.zone, Top.domain)
        /\ FrameOk(Top, scn.zone, Identity(scn))
    BY <1>1, <1>4, TopFrame
  <2>3. Mech.d \in Domains
    <3>1. Mech.d \in SpfNames BY <2>2 DEF SpfTerms
    <3>2. Mech.d # "" BY <1>1, <2>2 DEF MechanismOk
    <3>3. Mech.d # "%" BY <1>1 DEF mechanism_has_macro
    <3> QED BY <3>1, <3>2, <3>3 DEF SpfNames
  <2>4. DOMAIN scn.zone.txt = Domains BY ScenarioFacts DEF SpfInv, SpfTypes, ZoneOk
  <2>5. Mech.d \in Refers(scn.zone, Top.domain) BY <1>1, <2>2, <2>3, <2>4 DEF Refers
  <2>6. Mech.d \in Reached(scn.zone, Identity(scn)) BY <2>2, <2>5, ReachedOn DEF FrameOk
  <2> QED BY <1>3, <1>6, <2>1, <2>3, <2>6, CallKeeps DEF StOk
<1> QED BY <1>5, <1>6

LEMMA RedirectKeeps == ASSUME SpfInv, end_of_record, UNCHANGED case PROVE SpfInv'
<1>1. todo = "walk" BY DEF end_of_record
<1>2. PICK st : st = charge_lookup(spent) OBVIOUS
<1>3. StOk(st) /\ st.queries <= st.lookups /\ (~OverLookups(st) => st.lookups <= MaxLookups)
  BY <1>1, <1>2, AtTheMechanism, ChargeAndQuery
<1>4. frames # <<>> BY <1>1, AtTheMechanism
<1>5. "PermError" \in SpfVerdicts /\ "Neutral" \in SpfVerdicts BY DEF SpfVerdicts
<1>6. CASE Return("Neutral", spent) /\ Top.redirect = "" 
  <2>1. ~(spent.lookups > MaxLookups) BY <1>1, BudgetFacts
  <2> QED BY <1>1, <1>4, <1>5, <1>6, <2>1, AtTheMechanism, ReturnKeeps
<1>7. CASE Return("PermError", spent) BY <1>1, <1>4, <1>5, <1>7, AtTheMechanism, ReturnKeeps
<1>8. CASE Return("PermError", st) BY <1>3, <1>4, <1>5, <1>8, ReturnKeeps
<1>9. CASE Call(Top.redirect, st) /\ ~OverLookups(st) /\ Top.redirect # "" /\ Top.redirect # "%"
  <2>1. Top.redirect \in SpfNames /\ FrameOk(Top, scn.zone, Identity(scn)) BY <1>4, TopFrame
  <2>2. Top.redirect \in Domains BY <1>9, <2>1 DEF SpfNames
  <2>3. Top.redirect \in Reached(scn.zone, Identity(scn)) BY <2>1, <2>2, ReachedOn DEF FrameOk
  <2> QED BY <1>3, <1>9, <2>2, <2>3, CallKeeps DEF StOk
<1> QED BY <1>2, <1>6, <1>7, <1>8, <1>9, Zenon DEF end_of_record

LEMMA MxKeeps == ASSUME SpfInv, mx_mechanism, UNCHANGED case PROVE SpfInv'
<1>1. todo = "walk" /\ Top.pos <= Len(Top.mechanisms) /\ Mech.t = "mx" /\ ~mechanism_has_macro(Mech)
  BY DEF mx_mechanism, AtMechanism
<1>2. PICK st, s : st = charge_lookup(spent) /\ s = Queried(st) OBVIOUS
<1>3. /\ StOk(st) /\ st.queries <= st.lookups /\ (~OverLookups(st) => st.lookups <= MaxLookups)
      /\ s \in Budgets /\ s.lookups = st.lookups /\ (~OverLookups(st) => StOk(s))
  BY <1>1, <1>2, AtTheMechanism, ChargeAndQuery
<1>4. frames # <<>> /\ FramesOk(frames) BY <1>1, AtTheMechanism
<1>5. "PermError" \in SpfVerdicts /\ "TempError" \in SpfVerdicts BY DEF SpfVerdicts
<1>6. st.lookups \in Nat /\ MaxLookups \in Nat BY <1>3, AuthConstants DEF StOk, Budgets
<1>7. PICK ans : ans = scn.zone.mx[Target] OBVIOUS
<1>8. CASE Return("PermError", st) BY <1>3, <1>4, <1>5, <1>8, ReturnKeeps
<1>9. CASE ~OverLookups(st) /\ Return("TempError", s)
  <2>1. StOk(s) /\ ~(s.lookups > MaxLookups) BY <1>3, <1>6, <1>9
  <2> QED BY <1>4, <1>5, <1>9, <2>1, ReturnKeeps
<1>10. CASE ~OverLookups(st) /\ Outcome(charge_void(s), frames)
  <2>1. PICK o : o = charge_void(s) OBVIOUS
  <2>2. /\ o.st \in Budgets /\ o.st.lookups = s.lookups /\ o.st.queries = s.queries
        /\ o.o \in {"nomatch", "abort"} /\ o.r \in SpfVerdicts \ {"Pass"}
    BY <1>3, <2>1, ChargeVoid
  <2>3. OutcomeOk(o) BY <1>3, <1>6, <1>10, <2>2 DEF OutcomeOk, StOk
  <2>4. o.o # "match" BY <2>2
  <2> QED BY <1>1, <1>4, <1>10, <2>1, <2>3, <2>4, OutcomeKeeps DEF Top
<1>11. CASE ~OverLookups(st) /\ ans.v # <<>> /\ todo' = "mx" /\ host' = 1 /\ spent' = s /\ UNCHANGED <<frames, result>>
  <2>1. UNCHANGED scn BY DEF scn
  <2>2. UNCHANGED <<Top, Mech, Target>> BY <1>11 DEF Top, Mech, Target
  <2>3. Target \in Domains
    <3>1. Mech \in SpfTerms /\ Top.domain \in Domains BY <1>1, <1>4, TopFrame
    <3>2. Mech.d \in SpfNames BY <3>1 DEF SpfTerms
    <3>3. Mech.d # "%" BY <1>1 DEF mechanism_has_macro
    <3> QED BY <3>1, <3>2, <3>3 DEF SpfNames, Target
  <2>4. ans.v \in Seq(Domains)
    <3>1. ZoneOk(scn.zone) BY ScenarioFacts DEF SpfInv, SpfTypes
    <3> QED BY <1>7, <2>3, <3>1 DEF ZoneOk
  <2>5. 1 \in 1..Len(ans.v) BY <1>11, <2>4
  <2>6. SpfTypes' BY <1>3, <1>11 DEF SpfInv, SpfTypes
  <2>7. FramesInv'
    <3>1. (Top.pos <= Len(Top.mechanisms) /\ Mech.t = "mx" /\ ~mechanism_has_macro(Mech))'
      BY <1>1, <2>2 DEF mechanism_has_macro
    <3>2. (host \in 1..Len(scn.zone.mx[Target].v))' BY <1>7, <1>11, <2>1, <2>2, <2>5
    <3> QED BY <1>4, <1>11, <2>1, <3>1, <3>2 DEF FramesInv, FramesOk
  <2>8. PassInv' BY <1>11, <2>1 DEF SpfInv, PassInv
  <2>9. BudgetInv' BY <1>3, <1>6, <1>11 DEF BudgetInv, StOk
  <2> QED BY <2>6, <2>7, <2>8, <2>9 DEF SpfInv
<1> QED BY <1>2, <1>7, <1>8, <1>9, <1>10, <1>11 DEF mx_mechanism

LEMMA MxHostKeeps == ASSUME SpfInv, mx_host, UNCHANGED case PROVE SpfInv'
<1>1. todo = "mx" BY DEF mx_host
<1>2. /\ Top.pos <= Len(Top.mechanisms) /\ Mech.t = "mx" /\ ~mechanism_has_macro(Mech)
      /\ host \in 1..Len(scn.zone.mx[Target].v)
  BY <1>1 DEF SpfInv, FramesInv
<1>3. frames # <<>> /\ FramesOk(frames) BY <1>1, AtTheMechanism
<1>4. PICK z, hosts : z = scn.zone /\ hosts = z.mx[Target].v OBVIOUS
<1>5. PICK st, s : st = charge_lookup(spent) /\ s = Queried(st) OBVIOUS
<1>6. PICK m : m = match_address_lookup(z, hosts[host], scn.ip, Mech.c4, Mech.c6, st) OBVIOUS
<1>7. /\ StOk(st) /\ st.queries <= st.lookups /\ (~OverLookups(st) => st.lookups <= MaxLookups)
  BY <1>1, <1>5, AtTheMechanism, ChargeAndQuery
<1>8. /\ m.st \in Budgets /\ m.st.lookups = st.lookups /\ m.st.queries = st.queries + 1
      /\ m.o \in {"match", "nomatch", "abort"} /\ m.r \in SpfVerdicts \ {"Pass"}
      /\ m.o = "match" => \E x \in (IF scn.ip.v = 4 THEN z.a[hosts[host]].v ELSE z.aaaa[hosts[host]].v) :
                             IF scn.ip.v = 4 THEN in_cidr(W4, scn.ip.n, x, Mech.c4)
                                             ELSE in_cidr(W6, scn.ip.n, x, Mech.c6)
  BY <1>6, <1>7, AddressLookup DEF StOk
<1>9. st.lookups \in Nat /\ st.queries \in Nat /\ MaxLookups \in Nat BY <1>7, AuthConstants DEF StOk, Budgets
<1>10. ~OverLookups(st) => OutcomeOk(m) BY <1>7, <1>8, <1>9 DEF OutcomeOk, StOk
<1>11. m.o = "match" /\ Mech.q = "Pass" => Vouched(z, Identity(scn), scn.ip)
  <2>1. SUFFICES ASSUME m.o = "match", Mech.q = "Pass" PROVE Vouched(z, Identity(scn), scn.ip) OBVIOUS
  <2>2. Top.pos \in 1..Len(Top.mechanisms) /\ FrameOk(Top, z, Identity(scn)) BY <1>2, <1>3, <1>4, TopFrame
  <2>3. host \in DOMAIN hosts
    <3>1. Target \in Domains
      <4>1. Mech \in SpfTerms /\ Top.domain \in Domains BY <1>2, <1>3, TopFrame
      <4>2. Mech.d \in SpfNames BY <4>1 DEF SpfTerms
      <4>3. Mech.d # "%" BY <1>2 DEF mechanism_has_macro
      <4> QED BY <4>1, <4>2, <4>3 DEF SpfNames, Target
    <3>2. ZoneOk(z) BY <1>4, ScenarioFacts DEF SpfInv, SpfTypes
    <3>3. hosts \in Seq(Domains) BY <1>4, <3>1, <3>2 DEF ZoneOk
    <3> QED BY <1>2, <1>4, <3>3
  <2>4. Target = IF Mech.d = "" THEN Top.domain ELSE Mech.d BY DEF Target
  <2>5. Stands(z, Top.domain, Mech, scn.ip) BY <1>2, <1>4, <1>8, <2>1, <2>3, <2>4 DEF Stands
  <2> QED BY <2>1, <2>2, <2>5, StandsVouches DEF Mech
<1>12. CASE OverLookups(st)
  <2>1. Return("PermError", st) BY <1>5, <1>12 DEF mx_host
  <2>2. "PermError" \in SpfVerdicts BY DEF SpfVerdicts
  <2> QED BY <1>3, <1>7, <2>1, <2>2, ReturnKeeps
<1>13. CASE ~OverLookups(st) /\ Outcome(m, frames)
  BY <1>2, <1>3, <1>4, <1>10, <1>11, <1>13, OutcomeKeeps DEF Top, Mech
<1>14. CASE /\ ~OverLookups(st) /\ host # Len(hosts) /\ host' = host + 1 /\ spent' = m.st
            /\ UNCHANGED <<todo, frames, result>>
  <2>1. UNCHANGED scn BY DEF scn
  <2>2. UNCHANGED <<Top, Mech, Target>> BY <1>14 DEF Top, Mech, Target
  <2>3. host + 1 \in Nat /\ SpfTypes' BY <1>8, <1>14 DEF SpfInv, SpfTypes
  <2>4. FramesInv'
    <3>1. (Top.pos <= Len(Top.mechanisms) /\ Mech.t = "mx" /\ ~mechanism_has_macro(Mech))'
      BY <1>2, <2>2 DEF mechanism_has_macro
    <3>2. host + 1 \in 1..Len(hosts) BY <1>2, <1>4, <1>14
    <3>3. (host \in 1..Len(scn.zone.mx[Target].v))' BY <1>4, <1>14, <2>1, <2>2, <3>2
    <3> QED BY <1>3, <1>14, <2>1, <3>1, <3>3 DEF FramesInv, FramesOk
  <2>5. PassInv' BY <1>14, <2>1 DEF SpfInv, PassInv
  <2>6. BudgetInv' BY <1>1, <1>7, <1>8, <1>9, <1>14 DEF BudgetInv, StOk
  <2> QED BY <2>3, <2>4, <2>5, <2>6 DEF SpfInv
<1> QED BY <1>4, <1>5, <1>6, <1>12, <1>13, <1>14 DEF mx_host

LEMMA ReturnedKeeps == ASSUME SpfInv, return_to_caller, UNCHANGED case PROVE SpfInv'
<1>0. UNCHANGED scn BY DEF scn
<1>1. todo = "return" /\ frames # <<>> BY DEF return_to_caller, SpfInv, FramesInv
<1>2. PICK n \in Nat : n = Len(frames) /\ n >= 1 BY <1>1, TopFrame
<1>3. PICK fs : fs = SubSeq(frames, 1, n - 1) OBVIOUS
<1>4. frames \in Seq(Calls) /\ \A i \in 1..n : FrameOk(frames[i], scn.zone, Identity(scn))
  BY <1>2 DEF SpfInv, FramesInv, FramesOk
<1>5. fs \in Seq(Calls) /\ Len(fs) = n - 1 /\ \A i \in 1..(n - 1) : fs[i] = frames[i] BY <1>2, <1>3, <1>4
<1>6. FramesOk(fs) BY <1>2, <1>4, <1>5 DEF FramesOk
<1>7. PICK caller : caller = fs[Len(fs)] OBVIOUS
<1>8. CASE frames' = fs /\ todo' \in {"return", "done"} /\ (fs = <<>> => todo' = "done") /\ UNCHANGED <<host, spent, result>>
  <2>1. SpfTypes' BY <1>8 DEF SpfInv, SpfTypes
  <2>2. FramesInv' BY <1>0, <1>6, <1>8 DEF FramesInv, FramesOk
  <2>3. PassInv' BY <1>0, <1>8 DEF SpfInv, PassInv
  <2>4. BudgetInv' BY <1>1, <1>8 DEF SpfInv, BudgetInv
  <2> QED BY <2>1, <2>2, <2>3, <2>4 DEF SpfInv
<1>9. CASE /\ fs # <<>> /\ caller.pos <= Len(caller.mechanisms) /\ Outcome(IncludeOutcome(result, spent), fs)
  <2>1. PICK o : o = IncludeOutcome(result, spent) OBVIOUS
  <2>2. result \in SpfVerdicts BY DEF SpfInv, SpfTypes
  <2>3. /\ o.st = spent /\ o.o \in {"match", "nomatch", "abort"} /\ o.r \in SpfVerdicts \ {"Pass"}
        /\ o.o = "match" => result = "Pass"
        /\ result = "PermError" => o.o = "abort" /\ o.r = "PermError"
    <3>1. CASE result = "Pass"
      <4>1. o = Match(spent) BY <2>1, <3>1 DEF IncludeOutcome
      <4> QED BY <3>1, <4>1, OutcomeFields
    <3>2. CASE result \in {"Fail", "SoftFail", "Neutral"}
      <4>1. o = NoMatch(spent) BY <2>1, <3>2 DEF IncludeOutcome
      <4> QED BY <3>2, <4>1, OutcomeFields
    <3>3. CASE result = "TempError"
      <4>1. o = Abort("TempError", spent) BY <2>1, <3>3 DEF IncludeOutcome
      <4> QED BY <3>3, <4>1, OutcomeFields
    <3>4. CASE result \in {"None", "PermError"}
      <4>1. o = Abort("PermError", spent) BY <2>1, <3>4 DEF IncludeOutcome
      <4> QED BY <4>1, OutcomeFields
    <3> QED BY <2>2, <3>1, <3>2, <3>3, <3>4 DEF SpfVerdicts
  <2>4. spent.lookups > MaxLookups => result = "PermError" BY DEF SpfInv, BudgetInv
  <2>5. OutcomeOk(o) BY <2>3, <2>4, BudgetFacts DEF OutcomeOk
  <2>6. o.o = "match" => Vouched(scn.zone, Identity(scn), scn.ip) BY <2>3 DEF SpfInv, PassInv
  <2> QED BY <1>6, <1>7, <1>9, <2>1, <2>5, <2>6, OutcomeKeeps
<1> QED BY <1>1, <1>2, <1>3, <1>7, <1>8, <1>9 DEF return_to_caller

LEMMA SpfInitInv == AuthInit => SpfInv
<1> SUFFICES ASSUME AuthInit PROVE SpfInv OBVIOUS
<1>1. /\ case \in Cases /\ todo = "start" /\ frames = <<>> /\ host = 0 /\ spent = Evaluator0 /\ result = "None"
  BY DEF AuthInit
<1>2. spent \in Budgets /\ spent.lookups = 0 /\ spent.queries = 0 BY <1>1 DEF Evaluator0, Budgets
<1>3. SpfTypes BY <1>1, <1>2 DEF SpfTypes, SpfVerdicts
<1>4. FramesInv
  <2>1. << >> \in Seq(Calls) /\ Len(<< >>) = 0 OBVIOUS
  <2>2. frames \in Seq(Calls) /\ Len(frames) = 0 BY <1>1, <2>1, Zenon
  <2>3. FramesOk(frames) BY <2>2 DEF FramesOk
  <2> QED BY <1>1, <2>3 DEF FramesInv
<1>5. MaxLookups \in Nat BY AuthConstants
<1>6. PassInv BY <1>1 DEF PassInv
<1>7. BudgetInv BY <1>1, <1>2, <1>5 DEF BudgetInv
<1> QED BY <1>3, <1>4, <1>6, <1>7 DEF SpfInv

LEMMA SpfStepKeeps == SpfInv /\ [AuthNext]_authVars => SpfInv'
<1> SUFFICES ASSUME SpfInv, [AuthNext]_authVars PROVE SpfInv' OBVIOUS
<1>1. CASE UNCHANGED <<case, spfVars>>
  <2>1. UNCHANGED <<case, todo, frames, host, spent, result, scn, Top, Mech, Target>>
    BY <1>1 DEF spfVars, scn, Top, Mech, Target
  <2>2. SpfTypes' BY <2>1 DEF SpfInv, SpfTypes
  <2>3. FramesInv' BY <2>1 DEF SpfInv, FramesInv, FramesOk, mechanism_has_macro
  <2>4. PassInv' /\ BudgetInv' BY <2>1 DEF SpfInv, PassInv, BudgetInv
  <2> QED BY <2>2, <2>3, <2>4 DEF SpfInv
<1>2. CASE SpfStep /\ UNCHANGED <<case, decision>>
  BY <1>2, EvaluateKeeps, CheckHostKeeps, MacroKeeps, PlainKeeps, IncludeKeeps, MxKeeps, MxHostKeeps,
     RedirectKeeps, ReturnedKeeps DEF SpfStep
<1> QED BY <1>1, <1>2 DEF AuthNext, accept_message, authVars

\* spf.rs: for every contents of DNS, records that refer to each other in a circle
\* included, and for every limit: a Pass is the word of a record the sender's domain leads
\* to, and no evaluation sends more than its budget of queries.
THEOREM SpfIsSound == AuthSpec => []SpfSound
<1>1. SpfInv => SpfSound BY DEF SpfInv, PassInv, BudgetInv, SpfSound, PassIsVouched, QueryBudget
<1> QED BY <1>1, SpfInitInv, SpfStepKeeps, PTL DEF AuthSpec

-----------------------------------------------------------------------------
(***************************************************************************)
(* DKIM.  sign lists From once more than it is there; both ends take the   *)
(* n-th occurrence of a name from the end of the message.  A second From   *)
(* in the message would fill the place that was empty when it was signed,  *)
(* and the two texts would have different lengths; without it the one From *)
(* is among the parts of both under its own name.                          *)
(***************************************************************************)

\* What is taken is as long as there are places to take.
Places(s, S) == {i \in 1..Len(s) : s[i] \in S}
LEMMA SelectInLen ==
    ASSUME NEW T, NEW s \in Seq(T), NEW S PROVE Len(SelectIn(s, S)) = Cardinality(Places(s, S))
<1>0. PICK M : M = {i \in 1..Len(s) : s[i] \in S} OBVIOUS
<1>1. PICK u \in Seq(T) : u = SelectIn(s, S) BY SelectInPicks
<1>2. PICK e : Picks(u, s, S, Len(s), e) BY <1>1, SelectInPicks DEF Picked
<1>3. PICK n \in Nat : n = Len(u) OBVIOUS
<1>4. e \in [1..n -> M]
  <2>1. e \in [1..n -> 1..Len(s)] BY <1>2, <1>3 DEF Picks
  <2>2. \A j \in 1..n : s[e[j]] \in S BY <1>2, <1>3, <2>1 DEF Picks
  <2> QED BY <1>0, <2>1, <2>2
<1>5. \A i \in M : \E j \in 1..n : e[j] = i BY <1>0, <1>2, <1>3 DEF Picks
<1>6. \A j, k \in 1..n : j # k => e[j] # e[k]
  <2>1. \A j \in 1..n : e[j] \in Int BY <1>2, <1>3 DEF Picks
  <2> QED BY <1>2, <1>3, <2>1 DEF Picks
<1>7. e \in Bijection(1..n, M) BY <1>4, <1>5, <1>6 DEF Bijection, Injection, IsInjective, Surjection
<1>8. IsFiniteSet(1..n) /\ Cardinality(1..n) = n
  <2>0. 1 \in Int /\ n \in Int BY <1>3
  <2>1. IsFiniteSet(1..n) /\ Cardinality(1..n) = IF 1 > n THEN 0 ELSE n - 1 + 1 BY <2>0, FS_Interval, Zenon
  <2> QED BY <1>3, <2>1
<1>9. ExistsBijection(1..n, M) BY <1>7 DEF ExistsBijection
<1>10. IsFiniteSet(M) /\ Cardinality(M) = Cardinality(1..n) BY <1>8, <1>9, FS_Bijection
<1> QED BY <1>0, <1>1, <1>3, <1>8, <1>10, Zenon DEF Places

Selected(u, s, S) ==
    /\ \A j \in 1..Len(u) : u[j] \in S /\ \E i \in 1..Len(s) : u[j] = s[i]
    /\ \A i \in 1..Len(s) : s[i] \in S => \E j \in 1..Len(u) : u[j] = s[i]
    /\ Len(u) = Cardinality(Places(s, S))
LEMMA SelectInSelected ==
    ASSUME NEW s, s \in Seq(Range(s)), NEW S, NEW u, u = SelectIn(s, S) PROVE Selected(u, s, S)
<1>1. PICK T : T = Range(s) OBVIOUS
<1>2. s \in Seq(T) BY <1>1
<1>4. Len(SelectIn(s, S)) = Cardinality(Places(s, S)) BY <1>2, SelectInLen
<1>5. /\ \A j \in 1..Len(SelectIn(s, S)) : SelectIn(s, S)[j] \in S /\ \E i \in 1..Len(s) : SelectIn(s, S)[j] = s[i]
      /\ \A i \in 1..Len(s) : s[i] \in S => \E j \in 1..Len(SelectIn(s, S)) : SelectIn(s, S)[j] = s[i]
  BY <1>2, SelectInRange
<1> QED BY <1>4, <1>5, Zenon DEF Selected

\* The headers of a name behind a place.
Behind(hdr, name, i) == {j \in DOMAIN hdr : j > i /\ hdr[j].n = name}
LEMMA BehindFinite ==
    ASSUME NEW hdr, hdr \in Seq(Range(hdr)), NEW name, NEW i
    PROVE  IsFiniteSet(Behind(hdr, name, i)) /\ Cardinality(Behind(hdr, name, i)) \in Nat
<1>1. IsFiniteSet(1..Len(hdr)) BY FS_Interval
<1>2. Behind(hdr, name, i) \in SUBSET (1..Len(hdr)) BY DEF Behind
<1> QED BY <1>1, <1>2, FS_Subset, FS_CardinalityType

LEMMA LastOf ==
    ASSUME NEW hdr, hdr \in Seq(Range(hdr)), NEW S, S \subseteq DOMAIN hdr, S # {}
    PROVE  \E x \in S : \A y \in S : y <= x
<1>1. PICK n \in Nat : n = Len(hdr) OBVIOUS
<1>2. S \subseteq 1..n BY <1>1
<1> DEFINE B == {n - x : x \in S}
<1>3. B \subseteq Nat /\ B # {} BY <1>2
<1> HIDE DEF B
<1>4. PICK b \in B : \A c \in B : b <= c BY <1>3, Minimum
<1>5. PICK x \in S : b = n - x BY <1>4 DEF B
<1>6. ASSUME NEW y \in S PROVE y <= x
  <2>1. n - y \in B BY DEF B
  <2>2. x \in Int /\ y \in Int BY <1>2
  <2> QED BY <1>4, <1>5, <2>1, <2>2
<1> QED BY <1>6

\* There is a last header of a name that is there, and none behind it.
LEMMA FirstInstance ==
    ASSUME NEW hdr, hdr \in Seq(Range(hdr)), NEW name
    PROVE  Instance(hdr, name, 0) # {} <=> \E i \in DOMAIN hdr : hdr[i].n = name
<1>1. ASSUME NEW i \in DOMAIN hdr, hdr[i].n = name PROVE Instance(hdr, name, 0) # {}
  <2>1. PICK S : S = {j \in DOMAIN hdr : hdr[j].n = name} OBVIOUS
  <2>2. PICK x \in S : \A y \in S : y <= x BY <1>1, <2>1, LastOf
  <2>3. Behind(hdr, name, x) = {}
    <3>1. x \in Nat /\ \A j \in DOMAIN hdr : j \in Nat BY <2>1
    <3> QED BY <2>1, <2>2, <3>1 DEF Behind
  <2>4. Cardinality(Behind(hdr, name, x)) = 0 BY <2>3, FS_EmptySet
  <2>5. x \in Instance(hdr, name, 0) BY <2>1, <2>4 DEF Instance, Behind
  <2> QED BY <2>5
<1>2. ASSUME Instance(hdr, name, 0) # {} PROVE \E i \in DOMAIN hdr : hdr[i].n = name
  BY <1>2 DEF Instance
<1> QED BY <1>1, <1>2

\* A second one exactly if there are two.
LEMMA SecondInstance ==
    ASSUME NEW hdr, hdr \in Seq(Range(hdr)), NEW name
    PROVE  Instance(hdr, name, 1) # {} <=> \E i, j \in DOMAIN hdr : i # j /\ hdr[i].n = name /\ hdr[j].n = name
<1>1. ASSUME NEW i \in DOMAIN hdr, NEW j \in DOMAIN hdr, i # j, hdr[i].n = name, hdr[j].n = name
      PROVE  Instance(hdr, name, 1) # {}
  <2>1. PICK S : S = {k \in DOMAIN hdr : hdr[k].n = name} OBVIOUS
  <2>20. S # {} /\ S \subseteq DOMAIN hdr BY <1>1, <2>1
  <2>2. PICK x \in S : \A y \in S : y <= x BY <2>20, LastOf
  <2>3. PICK R : R = S \ {x} OBVIOUS
  <2>4. R # {} /\ R \subseteq DOMAIN hdr BY <1>1, <2>1, <2>3
  <2>5. PICK w \in R : \A y \in R : y <= w BY <2>4, LastOf
  <2>6. x \in Nat /\ w \in Nat /\ \A k \in DOMAIN hdr : k \in Nat BY <2>1, <2>4
  <2>7. w < x BY <2>2, <2>3, <2>5, <2>6
  <2>8. Behind(hdr, name, w) = {x}
    <3>1. \A k \in Behind(hdr, name, w) : k \in S /\ k > w BY <2>1 DEF Behind
    <3>2. \A k \in S : k > w => k \notin R BY <2>4, <2>5, <2>6
    <3>3. x \in Behind(hdr, name, w) BY <2>1, <2>6, <2>7 DEF Behind
    <3> QED BY <2>3, <3>1, <3>2, <3>3
  <2>9. Cardinality(Behind(hdr, name, w)) = 1 BY <2>8, FS_Singleton
  <2>10. w \in Instance(hdr, name, 1) BY <2>1, <2>3, <2>9 DEF Instance, Behind
  <2> QED BY <2>10
<1>2. ASSUME NEW i \in Instance(hdr, name, 1)
      PROVE  \E k, j \in DOMAIN hdr : k # j /\ hdr[k].n = name /\ hdr[j].n = name
  <2>1. i \in DOMAIN hdr /\ hdr[i].n = name /\ Cardinality(Behind(hdr, name, i)) = 1 BY <1>2 DEF Instance, Behind
  <2>2. Behind(hdr, name, i) # {}
    <3>1. Cardinality({}) = 0 BY FS_EmptySet
    <3>2. 1 # 0 OBVIOUS
    <3> QED BY <2>1, <3>1, <3>2, Zenon
  <2>3. PICK j \in DOMAIN hdr : j > i /\ hdr[j].n = name BY <2>2 DEF Behind
  <2>4. i # j BY <2>1, <2>3
  <2> QED BY <2>1, <2>3, <2>4
<1> QED BY <1>1, <1>2

\* A function on an initial interval is a sequence of its values.
LEMMA TabulatedSeq ==
    ASSUME NEW n \in Nat, NEW f, DOMAIN f = 1..n, f = [k \in 1..n |-> f[k]]
    PROVE  f \in Seq(Range(f)) /\ Len(f) = n
<1>1. \A k \in 1..n : f[k] \in Range(f) BY DEF Range
<1>2. PICK g : g = [k \in 1..n |-> f[k]] OBVIOUS
<1>3. g \in Seq(Range(f)) /\ Len(g) = n BY <1>1, <1>2
<1> QED BY <1>2, <1>3

\* The names sign lists: different ones of the message, From among them.
LEMMA SignedNames ==
    ASSUME NEW hdr, hdr \in Seq(Range(hdr)), NEW at \in DOMAIN hdr, hdr[at].n = "from"
    PROVE  \E n \in Nat, h0 \in Seq(Range(SIGNED_HEADERS)) :
             /\ h0 = SelectIn(SIGNED_HEADERS, Names(hdr)) /\ Len(h0) = n
             /\ \A j, k \in 1..n : j # k => h0[j] # h0[k]
             /\ \A k \in 1..n : h0[k] \in Names(hdr)
             /\ \E k \in 1..n : h0[k] = "from"
<1>1. PICK s \in Seq(Range(SIGNED_HEADERS)) : s = SIGNED_HEADERS
  <2>1. PICK t : t = SIGNED_HEADERS OBVIOUS
  <2>2. t = <<"from", "to", "subject", "date", "message-id">> BY <2>1, Zenon DEF SIGNED_HEADERS
  <2>4. DOMAIN t = 1..5 BY <2>2
  <2>5. t = [i \in 1..5 |-> t[i]] BY <2>2
  <2>6. t \in Seq(Range(t)) BY <2>4, <2>5, TabulatedSeq
  <2> QED BY <2>1, <2>6
<1>2. Len(s) = 5 BY <1>1 DEF SIGNED_HEADERS
<1>3. s[1] = "from" /\ s[2] = "to" /\ s[3] = "subject" /\ s[4] = "date" /\ s[5] = "message-id"
  BY <1>1 DEF SIGNED_HEADERS
<1>4. \A i, j \in 1..5 : i < j => s[i] # s[j]
  <2>1. \A i \in 1..5 : i = 1 \/ i = 2 \/ i = 3 \/ i = 4 \/ i = 5 OBVIOUS
  <2> QED BY <1>3, <2>1
<1>5. PICK S : S = Names(hdr) OBVIOUS
<1>6. PICK h0 \in Seq(Range(SIGNED_HEADERS)) : h0 = SelectIn(s, S) BY SelectInPicks
<1>7. PICK e : Picks(h0, s, S, Len(s), e) BY <1>6, SelectInPicks DEF Picked
<1>8. PICK n \in Nat : n = Len(h0) OBVIOUS
<1>9. \A j, k \in 1..n : j < k => h0[j] # h0[k]
  <2>1. ASSUME NEW j \in 1..n, NEW k \in 1..n, j < k PROVE h0[j] # h0[k]
    <3>1. e[j] \in 1..5 /\ e[k] \in 1..5 BY <1>2, <1>7, <1>8 DEF Picks
    <3>2. e[j] < e[k] /\ h0[j] = s[e[j]] /\ h0[k] = s[e[k]] BY <1>7, <1>8, <2>1 DEF Picks
    <3> QED BY <1>4, <3>1, <3>2
  <2> QED BY <2>1
<1>10. \A j, k \in 1..n : j # k => h0[j] # h0[k]
  <2>1. \A j, k \in 1..n : j # k => j < k \/ k < j OBVIOUS
  <2> QED BY <1>9, <2>1
<1>11. \A k \in 1..n : h0[k] \in S BY <1>6, <1>8, SelectInRange
<1>12. \E k \in 1..n : h0[k] = "from"
  <2>1. "from" \in S BY <1>5 DEF Names
  <2>2. s[1] \in S /\ 1 \in 1..Len(s) BY <1>2, <1>3, <2>1
  <2>3. \E k \in 1..n : h0[k] = s[1] BY <1>6, <1>8, <2>2, SelectInRange
  <2> QED BY <1>3, <2>3
<1> QED BY <1>1, <1>5, <1>6, <1>8, <1>10, <1>11, <1>12

\* h is the list of names of a signature: n different ones, the p-th of them
\* From, and From once more.
Oversigned(h, n, p) ==
    /\ h \in Seq(Range(SIGNED_HEADERS)) /\ Len(h) = n + 1 /\ p \in 1..n
    /\ \A j, k \in 1..n : j # k => h[j] # h[k]
    /\ h[p] = "from" /\ h[n + 1] = "from"

\* The parts of a message under such a list: the last header of each name, and
\* the last but one From.
PartsOf(hdr, h, n) ==
    /\ \A k \in 1..n : SignedPart(hdr, h, k) # <<>> <=> \E i \in DOMAIN hdr : hdr[i].n = h[k]
    /\ SignedPart(hdr, h, n + 1) # <<>> <=>
         \E i, j \in DOMAIN hdr : i # j /\ hdr[i].n = "from" /\ hdr[j].n = "from"
    /\ \A k \in 1..(n + 1) : SignedPart(hdr, h, k) # <<>> =>
         \E i \in DOMAIN hdr : hdr[i].n = h[k] /\ SignedPart(hdr, h, k) = <<h[k], hdr[i].v>>
LEMMA OversignedParts ==
    ASSUME NEW hdr, hdr \in Seq(Range(hdr)), NEW n \in Nat, NEW p, NEW h, Oversigned(h, n, p)
    PROVE  PartsOf(hdr, h, n)
<1>1. ASSUME NEW k \in 1..n PROVE {m \in 1..(k - 1) : h[m] = h[k]} = {}
  <2>1. \A m \in 1..(k - 1) : m \in 1..n /\ m # k OBVIOUS
  <2> QED BY <2>1 DEF Oversigned
<1>2. {m \in 1..((n + 1) - 1) : h[m] = h[n + 1]} = {p}
  <2>1. (n + 1) - 1 = n OBVIOUS
  <2> QED BY <2>1 DEF Oversigned
<1>3. Cardinality({}) = 0 /\ Cardinality({p}) = 1 BY FS_EmptySet, FS_Singleton
<1>4. \A a, b : <<a, b>> # <<>> OBVIOUS
<1>5. ASSUME NEW k, NEW c, c = Cardinality({m \in 1..(k - 1) : h[m] = h[k]})
      PROVE  /\ SignedPart(hdr, h, k) # <<>> <=> Instance(hdr, h[k], c) # {}
             /\ SignedPart(hdr, h, k) # <<>> =>
                  \E i \in DOMAIN hdr : hdr[i].n = h[k] /\ SignedPart(hdr, h, k) = <<h[k], hdr[i].v>>
  <2>1. PICK at : at = Instance(hdr, h[k], c) OBVIOUS
  <2>10. at = Instance(hdr, h[k], Cardinality({m \in 1..(k - 1) : h[m] = h[k]})) BY <1>5, <2>1, Zenon
  <2>2. SignedPart(hdr, h, k) = IF at = {} THEN <<>> ELSE canonicalize_header(hdr[CHOOSE i \in at : TRUE])
    BY <2>10 DEF SignedPart
  <2>3. CASE at = {} BY <2>1, <2>2, <2>3, Zenon
  <2>4. CASE at # {}
    <3>1. PICK i : i = CHOOSE x \in at : TRUE OBVIOUS
    <3>2. i \in at BY <2>4, <3>1
    <3>3. i \in DOMAIN hdr /\ hdr[i].n = h[k] BY <2>1, <3>2 DEF Instance
    <3>4. SignedPart(hdr, h, k) = <<hdr[i].n, hdr[i].v>> BY <2>2, <2>4, <3>1, Zenon DEF canonicalize_header
    <3>5. SignedPart(hdr, h, k) = <<h[k], hdr[i].v>> BY <3>3, <3>4, Zenon
    <3>6. SignedPart(hdr, h, k) # <<>> BY <1>4, <3>5, Zenon
    <3> QED BY <2>1, <2>4, <3>3, <3>5, <3>6, Zenon
  <2> QED BY <2>3, <2>4, Zenon
<1>6. ASSUME NEW k \in 1..n PROVE SignedPart(hdr, h, k) # <<>> <=> \E i \in DOMAIN hdr : hdr[i].n = h[k]
  <2>1. Cardinality({m \in 1..(k - 1) : h[m] = h[k]}) = 0 BY <1>1, <1>3, Zenon
  <2>2. SignedPart(hdr, h, k) # <<>> <=> Instance(hdr, h[k], 0) # {} BY <1>5, <2>1, Zenon
  <2> QED BY <2>2, FirstInstance, Zenon
<1>7. SignedPart(hdr, h, n + 1) # <<>> <=>
        \E i, j \in DOMAIN hdr : i # j /\ hdr[i].n = "from" /\ hdr[j].n = "from"
  <2>1. Cardinality({m \in 1..((n + 1) - 1) : h[m] = h[n + 1]}) = 1 BY <1>2, <1>3, Zenon
  <2>2. SignedPart(hdr, h, n + 1) # <<>> <=> Instance(hdr, h[n + 1], 1) # {} BY <1>5, <2>1, Zenon
  <2>3. h[n + 1] = "from" BY DEF Oversigned
  <2> QED BY <2>2, <2>3, SecondInstance, Zenon
<1>8. ASSUME NEW k \in 1..(n + 1), SignedPart(hdr, h, k) # <<>>
      PROVE  \E i \in DOMAIN hdr : hdr[i].n = h[k] /\ SignedPart(hdr, h, k) = <<h[k], hdr[i].v>>
  BY <1>5, <1>8, Zenon
<1> QED BY <1>6, <1>7, <1>8, Zenon DEF PartsOf

\* What a signed list of headers says of From.
OneFrom(hdr, i) == i \in DOMAIN hdr /\ \A j \in DOMAIN hdr : hdr[j].n = "from" <=> j = i
SameFrom(mh, oh, i) == \E j \in DOMAIN mh : OneFrom(mh, j) /\ mh[j].v = oh[i].v
SignedHeaders(oh, h) == h = Append(SelectIn(SIGNED_HEADERS, Names(oh)), "from")

LEMMA OversignBinds ==
    ASSUME NEW oh, oh \in Seq(Range(oh)), NEW mh, mh \in Seq(Range(mh)), NEW i0, OneFrom(oh, i0),
           NEW h, SignedHeaders(oh, h),
           assemble_signed_headers(oh, h) = assemble_signed_headers(mh, h)
    PROVE  SameFrom(mh, oh, i0)
<1>0. h = Append(SelectIn(SIGNED_HEADERS, Names(oh)), "from") BY Zenon DEF SignedHeaders
<1>1. PICK n \in Nat, h0 \in Seq(Range(SIGNED_HEADERS)) :
         /\ h0 = SelectIn(SIGNED_HEADERS, Names(oh)) /\ Len(h0) = n
         /\ \A j, k \in 1..n : j # k => h0[j] # h0[k]
         /\ \A k \in 1..n : h0[k] \in Names(oh)
         /\ \E k \in 1..n : h0[k] = "from"
  <2>1. i0 \in DOMAIN oh /\ oh[i0].n = "from" BY DEF OneFrom
  <2> QED BY <2>1, SignedNames
<1>2. PICK p \in 1..n : h0[p] = "from" BY <1>1
<1>3. Oversigned(h, n, p)
  <2>1. PICK T : T = Range(SIGNED_HEADERS) OBVIOUS
  <2>2. h0 \in Seq(T) /\ h0[p] \in T BY <1>1, <2>1
  <2>3. "from" \in T BY <1>2, <2>2
  <2>30. PICK f \in T : f = "from" BY <2>3
  <2>31. h = Append(h0, f) BY <1>0, <1>1, <2>30, Zenon
  <2>32. /\ h \in Seq(T) /\ Len(h) = Len(h0) + 1 /\ h[Len(h0) + 1] = f
         /\ \A k \in 1..Len(h0) : h[k] = h0[k]
    BY <2>2, <2>30, <2>31, AppendProperties
  <2>4. h \in Seq(T) /\ Len(h) = n + 1 /\ h[n + 1] = "from" /\ \A k \in 1..n : h[k] = h0[k]
    BY <1>1, <2>30, <2>32, Zenon
  <2> QED BY <1>1, <1>2, <2>1, <2>4 DEF Oversigned
<1>31. PartsOf(oh, h, n) BY <1>3, OversignedParts
<1>32. PartsOf(mh, h, n) BY <1>3, OversignedParts
<1>4. \A k \in 1..n : h[k] \in Names(oh)
  <2>1. PICK T : T = Range(SIGNED_HEADERS) OBVIOUS
  <2>2. h0 \in Seq(T) /\ h0[p] \in T BY <1>1, <2>1
  <2>3. "from" \in T BY <1>2, <2>2
  <2>30. PICK f \in T : f = "from" BY <2>3
  <2>31. h = Append(h0, f) BY <1>0, <1>1, <2>30, Zenon
  <2>32. \A k \in 1..Len(h0) : h[k] = h0[k] BY <2>2, <2>30, <2>31, AppendProperties
  <2>4. \A k \in 1..n : h[k] = h0[k] BY <1>1, <2>32, Zenon
  <2> QED BY <1>1, <2>4
<1> DEFINE P == [k \in 1..(n + 1) |-> SignedPart(oh, h, k)]
           Q == [k \in 1..(n + 1) |-> SignedPart(mh, h, k)]
<1>5. Len(h) = n + 1 BY <1>3 DEF Oversigned
<1>6. /\ assemble_signed_headers(oh, h) = SelectIn(P, Range(P) \ {<<>>})
      /\ assemble_signed_headers(mh, h) = SelectIn(Q, Range(Q) \ {<<>>})
  BY <1>5, Zenon DEF assemble_signed_headers
<1>7. \A k \in 1..(n + 1) : P[k] = SignedPart(oh, h, k) /\ Q[k] = SignedPart(mh, h, k) OBVIOUS
<1>8. P \in Seq(Range(P)) /\ Len(P) = n + 1 /\ Q \in Seq(Range(Q)) /\ Len(Q) = n + 1
  <2>1. n + 1 \in Nat OBVIOUS
  <2>2. DOMAIN P = 1..(n + 1) /\ P = [k \in 1..(n + 1) |-> P[k]] OBVIOUS
  <2>3. DOMAIN Q = 1..(n + 1) /\ Q = [k \in 1..(n + 1) |-> Q[k]] OBVIOUS
  <2> HIDE DEF P, Q
  <2> QED BY <2>1, <2>2, <2>3, TabulatedSeq
<1>81. (\A k \in 1..(n + 1) : P[k] \in Range(P) /\ Q[k] \in Range(Q)) BY DEF Range
<1> HIDE DEF P, Q
<1>9. /\ \A k \in 1..n : P[k] # <<>>
      /\ P[n + 1] = <<>>
  <2>1. \A k \in 1..n : k \in 1..(n + 1) OBVIOUS
  <2>2. ASSUME NEW k \in 1..n PROVE P[k] # <<>>
    <3>1. \E i \in DOMAIN oh : oh[i].n = h[k] BY <1>4 DEF Names
    <3>2. SignedPart(oh, h, k) # <<>> BY <1>31, <3>1, Zenon DEF PartsOf
    <3> QED BY <1>7, <2>1, <3>2
  <2>3. SignedPart(oh, h, n + 1) = <<>>
    <3>1. ~ \E i, j \in DOMAIN oh : i # j /\ oh[i].n = "from" /\ oh[j].n = "from" BY DEF OneFrom
    <3> QED BY <1>31, <3>1, Zenon DEF PartsOf
  <2>4. n + 1 \in 1..(n + 1) OBVIOUS
  <2> QED BY <1>7, <2>2, <2>3, <2>4
<1>10. PICK a : a = SelectIn(P, Range(P) \ {<<>>}) /\ a = SelectIn(Q, Range(Q) \ {<<>>}) BY <1>6, Zenon
<1>101. Selected(a, P, Range(P) \ {<<>>}) BY <1>8, <1>10, SelectInSelected
<1>102. Selected(a, Q, Range(Q) \ {<<>>}) BY <1>8, <1>10, SelectInSelected
<1>11. \A k \in 1..n : \E i \in 1..(n + 1) : Q[i] = P[k] /\ Q[i] # <<>>
  <2>1. ASSUME NEW k \in 1..n PROVE \E i \in 1..(n + 1) : Q[i] = P[k] /\ Q[i] # <<>>
    <3>1. k \in 1..Len(P) BY <1>8
    <3>2. P[k] \in Range(P) \ {<<>>} BY <1>81, <1>8, <1>9, <3>1
    <3>3. PICK j \in 1..Len(a) : a[j] = P[k] BY <1>101, <3>1, <3>2, Zenon DEF Selected
    <3>4. PICK i \in 1..Len(Q) : a[j] = Q[i] BY <1>102, Zenon DEF Selected
    <3> QED BY <1>8, <1>9, <3>3, <3>4
  <2> QED BY <2>1
<1>12. \A k \in 1..(n + 1) : P[k] # <<>> => P[k][1] = h[k]
  <2>1. ASSUME NEW k \in 1..(n + 1), P[k] # <<>> PROVE P[k][1] = h[k]
    <3>1. PICK i \in DOMAIN oh : P[k] = <<h[k], oh[i].v>> BY <1>31, <1>7, <2>1, Zenon DEF PartsOf
    <3>2. <<h[k], oh[i].v>>[1] = h[k] OBVIOUS
    <3> QED BY <3>1, <3>2, Zenon
  <2> QED BY <2>1
<1>13. \A k \in 1..(n + 1) : Q[k] # <<>> => Q[k][1] = h[k]
  <2>1. ASSUME NEW k \in 1..(n + 1), Q[k] # <<>> PROVE Q[k][1] = h[k]
    <3>1. PICK i \in DOMAIN mh : Q[k] = <<h[k], mh[i].v>> BY <1>32, <1>7, <2>1, Zenon DEF PartsOf
    <3>2. <<h[k], mh[i].v>>[1] = h[k] OBVIOUS
    <3> QED BY <3>1, <3>2, Zenon
  <2> QED BY <2>1
<1>14. \A k \in 1..n : Q[k] # <<>>
  <2>1. ASSUME NEW k \in 1..n PROVE Q[k] # <<>>
    <3>1. PICK i \in 1..(n + 1) : Q[i] = P[k] /\ Q[i] # <<>> BY <1>11
    <3>2. k \in 1..(n + 1) /\ (i = n + 1 \/ i \in 1..n) OBVIOUS
    <3>3. h[i] = h[k] BY <1>9, <1>12, <1>13, <3>1, <3>2
    <3>4. CASE i \in 1..n
      <4>1. i = k BY <1>3, <3>3, <3>4 DEF Oversigned
      <4> QED BY <3>1, <4>1
    <3>5. CASE i = n + 1
      <4>1. h[k] = "from" BY <1>3, <3>3, <3>5 DEF Oversigned
      <4>2. SignedPart(mh, h, n + 1) # <<>> BY <1>7, <3>1, <3>5
      <4>3. \E x \in DOMAIN mh : mh[x].n = "from" BY <1>32, <4>2, Zenon DEF PartsOf
      <4>4. \E x \in DOMAIN mh : mh[x].n = h[k] BY <4>1, <4>3
      <4>5. SignedPart(mh, h, k) # <<>> BY <1>32, <4>4, Zenon DEF PartsOf
      <4> QED BY <1>7, <3>2, <4>5
    <3> QED BY <3>2, <3>4, <3>5
  <2> QED BY <2>1
<1>15. Q[n + 1] = <<>>
  <2> DEFINE MP == Places(P, Range(P) \ {<<>>})
             MQ == Places(Q, Range(Q) \ {<<>>})
  <2>1. Len(a) = Cardinality(MP) /\ Len(a) = Cardinality(MQ) BY <1>101, <1>102, Zenon DEF Selected
  <2>2. MP = 1..n
    <3>1. \A k \in 1..(n + 1) : k = n + 1 \/ k \in 1..n OBVIOUS
    <3>2. \A k \in 1..n : k \in 1..(n + 1) OBVIOUS
    <3> QED BY <1>8, <1>81, <1>9, <3>1, <3>2 DEF Places
  <2>3. ASSUME Q[n + 1] # <<>> PROVE MQ = 1..(n + 1)
    <3>1. \A k \in 1..(n + 1) : k = n + 1 \/ k \in 1..n OBVIOUS
    <3> QED BY <1>8, <1>81, <1>14, <2>3, <3>1 DEF Places
  <2> HIDE DEF MP, MQ
  <2>4. Cardinality(1..n) = n /\ Cardinality(1..(n + 1)) = n + 1 BY FS_Interval
  <2>5. n # n + 1 OBVIOUS
  <2> QED BY <2>1, <2>2, <2>3, <2>4, <2>5, Zenon
<1>16. Q[p] = P[p]
  <2>1. PICK i \in 1..(n + 1) : Q[i] = P[p] /\ Q[i] # <<>> BY <1>2, <1>11
  <2>2. i # n + 1 BY <1>15, <2>1
  <2>3. i \in 1..n /\ p \in 1..(n + 1) BY <1>2, <2>1, <2>2
  <2>4. h[i] = h[p] BY <1>2, <1>9, <1>12, <1>13, <2>1, <2>3
  <2>5. i = p BY <1>2, <1>3, <2>3, <2>4 DEF Oversigned
  <2> QED BY <2>1, <2>5
<1>17. p \in 1..(n + 1) /\ n + 1 \in 1..(n + 1) /\ h[p] = "from" BY <1>2, <1>3 DEF Oversigned
<1>18. PICK i \in DOMAIN oh : oh[i].n = "from" /\ P[p] = <<h[p], oh[i].v>>
  <2>1. P[p] # <<>> BY <1>2, <1>9
  <2>2. SignedPart(oh, h, p) # <<>> BY <1>7, <1>17, <2>1
  <2> QED BY <1>31, <1>7, <1>17, <2>2, Zenon DEF PartsOf
<1>19. PICK j \in DOMAIN mh : mh[j].n = "from" /\ Q[p] = <<h[p], mh[j].v>>
  <2>1. Q[p] # <<>> BY <1>2, <1>14
  <2>2. SignedPart(mh, h, p) # <<>> BY <1>7, <1>17, <2>1
  <2> QED BY <1>32, <1>7, <1>17, <2>2, Zenon DEF PartsOf
<1>20. i = i0 BY <1>18 DEF OneFrom
<1>21. mh[j].v = oh[i].v
  <2>1. <<h[p], mh[j].v>> = <<h[p], oh[i].v>> BY <1>16, <1>18, <1>19, Zenon
  <2> QED BY <2>1
<1>22. OneFrom(mh, j)
  <2>1. SignedPart(mh, h, n + 1) = <<>> BY <1>7, <1>15, <1>17
  <2>2. ~ \E x, y \in DOMAIN mh : x # y /\ mh[x].n = "from" /\ mh[y].n = "from" BY <1>32, <2>1, Zenon DEF PartsOf
  <2> QED BY <1>19, <2>2 DEF OneFrom
<1> QED BY <1>20, <1>21, <1>22, Zenon DEF SameFrom, OneFrom

\* The From addresses of a message that has one From.
LEMMA FromsOfOne ==
    ASSUME NEW m, m.hdr \in Seq(Range(m.hdr)), NEW i, OneFrom(m.hdr, i) PROVE Froms(m) = <<m.hdr[i].v>>
<1>1. PICK hdr : hdr = m.hdr OBVIOUS
<1>2. hdr \in Seq(Range(hdr)) /\ OneFrom(hdr, i) BY <1>1, Zenon
<1>3. PICK S : S = {x \in Range(hdr) : x.n = "from"} OBVIOUS
<1>4. PICK f : f = SelectIn(hdr, S) OBVIOUS
<1>5. Selected(f, hdr, S) BY <1>2, <1>4, SelectInSelected
<1>6. \A j \in 1..Len(hdr) : hdr[j] \in S <=> j = i
  <2>1. \A j \in 1..Len(hdr) : j \in DOMAIN hdr /\ hdr[j] \in Range(hdr) BY <1>2 DEF Range
  <2> QED BY <1>2, <1>3, <2>1 DEF OneFrom
<1>7. i \in 1..Len(hdr) BY <1>2 DEF OneFrom
<1>8. Places(hdr, S) = {i} BY <1>6, <1>7 DEF Places
<1>9. Len(f) = 1
  <2>1. Cardinality({i}) = 1 BY FS_Singleton
  <2> QED BY <1>5, <1>8, <2>1, Zenon DEF Selected
<1>10. f[1] = hdr[i]
  <2>1. PICK j \in 1..Len(f) : f[j] = hdr[i] BY <1>5, <1>6, <1>7 DEF Selected
  <2>2. j = 1 BY <1>9, <2>1
  <2> QED BY <2>1, <2>2
<1>11. Froms(m) = [k \in 1..Len(f) |-> f[k].v] BY <1>1, <1>3, <1>4, Zenon DEF Froms
<1>12. PICK v : v = hdr[i].v OBVIOUS
<1>13. [k \in 1..1 |-> v] = <<v>> OBVIOUS
<1>14. [k \in 1..Len(f) |-> f[k].v] = [k \in 1..1 |-> v]
  <2>1. \A k \in 1..1 : k = 1 OBVIOUS
  <2>2. \A k \in 1..1 : f[k].v = v BY <1>10, <1>12, <2>1, Zenon
  <2> QED BY <1>9, <2>2
<1> QED BY <1>1, <1>11, <1>12, <1>13, <1>14, Zenon

\* What a Pass of verify_with_resolver says.
LEMMA DkimPass ==
    ASSUME NEW s, MessageOk(s.orig), MessageOk(s.msg), Unforged(s),
           NEW i0, OneFrom(s.orig.hdr, i0), verify_with_resolver(s.msg, s.keys).v = "Pass"
    PROVE  /\ verify_with_resolver(s.msg, s.keys).d = s.signer /\ s.signer # ""
           /\ Froms(s.msg) = Froms(s.orig)
           /\ canonicalize_body(s.msg.body) = canonicalize_body(s.orig.body)
<1>1. PICK msg, orig, keys, at : msg = s.msg /\ orig = s.orig /\ keys = s.keys
                                 /\ at = find_header(msg.hdr, "dkim-signature")
  OBVIOUS
<1>2. PICK t : t = msg.hdr[at].tags OBVIOUS
<1>3. PICK key : key = resolve_dkim_key(keys, t.d, t.s) OBVIOUS
<1>4. verify_with_resolver(msg, keys) =
        IF at = 0 \/ t.d = "" \/ t.s = "" THEN [v |-> "NoSignature", d |-> ""]
        ELSE IF key = "nokey" THEN [v |-> "KeyUnavailable", d |-> t.d]
        ELSE IF verify(msg, key) = "Ok" THEN [v |-> "Pass", d |-> t.d]
        ELSE [v |-> "Fail", d |-> t.d]
  BY <1>1, <1>2, <1>3, Zenon DEF verify_with_resolver
<1>5. verify_with_resolver(msg, keys).v = "Pass" BY <1>1, Zenon
<1>6. /\ at # 0 /\ t.d # "" /\ key # "nokey" /\ verify(msg, key) = "Ok"
      /\ verify_with_resolver(msg, keys).d = t.d
  <2>1. /\ [v |-> "NoSignature", d |-> ""].v # "Pass"
        /\ [v |-> "KeyUnavailable", d |-> t.d].v # "Pass" /\ [v |-> "Fail", d |-> t.d].v # "Pass"
    OBVIOUS
  <2>2. [v |-> "Pass", d |-> t.d].d = t.d OBVIOUS
  <2> QED BY <1>4, <1>5, <2>1, <2>2, Zenon
<1>7. verify(msg, key) =
        IF at = 0 THEN "NoSignature"
        ELSE IF t.a # "ed25519-sha256" THEN "UnsupportedAlgorithm"
        ELSE IF t.c \notin {"relaxed/relaxed", ""}
        THEN "UnsupportedCanonicalization"
        ELSE IF t.bh = <<"">> THEN "MalformedSignature"
        ELSE IF t.bh # canonicalize_body(msg.body) THEN "BodyHashMismatch"
        ELSE IF t.h = <<>> \/ t.b = <<>> THEN "MalformedSignature"
        ELSE IF \A i \in DOMAIN t.h : t.h[i] # "from" THEN "FromFieldNotSigned"
        ELSE IF t.b # <<key, SigningInput(msg.hdr, t.h, t)>>
        THEN "SignatureInvalid" ELSE "Ok"
  BY <1>1, <1>2, Zenon DEF verify
<1>8. t.bh = canonicalize_body(msg.body) /\ t.b # <<>> /\ t.b = <<key, SigningInput(msg.hdr, t.h, t)>>
  BY <1>6, <1>7, Zenon
<1>9. at \in DOMAIN msg.hdr
  <2>1. PICK A : A = {i \in DOMAIN msg.hdr : msg.hdr[i].n = "dkim-signature"} OBVIOUS
  <2>2. at = IF A = {} THEN 0 ELSE CHOOSE i \in A : \A j \in A : j <= i BY <1>1, <2>1 DEF find_header
  <2>3. A # {} BY <1>6, <2>2
  <2>4. msg.hdr \in Seq(Range(msg.hdr)) BY <1>1, Zenon DEF MessageOk
  <2>5. \E x \in A : \A y \in A : y <= x BY <2>1, <2>3, <2>4, LastOf
  <2>6. at \in A BY <2>2, <2>3, <2>5
  <2> QED BY <2>1, <2>6
<1>10. t = [a |-> t.a, c |-> t.c, d |-> t.d, s |-> t.s, h |-> t.h, bh |-> t.bh, b |-> t.b]
  <2>1. SignedTags(t) BY <1>1, <1>2, <1>9, Zenon DEF MessageOk
  <2> QED BY <2>1, Zenon DEF SignedTags
<1>11. s.signer = t.d /\ t.b = sign(key, t.d, t.s, orig).tags.b
  <2>1. t.b[1] = key BY <1>8
  <2> QED BY <1>1, <1>2, <1>3, <1>6, <1>8, <1>9, <2>1, Zenon DEF Unforged
<1>12. PICK h : h = Append(SelectIn(SIGNED_HEADERS, Names(orig.hdr)), "from") OBVIOUS
<1>13. PICK base : base = [a |-> "ed25519-sha256", c |-> "relaxed/relaxed", d |-> t.d,
                 s |-> t.s, h |-> h, bh |-> canonicalize_body(orig.body),
                 b |-> <<>>]
  OBVIOUS
<1>14. PICK sb : sb = <<key, SigningInput(orig.hdr, h, base)>> OBVIOUS
<1>15. sign(key, t.d, t.s, orig) = [n |-> "dkim-signature", v |-> <<"sig">>, w |-> 0,
                                   tags |-> [base EXCEPT !.b = sb]]
  BY <1>12, <1>13, <1>14, Zenon DEF sign
<1>16. sign(key, t.d, t.s, orig).tags.b = sb
  <2>1. PICK tg : tg = [base EXCEPT !.b = sb] OBVIOUS
  <2>2. tg.b = sb BY <1>13, <2>1
  <2>3. [n |-> "dkim-signature", v |-> <<"sig">>, w |-> 0, tags |-> tg].tags = tg OBVIOUS
  <2> QED BY <1>15, <2>1, <2>2, <2>3, Zenon
<1>17. SigningInput(msg.hdr, t.h, t) = SigningInput(orig.hdr, h, base)
  <2>1. PICK x, y : x = SigningInput(msg.hdr, t.h, t) /\ y = SigningInput(orig.hdr, h, base) OBVIOUS
  <2>2. <<key, x>> = <<key, y>> BY <1>8, <1>11, <1>14, <1>16, <2>1, Zenon
  <2>3. x = y BY <2>2
  <2> QED BY <2>1, <2>3, Zenon
<1>18. /\ assemble_signed_headers(msg.hdr, t.h) = assemble_signed_headers(orig.hdr, h)
       /\ [t EXCEPT !.b = <<>>] = [base EXCEPT !.b = <<>>]
  <2>1. PICK x, y : x = assemble_signed_headers(msg.hdr, t.h) /\ y = assemble_signed_headers(orig.hdr, h) OBVIOUS
  <2>2. PICK u, v : u = [t EXCEPT !.b = <<>>] /\ v = [base EXCEPT !.b = <<>>] OBVIOUS
  <2>3. <<x, u>> = <<y, v>> BY <1>17, <2>1, <2>2, Zenon DEF SigningInput
  <2>4. x = y /\ u = v BY <2>3
  <2> QED BY <2>1, <2>2, <2>4, Zenon
<1>19. t.h = h /\ t.bh = canonicalize_body(orig.body)
  <2>1. PICK u, v : u = [t EXCEPT !.b = <<>>] /\ v = [base EXCEPT !.b = <<>>] OBVIOUS
  <2>2. u.h = t.h /\ u.bh = t.bh BY <1>10, <2>1
  <2>3. v.h = base.h /\ v.bh = base.bh BY <1>13, <2>1
  <2>4. base.h = h /\ base.bh = canonicalize_body(orig.body) BY <1>13
  <2> QED BY <1>18, <2>1, <2>2, <2>3, <2>4, Zenon
<1>20. \E j0 : OneFrom(msg.hdr, j0) /\ msg.hdr[j0].v = orig.hdr[i0].v
  <2>1. PICK mh, oh : mh = msg.hdr /\ oh = orig.hdr OBVIOUS
  <2>2. mh \in Seq(Range(mh)) /\ oh \in Seq(Range(oh)) BY <1>1, <2>1, Zenon DEF MessageOk
  <2>3. OneFrom(oh, i0) BY <1>1, <2>1, Zenon
  <2>4. assemble_signed_headers(oh, h) = assemble_signed_headers(mh, h) BY <1>18, <1>19, <2>1, Zenon
  <2>5. SignedHeaders(oh, h) BY <1>12, <2>1, Zenon DEF SignedHeaders
  <2>6. SameFrom(mh, oh, i0) BY <2>2, <2>3, <2>4, <2>5, OversignBinds
  <2> QED BY <2>1, <2>6, Zenon DEF SameFrom
<1>21. Froms(msg) = Froms(orig)
  <2>1. PICK j0 : OneFrom(msg.hdr, j0) /\ msg.hdr[j0].v = orig.hdr[i0].v BY <1>20
  <2>2. msg.hdr \in Seq(Range(msg.hdr)) /\ orig.hdr \in Seq(Range(orig.hdr)) BY <1>1, Zenon DEF MessageOk
  <2>3. OneFrom(orig.hdr, i0) BY <1>1, Zenon
  <2>4. Froms(msg) = <<msg.hdr[j0].v>> BY <2>1, <2>2, FromsOfOne
  <2>5. Froms(orig) = <<orig.hdr[i0].v>> BY <2>2, <2>3, FromsOfOne
  <2> QED BY <2>1, <2>4, <2>5, Zenon
<1> QED BY <1>1, <1>6, <1>8, <1>11, <1>19, <1>21, Zenon

-----------------------------------------------------------------------------
(***************************************************************************)
(* DMARC and the decision.  A record that says to reject is found by       *)
(* discover with that disposition, so that a verdict other than reject     *)
(* comes from an aligned pass; header_from lets only one author through.   *)
(***************************************************************************)

\* Alignment is within one organisation.
LEMMA AlignedIsSameOrg ==
    ASSUME NEW a, NEW b, NEW strict, domains_aligned(a, b, strict) PROVE SameOrg(a, b)
BY Zenon DEF domains_aligned, SameOrg

Aligned(env, spf, dkim, d) ==
    \/ spf = "Pass" /\ env # "" /\ SameOrg(env, d)
    \/ dkim.v = "Pass" /\ SameOrg(dkim.d, d)
LEMMA RejectIsKept ==
    ASSUME NEW txt, NEW d, NEW env, NEW spf, NEW dkim, Rejects(txt, d),
           EvaluateDomain(txt, d, env, spf, dkim) # "reject"
    PROVE  Aligned(env, spf, dkim, d)
<1> DEFINE org == organizational_domain(d)
           Rec(x) == parse_dmarc_record(Dmarc1Records(txt, x)[1].tags)
<1>1. PICK f : f = discover(txt, d) OBVIOUS
<1>2. \A x : Dmarc1Records(txt, x) = <<>> => lookup_at(txt, x) = [k |-> "NotFound"] BY Zenon DEF lookup_at
<1>3. \A x : Len(Dmarc1Records(txt, x)) = 1 /\ Rec(x).ok => lookup_at(txt, x) = [k |-> "Found", rec |-> Rec(x)]
  <2>1. Len(<<>>) = 0 /\ 0 # 1 OBVIOUS
  <2>2. \A x : Len(Dmarc1Records(txt, x)) = 1 => Dmarc1Records(txt, x) # <<>> BY <2>1, Zenon
  <2> QED BY <2>2, Zenon DEF lookup_at
<1>4. \E r, sub : /\ f = [k |-> "Found", rec |-> r, sub |-> sub]
                  /\ (IF sub /\ r.sp # "" THEN r.sp ELSE r.p) = "reject"
  <2>1. \A r : [k |-> "Found", rec |-> r].k = "Found" /\ [k |-> "Found", rec |-> r].rec = r OBVIOUS
  <2>2. [k |-> "NotFound"].k # "Found" /\ [k |-> "NotFound"].k # "PermError" OBVIOUS
  <2>3. "Found" # "NotFound" /\ "Found" # "PermError" OBVIOUS
  <2>4. CASE Len(Dmarc1Records(txt, d)) = 1 /\ Rec(d).ok /\ Rec(d).p = "reject"
    <3>1. lookup_at(txt, d) = [k |-> "Found", rec |-> Rec(d)] BY <1>3, <2>4, Zenon
    <3>2. lookup_at(txt, d).k = "Found" /\ lookup_at(txt, d).rec = Rec(d) BY <2>1, <3>1, Zenon
    <3>3. f = [k |-> "Found", rec |-> Rec(d), sub |-> FALSE] BY <1>1, <3>2, Zenon DEF discover
    <3>4. (IF FALSE /\ Rec(d).sp # "" THEN Rec(d).sp ELSE Rec(d).p) = "reject" BY <2>4, Zenon
    <3> QED BY <3>3, <3>4, Zenon
  <2>5. CASE /\ Dmarc1Records(txt, d) = <<>> /\ org # d /\ Len(Dmarc1Records(txt, org)) = 1 /\ Rec(org).ok
             /\ "reject" = IF Rec(org).sp = "" THEN Rec(org).p ELSE Rec(org).sp
    <3>1. lookup_at(txt, d) = [k |-> "NotFound"] BY <1>2, <2>5, Zenon
    <3>2. lookup_at(txt, d).k # "Found" /\ lookup_at(txt, d).k # "PermError" BY <2>2, <3>1, Zenon
    <3>3. lookup_at(txt, org) = [k |-> "Found", rec |-> Rec(org)] BY <1>3, <2>5, Zenon
    <3>4. lookup_at(txt, org).k = "Found" /\ lookup_at(txt, org).rec = Rec(org) BY <2>1, <3>3, Zenon
    <3>5. lookup_at(txt, org).k # "NotFound" /\ lookup_at(txt, org).k # "PermError" BY <2>3, <3>4, Zenon
    <3>6. f = [k |-> "Found", rec |-> Rec(org), sub |-> TRUE] BY <1>1, <2>5, <3>2, <3>4, <3>5, Zenon DEF discover
    <3>7. (IF TRUE /\ Rec(org).sp # "" THEN Rec(org).sp ELSE Rec(org).p) = "reject" BY <2>5, Zenon
    <3> QED BY <3>6, <3>7, Zenon
  <2> QED BY <2>4, <2>5, Zenon DEF Rejects
<1>5. PICK r, sub : f = [k |-> "Found", rec |-> r, sub |-> sub]
                    /\ (IF sub /\ r.sp # "" THEN r.sp ELSE r.p) = "reject"
  BY <1>4
<1>6. f.k # "None" /\ f.k # "PermError" /\ f.rec = r /\ f.sub = sub
  <2>1. [k |-> "Found", rec |-> r, sub |-> sub].k = "Found" /\ "Found" # "None" /\ "Found" # "PermError" OBVIOUS
  <2>2. [k |-> "Found", rec |-> r, sub |-> sub].rec = r OBVIOUS
  <2>3. [k |-> "Found", rec |-> r, sub |-> sub].sub = sub OBVIOUS
  <2> QED BY <1>5, <2>1, <2>2, <2>3, Zenon
<1>7. \/ spf = "Pass" /\ env # "" /\ domains_aligned(env, d, f.rec.aspf = "s")
      \/ dkim.v = "Pass" /\ domains_aligned(dkim.d, d, f.rec.adkim = "s")
  BY <1>1, <1>5, <1>6, Zenon DEF EvaluateDomain
<1> QED BY <1>7, AlignedIsSameOrg, Zenon DEF Aligned

\* The domains the headers show are sequences.
LEMMA FromsTyped ==
    ASSUME NEW m, MessageOk(m)
    PROVE  /\ DOMAIN Froms(m) = 1..Len(Froms(m)) /\ Len(Froms(m)) \in Nat
           /\ \A i \in DOMAIN Froms(m) : Len(Froms(m)[i]) \in Nat /\ DOMAIN Froms(m)[i] = 1..Len(Froms(m)[i])
<1>1. PICK hdr : hdr = m.hdr OBVIOUS
<1>2. hdr \in Seq(Range(hdr)) BY <1>1, Zenon DEF MessageOk
<1>3. PICK S : S = {x \in Range(hdr) : x.n = "from"} OBVIOUS
<1>4. PICK f \in Seq(Range(hdr)) : f = SelectIn(hdr, S)
  <2>1. PICK T : T = Range(hdr) OBVIOUS
  <2> QED BY <1>2, <2>1, SelectInPicks
<1>5. Selected(f, hdr, S) BY <1>2, <1>4, SelectInSelected
<1>6. PICK n \in Nat : n = Len(f) BY <1>4
<1>7. PICK g : g = [k \in 1..n |-> f[k].v] OBVIOUS
<1>8. Froms(m) = g BY <1>1, <1>3, <1>4, <1>6, <1>7, Zenon DEF Froms
<1>9. DOMAIN g = 1..n /\ Len(g) = n BY <1>7
<1>10. ASSUME NEW i \in 1..n PROVE Len(g[i]) \in Nat /\ DOMAIN g[i] = 1..Len(g[i])
  <2>1. f[i] \in S /\ \E k \in 1..Len(hdr) : f[i] = hdr[k] BY <1>5, <1>6, Zenon DEF Selected
  <2>2. PICK k \in 1..Len(hdr) : f[i] = hdr[k] BY <2>1
  <2>3. k \in DOMAIN hdr BY <1>2
  <2>4. hdr[k].n = "from" BY <1>3, <2>1, <2>2
  <2>5. hdr[k].v \in Seq(Domains \cup {""}) BY <1>1, <2>3, <2>4, Zenon DEF MessageOk
  <2>6. PICK v, T : v = hdr[k].v /\ T = Domains \cup {""} OBVIOUS
  <2>7. v \in Seq(T) BY <2>5, <2>6, Zenon
  <2>8. Len(v) \in Nat /\ DOMAIN v = 1..Len(v) BY <2>7
  <2>9. g[i] = v BY <1>7, <2>2, <2>6
  <2> QED BY <2>8, <2>9, Zenon
<1> QED BY <1>6, <1>8, <1>9, <1>10, Zenon

LEMMA OneToN ==
    ASSUME NEW n \in Nat, NEW i \in 1..n
    PROVE  1 \in 1..n /\ n # 0 /\ (n > 1 => n # 1) /\ (~(n > 1) => n = 1 /\ i = 1)
OBVIOUS

\* A message that shows an author has a single one, unless DMARC rejects it.
LEMMA OneAuthor ==
    ASSUME NEW m, MessageOk(m), NEW fr, fr = Froms(m), header_from(fr).k # "Ambiguous",
           NEW i \in DOMAIN fr, NEW k \in DOMAIN fr[i], fr[i][k] # ""
    PROVE  header_from(fr) = [k |-> "Single", d |-> fr[i][k]]
<1>1. DOMAIN fr = 1..Len(fr) /\ Len(fr) \in Nat
      /\ \A j \in DOMAIN fr : Len(fr[j]) \in Nat /\ DOMAIN fr[j] = 1..Len(fr[j])
  BY FromsTyped, Zenon
<1>2. [k |-> "Ambiguous", d |-> ""].k = "Ambiguous" OBVIOUS
<1>3. PICK n \in Nat : n = Len(fr) BY <1>1
<1>4. i \in 1..n BY <1>1, <1>3
<1>5. 1 \in 1..n /\ n # 0 /\ (n > 1 => n # 1) /\ (~(n > 1) => n = 1 /\ i = 1) BY <1>4, OneToN, Zenon
<1>6. PICK u : u = fr[1] OBVIOUS
<1>7. PICK c \in Nat : c = Len(u) BY <1>1, <1>3, <1>5, <1>6
<1>8. header_from(fr) = IF n = 0 \/ (n = 1 /\ c = 0) THEN [k |-> "Unusable", d |-> ""]
                        ELSE IF n > 1 \/ c > 1 THEN [k |-> "Ambiguous", d |-> ""]
                        ELSE IF u[1] = "" THEN [k |-> "Unusable", d |-> ""]
                        ELSE [k |-> "Single", d |-> u[1]]
  BY <1>3, <1>6, <1>7, Zenon DEF header_from
<1>9. n # 0 BY <1>5, Zenon
<1>10. ASSUME n > 1 PROVE FALSE
  <2>1. ~(n = 0 \/ (n = 1 /\ c = 0)) BY <1>5, <1>10, Zenon
  <2>2. header_from(fr) = [k |-> "Ambiguous", d |-> ""] BY <1>8, <1>10, <2>1, Zenon
  <2> QED BY <1>2, <2>2, Zenon
<1>11. n = 1 /\ i = 1 BY <1>5, <1>10, Zenon
<1>12. k \in 1..c BY <1>1, <1>6, <1>7, <1>11
<1>13. c # 0 /\ (~(c > 1) => c = 1 /\ k = 1) BY <1>12, OneToN, Zenon
<1>14. ASSUME c > 1 PROVE FALSE
  <2>1. ~(n = 0 \/ (n = 1 /\ c = 0)) BY <1>9, <1>13
  <2>2. header_from(fr) = [k |-> "Ambiguous", d |-> ""] BY <1>8, <1>14, <2>1, Zenon
  <2> QED BY <1>2, <2>2, Zenon
<1>15. ~(n > 1) /\ ~(c > 1) /\ k = 1 BY <1>10, <1>13, <1>14, Zenon
<1>16. fr[i][k] = u[1] BY <1>6, <1>11, <1>15, Zenon
<1> QED BY <1>8, <1>9, <1>13, <1>15, <1>16, Zenon

\* The decision is made once, on what SPF returned.
DecisionInv == decision # NotEvaluated => todo = "done" /\ decision = Authenticate(scn, result)

LEMMA DecisionKeeps == DecisionInv /\ [AuthNext]_authVars => DecisionInv'
<1> SUFFICES ASSUME DecisionInv, [AuthNext]_authVars PROVE DecisionInv' OBVIOUS
<1>1. CASE accept_message
  <2>1. todo' = todo /\ result' = result /\ scn' = scn /\ todo = "done" /\ decision' = Authenticate(scn, result)
    BY <1>1 DEF accept_message, spfVars, scn
  <2> QED BY <2>1, Zenon DEF DecisionInv
<1>2. CASE SpfStep /\ UNCHANGED <<case, decision>>
  <2>1. todo # "done"
    BY <1>2 DEF SpfStep, spf_evaluate, check_host, macro_mechanism, plain_mechanism, include_mechanism,
       mx_mechanism, mx_host, end_of_record, return_to_caller, AtMechanism
  <2> QED BY <1>2, <2>1 DEF DecisionInv
<1>3. CASE UNCHANGED authVars
  <2>1. todo' = todo /\ result' = result /\ scn' = scn /\ decision' = decision
    BY <1>3 DEF authVars, spfVars, scn
  <2> QED BY <2>1, Zenon DEF DecisionInv
<1> QED BY <1>1, <1>2, <1>3 DEF AuthNext

AuthInv == SpfInv /\ DecisionInv
LEMMA AuthHolds == AuthSpec => []AuthInv
<1>1. AuthInit => AuthInv BY SpfInitInv DEF AuthInv, AuthInit, DecisionInv
<1>2. AuthInv /\ [AuthNext]_authVars => AuthInv' BY SpfStepKeeps, DecisionKeeps DEF AuthInv
<1> QED BY <1>1, <1>2, PTL DEF AuthSpec

\* What the invariant says of a decision.
LEMMA DecisionFacts ==
    ASSUME AuthInv, decision # NotEvaluated, NEW dkim, dkim = verify_with_resolver(scn.msg, scn.keys)
    PROVE  /\ decision = Authenticate(scn, result) /\ decision.dkim = dkim
           /\ decision.reply = 250 =>
                dmarc_verdict(TRUE, scn.dmarc, Froms(scn.msg), scn.from, result, dkim) # "reject"
<1>1. decision = Authenticate(scn, result) BY Zenon DEF AuthInv, DecisionInv
<1>2. PICK dmarc : dmarc = dmarc_verdict(TRUE, scn.dmarc, Froms(scn.msg), scn.from, result, dkim) OBVIOUS
<1>3. PICK reply : reply = IF spf_gate(TRUE, result) # 0 THEN spf_gate(TRUE, result)
                           ELSE IF dkim_gate(TRUE, dkim) # 0 THEN dkim_gate(TRUE, dkim)
                           ELSE IF dmarc_gate(TRUE, dmarc) # 0 THEN dmarc_gate(TRUE, dmarc)
                           ELSE 250
  OBVIOUS
<1>4. decision = [reply |-> reply, dkim |-> dkim, dmarc |-> dmarc] BY <1>1, <1>2, <1>3, Zenon DEF Authenticate
<1>5. decision.dkim = dkim /\ decision.reply = reply BY <1>4
<1>6. dmarc = "reject" => reply # 250
  <2>1. spf_gate(TRUE, result) \in {0, 550, 451} BY DEF spf_gate
  <2>2. dkim_gate(TRUE, dkim) \in {0, 550} BY DEF dkim_gate
  <2>3. dmarc = "reject" => dmarc_gate(TRUE, dmarc) = 550 BY DEF dmarc_gate
  <2>4. PICK a, b, c : a = spf_gate(TRUE, result) /\ b = dkim_gate(TRUE, dkim) /\ c = dmarc_gate(TRUE, dmarc) OBVIOUS
  <2>5. reply = IF a # 0 THEN a ELSE IF b # 0 THEN b ELSE IF c # 0 THEN c ELSE 250 BY <1>3, <2>4, Zenon
  <2>6. a \in {0, 550, 451} /\ b \in {0, 550} BY <2>1, <2>2, <2>4, Zenon
  <2>7. dmarc = "reject" => c = 550 BY <2>3, <2>4, Zenon
  <2>8. c = 550 => reply # 250 BY <2>5, <2>6
  <2> QED BY <2>7, <2>8, Zenon
<1> QED BY <1>1, <1>2, <1>5, <1>6, Zenon

LEMMA AuthorFacts ==
    ASSUME AuthInv
    PROVE  /\ MessageOk(scn.orig) /\ MessageOk(scn.msg) /\ Unforged(scn)
           /\ \E i \in DOMAIN scn.orig.hdr : OneFrom(scn.orig.hdr, i)
<1>1. case \in Cases BY DEF AuthInv, SpfInv, SpfTypes
<1> QED BY <1>1, ScenarioFacts, Zenon DEF OneFrom

\* dkim.rs: for every message, however it was changed on the way, a Pass binds the From
\* headers and the body to the domain that signed them.
THEOREM DkimIsBound == AuthSpec => []DkimBinds
<1>1. AuthInv => DkimBinds
  <2> SUFFICES ASSUME AuthInv, decision # NotEvaluated, decision.dkim.v = "Pass"
               PROVE  /\ decision.dkim.d = scn.signer
                      /\ Froms(scn.msg) = Froms(scn.orig)
                      /\ canonicalize_body(scn.msg.body) = canonicalize_body(scn.orig.body)
    BY Zenon DEF DkimBinds
  <2>1. PICK i0 \in DOMAIN scn.orig.hdr : OneFrom(scn.orig.hdr, i0) BY AuthorFacts
  <2>2. PICK dkim : dkim = verify_with_resolver(scn.msg, scn.keys) OBVIOUS
  <2>3. decision.dkim = dkim BY <2>2, DecisionFacts, Zenon
  <2>4. verify_with_resolver(scn.msg, scn.keys).v = "Pass" BY <2>2, <2>3, Zenon
  <2>5. /\ verify_with_resolver(scn.msg, scn.keys).d = scn.signer
        /\ Froms(scn.msg) = Froms(scn.orig)
        /\ canonicalize_body(scn.msg.body) = canonicalize_body(scn.orig.body)
    BY <2>1, <2>4, AuthorFacts, DkimPass, Zenon
  <2> QED BY <2>2, <2>3, <2>5, Zenon
<1> QED BY <1>1, AuthHolds, PTL

\* The message was taken; d is an author it shows, at any place of any From header of it.
MessageTaken == decision # NotEvaluated /\ decision.reply = 250
Author(fr, d) == d # "" /\ \E i \in DOMAIN fr : \E k \in DOMAIN fr[i] : fr[i][k] = d
Accountable(fr, d) ==
    \/ scn.from # "" /\ SameOrg(scn.from, d) /\ Vouched(scn.zone, scn.from, scn.ip)
    \/ scn.signer # "" /\ SameOrg(scn.signer, d) /\ fr = Froms(scn.orig)

LEMMA AuthorAccounts ==
    ASSUME AuthInv, MessageTaken, NEW fr, fr = Froms(scn.msg), NEW d, Author(fr, d), Rejects(scn.dmarc, d)
    PROVE  Accountable(fr, d)
<1>3. PICK dkim : dkim = verify_with_resolver(scn.msg, scn.keys) OBVIOUS
<1>4. dmarc_verdict(TRUE, scn.dmarc, fr, scn.from, result, dkim) # "reject" BY <1>3, DecisionFacts, Zenon DEF MessageTaken
<1>5. PICK h : h = header_from(fr) OBVIOUS
<1>6. dmarc_verdict(TRUE, scn.dmarc, fr, scn.from, result, dkim) =
        IF h.k = "Unusable" THEN "PermError" ELSE IF h.k = "Ambiguous" THEN "reject"
        ELSE EvaluateDomain(scn.dmarc, h.d, scn.from, result, dkim)
  BY <1>5, Zenon DEF dmarc_verdict
<1>7. h.k # "Ambiguous"
  <2>1. "Ambiguous" # "Unusable" OBVIOUS
  <2> QED BY <1>4, <1>6, <2>1, Zenon
<1>8. h = [k |-> "Single", d |-> d]
  <2>1. MessageOk(scn.msg) BY AuthorFacts, Zenon
  <2>0. PICK i \in DOMAIN fr : \E k \in DOMAIN fr[i] : fr[i][k] = d BY Zenon DEF Author
  <2>2. PICK k \in DOMAIN fr[i] : fr[i][k] = d BY <2>0
  <2>3. header_from(fr).k # "Ambiguous" BY <1>5, <1>7, Zenon
  <2>31. fr[i][k] # "" BY <2>2, Zenon DEF Author
  <2>4. header_from(fr) = [k |-> "Single", d |-> fr[i][k]] BY <2>1, <2>3, <2>31, OneAuthor, Zenon
  <2> QED BY <1>5, <2>2, <2>4, Zenon
<1>9. h.d = d /\ h.k # "Unusable" BY <1>8
<1>10. EvaluateDomain(scn.dmarc, d, scn.from, result, dkim) # "reject" BY <1>4, <1>6, <1>7, <1>9, Zenon
<1>11. Aligned(scn.from, result, dkim, d) BY <1>10, RejectIsKept, Zenon
<1>12. CASE result = "Pass" /\ scn.from # "" /\ SameOrg(scn.from, d)
  <2>1. Vouched(scn.zone, Identity(scn), scn.ip) BY <1>12, Zenon DEF AuthInv, SpfInv, PassInv
  <2>2. Identity(scn) = scn.from BY <1>12, Zenon DEF Identity
  <2> QED BY <1>12, <2>1, <2>2, Zenon DEF Accountable
<1>13. CASE dkim.v = "Pass" /\ SameOrg(dkim.d, d)
  <2>1. PICK i0 \in DOMAIN scn.orig.hdr : OneFrom(scn.orig.hdr, i0) BY AuthorFacts
  <2>2. verify_with_resolver(scn.msg, scn.keys).v = "Pass" BY <1>3, <1>13, Zenon
  <2>3. dkim.d = scn.signer /\ scn.signer # "" /\ Froms(scn.msg) = Froms(scn.orig)
    BY <1>3, <2>1, <2>2, AuthorFacts, DkimPass, Zenon
  <2> QED BY <1>13, <2>3, Zenon DEF Accountable
<1> QED BY <1>11, <1>12, <1>13, Zenon DEF Aligned

\* inbound.rs with every policy on Enforce: nobody gets a message past the gateway under the
\* name of a domain that says to reject, but a host that domain's organisation vouches for,
\* or with that organisation's signature over the author shown.
THEOREM NothingIsSpoofed == AuthSpec => []NoSpoofing
<1>1. ASSUME NEW m, NEW d \in Authors(m) \ {""} PROVE Author(Froms(m), d)
  <2>1. PICK fr : fr = Froms(m) OBVIOUS
  <2>2. PICK i \in DOMAIN fr : d \in Range(fr[i]) BY <2>1, Zenon DEF Authors
  <2>3. \E k \in DOMAIN fr[i] : fr[i][k] = d BY <2>2, Zenon DEF Range
  <2>4. d # "" BY Zenon
  <2>5. Author(fr, d) BY <2>3, <2>4, Zenon DEF Author
  <2> QED BY <2>1, <2>5, Zenon
<1>2. ASSUME AuthInv, MessageTaken, NEW d \in Authors(scn.msg) \ {""}, Rejects(scn.dmarc, d)
      PROVE  Accountable(Froms(scn.msg), d)
  <2>1. PICK fr : fr = Froms(scn.msg) OBVIOUS
  <2>2. Author(fr, d) BY <1>1, <2>1, Zenon
  <2>3. Accountable(fr, d) BY <1>2, <2>1, <2>2, AuthorAccounts, Zenon
  <2> QED BY <2>1, <2>3, Zenon
<1>3. ASSUME AuthInv PROVE NoSpoofing
  <2>1. MessageTaken => \A d \in Authors(scn.msg) \ {""} : Rejects(scn.dmarc, d) => Accountable(Froms(scn.msg), d)
    BY <1>2, <1>3
  <2>2. NoSpoofing <=> (MessageTaken => \A d \in Authors(scn.msg) \ {""} : Rejects(scn.dmarc, d)
                                   => Accountable(Froms(scn.msg), d))
    BY DEF NoSpoofing, Accountable, MessageTaken
  <2> QED BY <2>1, <2>2, Zenon
<1> QED BY <1>3, AuthHolds, PTL

-----------------------------------------------------------------------------
(***************************************************************************)
(* Relaxed canonicalization.  What relays do keeps the last line that is   *)
(* not empty, and keeps each signed name's headers in their order: the     *)
(* n-th of a name from the end is the same header before and after, so     *)
(* both ends put the same text together.                                   *)
(***************************************************************************)

KeptLines(body) == {i \in DOMAIN body : body[i].v # ""}
LEMMA BodySurvives ==
    ASSUME NEW a, a \in Seq(Range(a)), NEW b, b \in Seq(Range(b)),
           \A i \in DOMAIN a \cup DOMAIN b : LineAt(b, i) = LineAt(a, i)
    PROVE  canonicalize_body(a) = canonicalize_body(b) /\ canonicalize_body(a) # <<"">>
<1>1. \A i \in DOMAIN a : LineAt(a, i) = a[i].v BY DEF LineAt
<1>2. \A i \in DOMAIN b : LineAt(b, i) = b[i].v BY DEF LineAt
<1>3. \A i : i \notin DOMAIN a => LineAt(a, i) = "" BY DEF LineAt
<1>4. \A i : i \notin DOMAIN b => LineAt(b, i) = "" BY DEF LineAt
<1>5. KeptLines(a) = KeptLines(b)
  <2>1. ASSUME NEW i \in KeptLines(a) PROVE i \in KeptLines(b)
    <3>1. i \in DOMAIN a /\ a[i].v # "" BY DEF KeptLines
    <3>2. LineAt(b, i) # "" BY <1>1, <3>1
    <3>3. i \in DOMAIN b BY <1>4, <3>2
    <3> QED BY <1>2, <3>2, <3>3 DEF KeptLines
  <2>2. ASSUME NEW i \in KeptLines(b) PROVE i \in KeptLines(a)
    <3>1. i \in DOMAIN b /\ b[i].v # "" BY DEF KeptLines
    <3>2. LineAt(a, i) # "" BY <1>2, <3>1
    <3>3. i \in DOMAIN a BY <1>3, <3>2
    <3> QED BY <1>1, <3>2, <3>3 DEF KeptLines
  <2> QED BY <2>1, <2>2
<1>6. PICK K : K = KeptLines(a) OBVIOUS
<1> DEFINE l == IF K = {} THEN 0 ELSE CHOOSE i \in K : \A j \in K : j <= i
<1>7. l = IF K = {} THEN 0 ELSE CHOOSE i \in K : \A j \in K : j <= i OBVIOUS
<1> HIDE DEF l
<1>8. /\ canonicalize_body(a) = [i \in 1..l |-> a[i].v]
      /\ canonicalize_body(b) = [i \in 1..l |-> b[i].v]
  <2>1. K = {i \in DOMAIN a : a[i].v # ""} BY <1>6 DEF KeptLines
  <2>2. K = {i \in DOMAIN b : b[i].v # ""} BY <1>5, <1>6 DEF KeptLines
  <2>3. canonicalize_body(a) = [i \in 1..l |-> a[i].v] BY <1>7, <2>1 DEF canonicalize_body
  <2>4. canonicalize_body(b) = [i \in 1..l |-> b[i].v] BY <1>7, <2>2 DEF canonicalize_body
  <2> QED BY <2>3, <2>4
<1>9. CASE K = {}
  <2>1. l = 0 BY <1>7, <1>9, Zenon
  <2>2. 1..0 = {} OBVIOUS
  <2>3. \A i \in 1..l : a[i].v = b[i].v BY <2>1, <2>2
  <2>4. [i \in 1..l |-> a[i].v] = [i \in 1..l |-> b[i].v] BY <2>3
  <2>5. DOMAIN [i \in 1..l |-> a[i].v] = {} BY <2>1, <2>2
  <2>6. 1 \in DOMAIN <<"">> OBVIOUS
  <2> QED BY <1>8, <2>4, <2>5, <2>6, Zenon
<1>10. CASE K # {}
  <2>0. K \subseteq DOMAIN a BY <1>6 DEF KeptLines
  <2>1. \E x \in K : \A y \in K : y <= x BY <1>10, <2>0, LastOf
  <2>2. l \in K BY <1>7, <1>10, <2>1
  <2>3. l \in DOMAIN a /\ l \in DOMAIN b /\ a[l].v # "" BY <1>5, <1>6, <2>2 DEF KeptLines
  <2>31. PICK n \in Nat, m \in Nat : n = Len(a) /\ m = Len(b) OBVIOUS
  <2>32. DOMAIN a = 1..n /\ DOMAIN b = 1..m BY <2>31
  <2>33. l \in 1..n /\ l \in 1..m BY <2>3, <2>32, Zenon
  <2>34. \A i \in 1..l : i \in 1..n /\ i \in 1..m BY <2>33
  <2>4. \A i \in 1..l : i \in DOMAIN a /\ i \in DOMAIN b BY <2>32, <2>34, Zenon
  <2>5. \A i \in 1..l : a[i].v = b[i].v BY <1>1, <1>2, <2>4
  <2>6. [i \in 1..l |-> a[i].v] = [i \in 1..l |-> b[i].v] BY <2>5
  <2>7. l \in Nat /\ l \in 1..l BY <2>33
  <2>8. PICK w : w = [i \in 1..l |-> a[i].v] OBVIOUS
  <2>9. DOMAIN w = 1..l /\ w[l] # "" BY <2>3, <2>7, <2>8
  <2>10. ASSUME w = <<"">> PROVE FALSE
    <3>1. DOMAIN <<"">> = 1..1 /\ <<"">>[1] = "" OBVIOUS
    <3>2. l \in 1..1 BY <2>7, <2>9, <2>10, <3>1, Zenon
    <3>3. l = 1 BY <3>2
    <3> QED BY <2>9, <2>10, <3>1, <3>3, Zenon
  <2> QED BY <1>8, <2>6, <2>8, <2>10, Zenon
<1> QED BY <1>9, <1>10

\* No two headers have the same number of their name behind them.
LEMMA OneInstance ==
    ASSUME NEW hdr, hdr \in Seq(Range(hdr)), NEW name, NEW c,
           NEW i \in Instance(hdr, name, c), NEW j \in Instance(hdr, name, c)
    PROVE  i = j
<1>1. ASSUME NEW x \in Instance(hdr, name, c), NEW y \in Instance(hdr, name, c), x < y PROVE FALSE
  <2>1. /\ x \in DOMAIN hdr /\ Cardinality(Behind(hdr, name, x)) = c
        /\ y \in DOMAIN hdr /\ hdr[y].n = name /\ Cardinality(Behind(hdr, name, y)) = c
    BY DEF Instance, Behind
  <2>2. x \in Nat /\ y \in Nat /\ \A k \in DOMAIN hdr : k \in Nat BY <2>1
  <2>3. PICK A, B : A = Behind(hdr, name, x) /\ B = Behind(hdr, name, y) OBVIOUS
  <2>4. B \subseteq A BY <1>1, <2>2, <2>3 DEF Behind
  <2>5. y \in A /\ y \notin B BY <1>1, <2>1, <2>2, <2>3 DEF Behind
  <2>6. IsFiniteSet(A) /\ Cardinality(A) = c /\ Cardinality(B) = c BY <2>1, <2>3, BehindFinite
  <2>7. Cardinality(B) = Cardinality(A) => A = B BY <2>4, <2>6, FS_Subset
  <2> QED BY <2>5, <2>6, <2>7
<1>2. i \in Nat /\ j \in Nat
  <2>1. i \in DOMAIN hdr /\ j \in DOMAIN hdr BY DEF Instance
  <2> QED BY <2>1
<1>3. i < j \/ j < i \/ i = j BY <1>2
<1> QED BY <1>1, <1>3

\* e finds the headers of oh in mh, where no other header has a signed name.
Embeds(e, oh, mh) ==
    /\ e \in [DOMAIN oh -> DOMAIN mh]
    /\ \A i \in DOMAIN oh : mh[e[i]].n = oh[i].n /\ mh[e[i]].v = oh[i].v
    /\ \A i, j \in DOMAIN oh : i < j => e[i] < e[j]
    /\ \A k \in DOMAIN mh : mh[k].n \in Range(SIGNED_HEADERS) => k \in Range(e)

LEMMA BehindSurvives ==
    ASSUME NEW oh, oh \in Seq(Range(oh)), NEW mh, mh \in Seq(Range(mh)), NEW e, Embeds(e, oh, mh),
           NEW name \in Range(SIGNED_HEADERS), NEW i \in DOMAIN oh
    PROVE  Cardinality(Behind(mh, name, e[i])) = Cardinality(Behind(oh, name, i))
<1>1. PICK A : A = Behind(oh, name, i) OBVIOUS
<1>2. PICK B : B = Behind(mh, name, e[i]) OBVIOUS
<1>3. PICK f : f = [j \in A |-> e[j]] OBVIOUS
<1>4. /\ i \in Nat /\ e[i] \in Nat /\ \A k \in DOMAIN oh : k \in Nat /\ e[k] \in DOMAIN mh /\ e[k] \in Nat
  <2>1. \A k \in DOMAIN oh : k \in Nat OBVIOUS
  <2>2. \A k \in DOMAIN mh : k \in Nat OBVIOUS
  <2>3. \A k \in DOMAIN oh : e[k] \in DOMAIN mh BY DEF Embeds
  <2> QED BY <2>1, <2>2, <2>3
<1>5. \A j \in A : j \in DOMAIN oh /\ j > i /\ oh[j].n = name BY <1>1 DEF Behind
<1>6. f \in [A -> B]
  <2>1. ASSUME NEW j \in A PROVE e[j] \in B
    <3>1. e[j] \in DOMAIN mh /\ e[j] > e[i]
      <4>1. i < j BY <1>4, <1>5
      <4>2. e[i] < e[j] BY <1>5, <4>1 DEF Embeds
      <4> QED BY <1>4, <1>5, <4>2
    <3>2. mh[e[j]].n = name BY <1>5 DEF Embeds
    <3> QED BY <1>2, <3>1, <3>2 DEF Behind
  <2> QED BY <1>3, <2>1
<1>7. \A j, k \in A : j # k => f[j] # f[k]
  <2>1. \A j, k \in A : j < k => f[j] < f[k] BY <1>3, <1>5 DEF Embeds
  <2>2. \A j \in A : f[j] \in Nat /\ j \in Nat BY <1>3, <1>4, <1>5
  <2> QED BY <2>1, <2>2
<1>8. ASSUME NEW k \in B PROVE \E j \in A : f[j] = k
  <2>1. k \in DOMAIN mh /\ k > e[i] /\ mh[k].n = name BY <1>2 DEF Behind
  <2>2. k \in Range(e) BY <2>1 DEF Embeds
  <2>3. DOMAIN e = DOMAIN oh BY DEF Embeds
  <2>4. PICK j \in DOMAIN oh : e[j] = k BY <2>2, <2>3 DEF Range
  <2>5. oh[j].n = name BY <2>1, <2>4 DEF Embeds
  <2>6. j > i
    <3>1. j < i => e[j] < e[i] BY DEF Embeds
    <3>2. e[j] > e[i] BY <2>1, <2>4
    <3> QED BY <1>4, <3>1, <3>2
  <2>7. j \in A BY <1>1, <2>5, <2>6 DEF Behind
  <2> QED BY <1>3, <2>4, <2>7
<1>9. f \in Bijection(A, B) BY <1>6, <1>7, <1>8 DEF Bijection, Injection, IsInjective, Surjection
<1>10. ExistsBijection(A, B) BY <1>9 DEF ExistsBijection
<1>11. IsFiniteSet(A) BY <1>1, BehindFinite
<1>12. Cardinality(B) = Cardinality(A) BY <1>10, <1>11, FS_Bijection
<1> QED BY <1>1, <1>2, <1>12, Zenon

\* The n-th of a signed name is the same header in both.
LEMMA InstanceSurvives ==
    ASSUME NEW oh, oh \in Seq(Range(oh)), NEW mh, mh \in Seq(Range(mh)), NEW e, Embeds(e, oh, mh),
           NEW name \in Range(SIGNED_HEADERS), NEW c
    PROVE  /\ \A i \in Instance(oh, name, c) : e[i] \in Instance(mh, name, c)
           /\ \A k \in Instance(mh, name, c) : \E i \in Instance(oh, name, c) : k = e[i]
<1>1. ASSUME NEW i \in Instance(oh, name, c) PROVE e[i] \in Instance(mh, name, c)
  <2>1. i \in DOMAIN oh /\ oh[i].n = name /\ Cardinality(Behind(oh, name, i)) = c BY DEF Instance, Behind
  <2>2. Cardinality(Behind(mh, name, e[i])) = c BY <2>1, BehindSurvives
  <2>3. e[i] \in DOMAIN mh /\ mh[e[i]].n = name BY <2>1 DEF Embeds
  <2> QED BY <2>2, <2>3 DEF Instance, Behind
<1>2. ASSUME NEW k \in Instance(mh, name, c) PROVE \E i \in Instance(oh, name, c) : k = e[i]
  <2>1. k \in DOMAIN mh /\ mh[k].n = name /\ Cardinality(Behind(mh, name, k)) = c BY DEF Instance, Behind
  <2>2. k \in Range(e) BY <2>1 DEF Embeds
  <2>3. DOMAIN e = DOMAIN oh BY DEF Embeds
  <2>4. PICK i \in DOMAIN oh : e[i] = k BY <2>2, <2>3 DEF Range
  <2>5. oh[i].n = name BY <2>1, <2>4 DEF Embeds
  <2>6. Cardinality(Behind(oh, name, i)) = c BY <2>1, <2>4, BehindSurvives
  <2>7. i \in Instance(oh, name, c) BY <2>5, <2>6 DEF Instance, Behind
  <2> QED BY <2>4, <2>7
<1> QED BY <1>1, <1>2, Zenon

LEMMA PartSurvives ==
    ASSUME NEW oh, oh \in Seq(Range(oh)), NEW mh, mh \in Seq(Range(mh)), NEW e, Embeds(e, oh, mh),
           NEW h, NEW k, h[k] \in Range(SIGNED_HEADERS)
    PROVE  SignedPart(mh, h, k) = SignedPart(oh, h, k)
<1>1. PICK c : c = Cardinality({m \in 1..(k - 1) : h[m] = h[k]}) OBVIOUS
<1>2. PICK name \in Range(SIGNED_HEADERS) : name = h[k] OBVIOUS
<1>3. PICK A : A = Instance(oh, name, c) OBVIOUS
<1>4. PICK B : B = Instance(mh, name, c) OBVIOUS
<1>5. /\ \A i \in A : e[i] \in B
      /\ \A x \in B : \E i \in A : x = e[i]
  BY <1>3, <1>4, InstanceSurvives
<1>60. A = Instance(oh, h[k], Cardinality({m \in 1..(k - 1) : h[m] = h[k]})) BY <1>1, <1>2, <1>3, Zenon
<1>61. B = Instance(mh, h[k], Cardinality({m \in 1..(k - 1) : h[m] = h[k]})) BY <1>1, <1>2, <1>4, Zenon
<1>6. SignedPart(oh, h, k) = IF A = {} THEN <<>> ELSE canonicalize_header(oh[CHOOSE i \in A : TRUE])
  BY <1>60 DEF SignedPart
<1>7. SignedPart(mh, h, k) = IF B = {} THEN <<>> ELSE canonicalize_header(mh[CHOOSE i \in B : TRUE])
  BY <1>61 DEF SignedPart
<1>8. CASE A = {}
  <2>1. B = {} BY <1>5, <1>8
  <2> QED BY <1>6, <1>7, <1>8, <2>1, Zenon
<1>9. CASE A # {}
  <2>1. B # {} BY <1>5, <1>9
  <2>2. PICK x : x = CHOOSE i \in A : TRUE OBVIOUS
  <2>3. PICK y : y = CHOOSE i \in B : TRUE OBVIOUS
  <2>4. x \in A /\ y \in B BY <1>9, <2>1, <2>2, <2>3
  <2>5. PICK i \in A : y = e[i] BY <1>5, <2>4
  <2>6. i = x BY <1>3, <2>4, <2>5, OneInstance, Zenon
  <2>7. x \in DOMAIN oh BY <1>3, <2>4 DEF Instance
  <2>8. mh[y].n = oh[x].n /\ mh[y].v = oh[x].v BY <2>5, <2>6, <2>7 DEF Embeds
  <2>9. canonicalize_header(mh[y]) = canonicalize_header(oh[x]) BY <2>8, Zenon DEF canonicalize_header
  <2> QED BY <1>6, <1>7, <1>9, <2>1, <2>2, <2>3, <2>9, Zenon
<1> QED BY <1>8, <1>9

LEMMA HeadersSurvive ==
    ASSUME NEW oh, oh \in Seq(Range(oh)), NEW mh, mh \in Seq(Range(mh)), NEW e, Embeds(e, oh, mh),
           NEW h \in Seq(Range(SIGNED_HEADERS))
    PROVE  assemble_signed_headers(mh, h) = assemble_signed_headers(oh, h)
<1>1. \A k \in 1..Len(h) : h[k] \in Range(SIGNED_HEADERS) OBVIOUS
<1>2. \A k \in 1..Len(h) : SignedPart(mh, h, k) = SignedPart(oh, h, k) BY <1>1, PartSurvives
<1>3. PICK P : P = [k \in 1..Len(h) |-> SignedPart(mh, h, k)] OBVIOUS
<1>4. P = [k \in 1..Len(h) |-> SignedPart(oh, h, k)] BY <1>2, <1>3
<1>5. assemble_signed_headers(mh, h) = SelectIn(P, Range(P) \ {<<>>}) BY <1>3, Zenon DEF assemble_signed_headers
<1>6. assemble_signed_headers(oh, h) = SelectIn(P, Range(P) \ {<<>>}) BY <1>4, Zenon DEF assemble_signed_headers
<1> QED BY <1>5, <1>6, Zenon

\* The last header of a name.
LEMMA FoundHeader ==
    ASSUME NEW hdr, hdr \in Seq(Range(hdr)), NEW name, NEW at \in DOMAIN hdr, hdr[at].n = name,
           \A j \in DOMAIN hdr : hdr[j].n = name => j <= at
    PROVE  find_header(hdr, name) = at /\ at # 0
<1>1. PICK A : A = {i \in DOMAIN hdr : hdr[i].n = name} OBVIOUS
<1>2. find_header(hdr, name) = IF A = {} THEN 0 ELSE CHOOSE i \in A : \A j \in A : j <= i
  BY <1>1 DEF find_header
<1>3. at \in A /\ \A j \in A : j <= at BY <1>1
<1>4. A # {} BY <1>3
<1>5. \A i \in A : i \in Nat /\ i # 0 BY <1>1
<1>6. \A i \in A : (\A j \in A : j <= i) => i = at BY <1>3, <1>5
<1>7. PICK x : x = CHOOSE i \in A : \A j \in A : j <= i BY Zenon
<1>8. x \in A /\ \A j \in A : j <= x BY <1>3, <1>7
<1>9. x = at BY <1>6, <1>8
<1> QED BY <1>2, <1>3, <1>4, <1>5, <1>7, <1>9

\* The names sign lists are names that may be signed, From among them.
SignedList(h) == h \in Seq(Range(SIGNED_HEADERS)) /\ h # <<>> /\ \E i \in DOMAIN h : h[i] = "from"
LEMMA SignListed ==
    ASSUME NEW hdr, hdr \in Seq(Range(hdr)), NEW i0, OneFrom(hdr, i0), NEW h, SignedHeaders(hdr, h)
    PROVE  SignedList(h)
<1>0. h = Append(SelectIn(SIGNED_HEADERS, Names(hdr)), "from") BY Zenon DEF SignedHeaders
<1>1. PICK n \in Nat, h0 \in Seq(Range(SIGNED_HEADERS)) :
         /\ h0 = SelectIn(SIGNED_HEADERS, Names(hdr)) /\ Len(h0) = n
         /\ \A j, k \in 1..n : j # k => h0[j] # h0[k]
         /\ \A k \in 1..n : h0[k] \in Names(hdr)
         /\ \E k \in 1..n : h0[k] = "from"
  <2>1. i0 \in DOMAIN hdr /\ hdr[i0].n = "from" BY DEF OneFrom
  <2> QED BY <2>1, SignedNames
<1>2. PICK p \in 1..n : h0[p] = "from" BY <1>1
<1>3. PICK T : T = Range(SIGNED_HEADERS) OBVIOUS
<1>4. h0 \in Seq(T) /\ h0[p] \in T BY <1>1, <1>3
<1>5. PICK f \in T : f = "from" BY <1>2, <1>4
<1>6. h = Append(h0, f) BY <1>0, <1>1, <1>5, Zenon
<1>61. h \in Seq(T) /\ Len(h) = Len(h0) + 1 /\ h[Len(h0) + 1] = f
  <2>1. h0 \in Seq(T) /\ f \in T BY <1>4
  <2> QED BY <1>6, <2>1, AppendProperties
<1>7. h \in Seq(T) /\ Len(h) = n + 1 /\ h[n + 1] = f BY <1>1, <1>61, Zenon
<1>8. n + 1 \in DOMAIN h BY <1>7
<1>9. DOMAIN <<>> = {} OBVIOUS
<1>10. h # <<>> BY <1>8, <1>9, Zenon
<1> QED BY <1>3, <1>5, <1>7, <1>8, <1>10, Zenon DEF SignedList

\* A message that carries the signature of its author's domain verifies after
\* what relays do to it.
LEMMA RelayedVerifies ==
    ASSUME NEW msg, NEW orig, MessageOk(msg), MessageOk(orig), NEW i0, OneFrom(orig.hdr, i0),
           Relayed(orig, msg), NEW at \in DOMAIN msg.hdr, msg.hdr[at].n = "dkim-signature",
           \A j \in DOMAIN msg.hdr : msg.hdr[j].n = "dkim-signature" => j <= at,
           NEW t, t = msg.hdr[at].tags, NEW key, t = sign(key, t.d, t.s, orig).tags
    PROVE  verify(msg, key) = "Ok"
<1>1. msg.hdr \in Seq(Range(msg.hdr)) /\ orig.hdr \in Seq(Range(orig.hdr)) BY Zenon DEF MessageOk
<1>2. msg.body \in Seq(Range(msg.body)) /\ orig.body \in Seq(Range(orig.body)) BY Zenon DEF MessageOk
<1>3. find_header(msg.hdr, "dkim-signature") = at /\ at # 0 BY <1>1, FoundHeader
<1>4. verify(msg, key) =
        IF at = 0 THEN "NoSignature"
        ELSE IF t.a # "ed25519-sha256" THEN "UnsupportedAlgorithm"
        ELSE IF t.c \notin {"relaxed/relaxed", ""}
        THEN "UnsupportedCanonicalization"
        ELSE IF t.bh = <<"">> THEN "MalformedSignature"
        ELSE IF t.bh # canonicalize_body(msg.body) THEN "BodyHashMismatch"
        ELSE IF t.h = <<>> \/ t.b = <<>> THEN "MalformedSignature"
        ELSE IF \A i \in DOMAIN t.h : t.h[i] # "from" THEN "FromFieldNotSigned"
        ELSE IF t.b # <<key, SigningInput(msg.hdr, t.h, t)>>
        THEN "SignatureInvalid" ELSE "Ok"
  BY <1>3, Zenon DEF verify
<1>5. PICK h : h = Append(SelectIn(SIGNED_HEADERS, Names(orig.hdr)), "from") OBVIOUS
<1>6. PICK d, s, cb : d = t.d /\ s = t.s /\ cb = canonicalize_body(orig.body) OBVIOUS
<1>7. PICK base : base = [a |-> "ed25519-sha256", c |-> "relaxed/relaxed", d |-> d,
                 s |-> s, h |-> h, bh |-> cb, b |-> <<>>]
  OBVIOUS
<1>8. PICK sb : sb = <<key, SigningInput(orig.hdr, h, base)>> OBVIOUS
<1>9. t = [base EXCEPT !.b = sb]
  <2>1. sign(key, d, s, orig) = [n |-> "dkim-signature", v |-> <<"sig">>, w |-> 0,
                                 tags |-> [base EXCEPT !.b = sb]]
    BY <1>5, <1>6, <1>7, <1>8, Zenon DEF sign
  <2>2. PICK tg : tg = [base EXCEPT !.b = sb] OBVIOUS
  <2>3. [n |-> "dkim-signature", v |-> <<"sig">>, w |-> 0, tags |-> tg].tags = tg OBVIOUS
  <2>4. t = sign(key, d, s, orig).tags BY <1>6, Zenon
  <2> QED BY <2>1, <2>2, <2>3, <2>4, Zenon
<1>10. /\ t.a = "ed25519-sha256" /\ t.c = "relaxed/relaxed" /\ t.h = h /\ t.bh = cb /\ t.b = sb
  BY <1>7, <1>9
<1>11. [t EXCEPT !.b = <<>>] = [base EXCEPT !.b = <<>>] BY <1>7, <1>9
<1>12. canonicalize_body(msg.body) = cb /\ cb # <<"">>
  <2>1. PICK a, b : a = orig.body /\ b = msg.body OBVIOUS
  <2>2. a \in Seq(Range(a)) /\ b \in Seq(Range(b)) BY <1>2, <2>1, Zenon
  <2>3. \A i \in DOMAIN a \cup DOMAIN b : LineAt(b, i) = LineAt(a, i) BY <2>1, Zenon DEF Relayed
  <2>4. canonicalize_body(a) = canonicalize_body(b) /\ canonicalize_body(a) # <<"">>
    BY <2>2, <2>3, BodySurvives
  <2> QED BY <1>6, <2>1, <2>4, Zenon
<1>13. SignedList(h)
  <2>1. SignedHeaders(orig.hdr, h) BY <1>5, Zenon DEF SignedHeaders
  <2> QED BY <1>1, <2>1, SignListed
<1>14. assemble_signed_headers(msg.hdr, h) = assemble_signed_headers(orig.hdr, h)
  <2>1. PICK mh, oh : mh = msg.hdr /\ oh = orig.hdr OBVIOUS
  <2>2. mh \in Seq(Range(mh)) /\ oh \in Seq(Range(oh)) BY <1>1, <2>1, Zenon
  <2>3. \E e : Embeds(e, oh, mh) BY <2>1, Zenon DEF Relayed, Embeds
  <2>4. h \in Seq(Range(SIGNED_HEADERS)) BY <1>13, Zenon DEF SignedList
  <2>5. assemble_signed_headers(mh, h) = assemble_signed_headers(oh, h) BY <2>2, <2>3, <2>4, HeadersSurvive
  <2> QED BY <2>1, <2>5, Zenon
<1>15. sb = <<key, SigningInput(msg.hdr, h, t)>>
  <2>1. SigningInput(msg.hdr, h, t) = SigningInput(orig.hdr, h, base) BY <1>11, <1>14, Zenon DEF SigningInput
  <2> QED BY <1>8, <2>1, Zenon
<1>16. sb # <<>> BY <1>8
<1>17. h # <<>> /\ ~ \A i \in DOMAIN h : h[i] # "from" BY <1>13, Zenon DEF SignedList
<1>18. t.c \in {"relaxed/relaxed", ""} BY <1>10, Zenon
<1> QED BY <1>3, <1>4, <1>10, <1>12, <1>15, <1>16, <1>17, <1>18, Zenon

\* dkim.rs, relaxed canonicalization: refolding, empty lines at the end and headers that are
\* not signed break no signature.
THEOREM RelayedSurvive == AuthSpec => []RelaxedSurvives
<1>1. ASSUME AuthInv, decision # NotEvaluated, Carries(scn), Relayed(scn.orig, scn.msg)
      PROVE  decision.dkim = [v |-> "Pass", d |-> scn.signer]
  <2>1. PICK msg, orig, keys : msg = scn.msg /\ orig = scn.orig /\ keys = scn.keys OBVIOUS
  <2>2. MessageOk(msg) /\ MessageOk(orig) BY <1>1, <2>1, AuthorFacts, Zenon
  <2>3. PICK i0 \in DOMAIN orig.hdr : OneFrom(orig.hdr, i0) BY <1>1, <2>1, AuthorFacts
  <2>4. PICK at \in DOMAIN msg.hdr :
          /\ msg.hdr[at].n = "dkim-signature"
          /\ \A j \in DOMAIN msg.hdr : msg.hdr[j].n = "dkim-signature" => j <= at
          /\ scn.signer = msg.hdr[at].tags.d /\ msg.hdr[at].tags.d # "" /\ msg.hdr[at].tags.s # ""
          /\ resolve_dkim_key(keys, msg.hdr[at].tags.d, msg.hdr[at].tags.s) # "nokey"
          /\ msg.hdr[at].tags = sign(resolve_dkim_key(keys, msg.hdr[at].tags.d, msg.hdr[at].tags.s),
                                     msg.hdr[at].tags.d, msg.hdr[at].tags.s, orig).tags
    BY <1>1, <2>1 DEF Carries
  <2>5. PICK t : t = msg.hdr[at].tags OBVIOUS
  <2>6. PICK key : key = resolve_dkim_key(keys, t.d, t.s) OBVIOUS
  <2>7. /\ scn.signer = t.d /\ t.d # "" /\ t.s # "" /\ key # "nokey" /\ t = sign(key, t.d, t.s, orig).tags
    BY <2>4, <2>5, <2>6, Zenon
  <2>8. verify(msg, key) = "Ok"
    <3>1. Relayed(orig, msg) BY <1>1, <2>1, Zenon
    <3> QED BY <2>2, <2>3, <2>4, <2>5, <2>7, <3>1, RelayedVerifies, Zenon
  <2>9. find_header(msg.hdr, "dkim-signature") = at /\ at # 0
    <3>1. msg.hdr \in Seq(Range(msg.hdr)) BY <2>2, Zenon DEF MessageOk
    <3> QED BY <2>4, <3>1, FoundHeader
  <2>10. verify_with_resolver(msg, keys) = [v |-> "Pass", d |-> t.d]
    <3>1. verify_with_resolver(msg, keys) =
            IF at = 0 \/ t.d = "" \/ t.s = "" THEN [v |-> "NoSignature", d |-> ""]
            ELSE IF key = "nokey" THEN [v |-> "KeyUnavailable", d |-> t.d]
            ELSE IF verify(msg, key) = "Ok" THEN [v |-> "Pass", d |-> t.d]
            ELSE [v |-> "Fail", d |-> t.d]
      BY <2>5, <2>6, <2>9, Zenon DEF verify_with_resolver
    <3> QED BY <2>7, <2>8, <2>9, <3>1, Zenon
  <2>11. decision.dkim = verify_with_resolver(msg, keys) BY <1>1, <2>1, DecisionFacts, Zenon
  <2> QED BY <2>7, <2>10, <2>11, Zenon
<1>2. AuthInv => RelaxedSurvives BY <1>1, Zenon DEF RelaxedSurvives
<1> QED BY <1>2, AuthHolds, PTL

\* spf.rs and dkim.rs: SPF passes only hosts some record of the sender's calls good, within
\* its budget of lookups; a DKIM Pass binds the author and the body that were signed, and
\* what relays do to a message does not break it.
THEOREM ChecksAreSound == AuthSpec => []ChecksSound
BY SpfIsSound, DkimIsBound, RelayedSurvive, PTL DEF ChecksSound
=============================================================================
