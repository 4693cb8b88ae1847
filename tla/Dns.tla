-------------------------------- MODULE Dns --------------------------------
(***************************************************************************)
(* The gateway's DNS client (pier-gateway dns.rs): one query, one datagram *)
(* or the timeout, and the reading of the answer.  A packet is a sequence  *)
(* of bytes of which only what the reader looks at matters; its fixed      *)
(* parts (the header, QTYPE and QCLASS, the ten bytes before the data of a *)
(* record) are scaled to constants, the last byte of a record's head is    *)
(* its rdlength.  The loop of read_name is one action per turn.            *)
(***************************************************************************)
EXTENDS Naturals, Sequences

CONSTANTS Datagrams,           \* [bytes, qdcount, ancount, rcode] a peer may send
          Pointer,             \* a byte with the two top bits set; the target is the next byte
          Reserved,            \* a byte with one of them set
          MaxJumps,            \* 32
          QTail, RRHead        \* 4 and 10

VARIABLES query,     \* what is asked, and the datagram the peer has for it
          stage,     \* where query_raw and its callers are
          left,      \* questions or answers still to read
          walk,      \* the loop of read_name
          answers,   \* the records read
          decoded    \* how many of them the caller has looked into
dnsVars == <<query, stage, left, walk, answers, decoded>>

NoneYet == 1000      \* resume_at is None
Byte(i) == query.bytes[i + 1]
Size == Len(query.bytes)

Name(pos) == [pos |-> pos, resume_at |-> NoneYet, jumps |-> 0, labels |-> {}]
DnsInit == /\ query \in {[qtype |-> t, bytes |-> d.bytes, qdcount |-> d.qdcount, ancount |-> d.ancount,
                        rcode |-> d.rcode] : t \in {"A", "MX", "TXT"}, d \in Datagrams}
           /\ stage = "send" /\ left = 0 /\ walk = Name(0) /\ answers = <<>> /\ decoded = 0

Fail == stage' = "failed" /\ UNCHANGED <<query, left, walk, answers, decoded>>

(* query_raw: an unspellable name, a socket that refuses, or the query is  *)
(* out; then a datagram, or none in time.                                  *)
send == /\ stage = "send"
        /\ \/ Fail
           \/ stage' = "recv" /\ UNCHANGED <<query, left, walk, answers, decoded>>
recv_fails == stage = "recv" /\ Fail

(* parse_response moves on when the section it is in is done: to the       *)
(* answers, unless the rcode says there are none, then to the caller.      *)
Enter(section, n, pos) ==
    LET s == CASE section = "question" /\ n > 0 -> "question"
               [] section = "question" /\ query.rcode # 0 -> "decode"
               [] OTHER -> IF (IF section = "question" THEN query.ancount ELSE n) > 0
                           THEN "answer" ELSE "decode"
    IN  /\ stage' = s /\ walk' = Name(pos)
        /\ left' = IF s = "answer" /\ section = "question" THEN query.ancount ELSE n
recv == /\ stage = "recv" /\ Enter("question", query.qdcount, 0)
        /\ UNCHANGED <<query, answers, decoded>>

-----------------------------------------------------------------------------
Reading == stage \in {"question", "answer", "exchange"}

(* One turn of read_name that stays in the loop: over a label, or back     *)
(* along a pointer, whose first one fixes where reading goes on.           *)
label == /\ Reading /\ walk.jumps <= MaxJumps /\ walk.pos < Size
         /\ Byte(walk.pos) \notin {0, Pointer, Reserved}
         /\ walk.pos + 1 + Byte(walk.pos) <= Size
         /\ walk' = [walk EXCEPT !.labels = @ \cup {walk.pos}, !.pos = @ + 1 + Byte(@)]
         /\ UNCHANGED <<query, stage, left, answers, decoded>>

GoesBack == walk.pos + 1 < Size /\ Byte(walk.pos + 1) < walk.pos
Jumped_Uncounted(w, target) == [w EXCEPT !.pos = target,
                                         !.resume_at = IF @ = NoneYet THEN w.pos + 2 ELSE @]
Jumped(w, target) == [w EXCEPT !.pos = target, !.jumps = @ + 1,
                               !.resume_at = IF @ = NoneYet THEN w.pos + 2 ELSE @]
jump == /\ Reading /\ walk.jumps <= MaxJumps /\ walk.pos < Size
        /\ Byte(walk.pos) = Pointer /\ GoesBack
        /\ walk' = Jumped(walk, Byte(walk.pos + 1))
        /\ UNCHANGED <<query, stage, left, answers, decoded>>

(* It gives up: too many jumps, the end of the packet, a pointer that does *)
(* not go back, a reserved length.  The lookup fails, except that the      *)
(* callers pass over an exchange that cannot be read.                      *)
Bad == \/ walk.jumps > MaxJumps
       \/ walk.pos >= Size
       \/ /\ walk.pos < Size
          /\ CASE Byte(walk.pos) = 0 -> FALSE
               [] Byte(walk.pos) = Reserved -> TRUE
               [] Byte(walk.pos) = Pointer -> ~GoesBack
               [] OTHER -> walk.pos + 1 + Byte(walk.pos) > Size
Pass == stage' = "decode" /\ decoded' = decoded + 1 /\ UNCHANGED <<query, left, walk, answers>>
bad_name == Reading /\ Bad /\ (IF stage = "exchange" THEN Pass ELSE Fail)

(* The name is read; what comes after it depends on what it names.         *)
AtEnd == Reading /\ ~Bad /\ Byte(walk.pos) = 0
After == IF walk.resume_at = NoneYet THEN walk.pos + 1 ELSE walk.resume_at

question == /\ stage = "question" /\ AtEnd
            /\ IF After + QTail > Size THEN Fail
               ELSE /\ Enter("question", left - 1, After + QTail)
                    /\ UNCHANGED <<query, answers, decoded>>
answer == LET from == After + RRHead
          IN  /\ stage = "answer" /\ AtEnd
              /\ IF from > Size \/ from + Byte(from - 1) > Size THEN Fail
                 ELSE /\ answers' = Append(answers, [name |-> walk.labels, from |-> from,
                                                     to |-> from + Byte(from - 1)])
                      /\ Enter("answer", left - 1, from + Byte(from - 1))
                      /\ UNCHANGED <<query, decoded>>
exchange == stage = "exchange" /\ AtEnd /\ Pass

(* The callers decode record after record: an exchange is a name behind    *)
(* the preference, a text is a run of counted strings, and a record whose  *)
(* data is too short is passed over.                                       *)
parse_rdata ==
    /\ stage = "decode" /\ decoded < Len(answers)
    /\ LET rr == answers[decoded + 1]
       IN  CASE query.qtype = "A" -> Pass
             [] query.qtype = "MX" ->
                    IF rr.to - rr.from < 2 THEN Pass
                    ELSE /\ stage' = "exchange" /\ walk' = Name(rr.from + 1)
                         /\ UNCHANGED <<query, left, answers, decoded>>
             [] query.qtype = "TXT" -> /\ stage' = "text" /\ walk' = Name(rr.from)
                                       /\ UNCHANGED <<query, left, answers, decoded>>
Fits_Packet(rr, pos) == pos < rr.to /\ pos + 1 + Byte(pos) <= Size
Fits(rr, pos) == pos < rr.to /\ pos + 1 + Byte(pos) <= rr.to
parse_txt_rdata ==
    /\ stage = "text"
    /\ IF Fits(answers[decoded + 1], walk.pos)
       THEN /\ walk' = [walk EXCEPT !.labels = @ \cup {walk.pos}, !.pos = @ + 1 + Byte(@)]
            /\ UNCHANGED <<query, stage, left, answers, decoded>>
       ELSE Pass
resolved == /\ stage = "decode" /\ decoded = Len(answers) /\ stage' = "resolved"
            /\ UNCHANGED <<query, left, walk, answers, decoded>>

DnsNext == \/ send \/ recv_fails \/ recv
           \/ label \/ jump \/ bad_name \/ question \/ answer \/ exchange
           \/ parse_rdata \/ parse_txt_rdata \/ resolved
DnsFairness == WF_dnsVars(DnsNext)    \* the caller's thread runs; recv has a read timeout

-----------------------------------------------------------------------------
(* A query that is out ends, whatever the peer sends and if it sends       *)
(* nothing: going back along pointers does not go on for ever (the jump    *)
(* bound: a pointer may go back to a label in front of it).                *)
LookupEnds == (stage = "recv") ~> (stage \in {"failed", "resolved"})

(* Records are read one behind the other and inside the packet, whatever   *)
(* names in them point to, and a text never takes bytes of the next record *)
(* (the resume position of read_name, parse_response, parse_txt_rdata).    *)
RecordsTile ==
    /\ \A i \in DOMAIN answers :
           /\ answers[i].from <= answers[i].to /\ answers[i].to <= Size
           /\ i > 1 => answers[i].from > answers[i - 1].to
    /\ (stage = "answer" /\ answers # <<>> /\ walk.resume_at # NoneYet) =>
           walk.resume_at > answers[Len(answers)].to
    /\ stage = "text" => walk.pos <= answers[decoded + 1].to

(* The DNS client reads the records of an answer as they lie in it, and    *)
(* comes to an end with every answer (dns.rs).                             *)
DnsReads == []RecordsTile /\ LookupEnds
=============================================================================
