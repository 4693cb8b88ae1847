---------------------------- MODULE ForwardedAddr ----------------------------
(***************************************************************************)
(* The reversible address of a legacy sender (pier-gateway                 *)
(* forwarded_addr.rs): local part and domain, escaped and joined by a dot  *)
(* into one local part of the gateway, folded in case by the mail servers  *)
(* on the way, and taken apart again.  Strings are sequences over a small  *)
(* alphabet with a letter in both cases, the dot and the dash.             *)
(***************************************************************************)
EXTENDS Naturals, Sequences, SequencesExt

CONSTANTS Alphabet,      \* characters; the one letter with two cases is among them
          Pairs,         \* [local, domain] that are given to encode
          MAX_LOCALPART_LEN

ASSUME ForwardAssumption == /\ MAX_LOCALPART_LEN \in Nat /\ {"a", "A", "-", "."} \subseteq Alphabet
                            /\ Pairs \subseteq [local : Seq(Alphabet), domain : Seq(Alphabet)]

VARIABLES pair, address, hop
fwdVars == <<pair, address, hop>>

lower(s) == [i \in DOMAIN s |-> IF s[i] = "A" THEN "a" ELSE s[i]]
Doubled(s) == \E i \in 1..(Len(s) - 1) : s[i] = "." /\ s[i + 1] = "."

is_valid_local(s) ==
    s # <<>> /\ Len(s) <= MAX_LOCALPART_LEN /\ Head(s) # "." /\ Last(s) # "." /\ ~Doubled(s)

(* Every label is there, and neither starts nor ends with a dash.          *)
is_valid_domain(s) ==
    /\ s # <<>> /\ Head(s) \notin {".", "-"} /\ Last(s) \notin {".", "-"} /\ ~Doubled(s)
    /\ \A i \in 1..(Len(s) - 1) : {s[i], s[i + 1]} # {".", "-"}

(* escape_into: a dash goes in front of every dash and every dot.          *)
Pushed(out, c) == IF c \in {"-", "."} THEN Append(Append(out, "-"), c) ELSE Append(out, c)
escape_Dot(s) ==
    LET out[i \in 0..Len(s)] == IF i = 0 THEN <<>>
                                ELSE IF s[i] = "-" THEN Append(out[i - 1], "-") ELSE Pushed(out[i - 1], s[i])
    IN  out[Len(s)]
escape_into(s) ==
    LET out[i \in 0..Len(s)] == IF i = 0 THEN <<>> ELSE Pushed(out[i - 1], s[i])
    IN  out[Len(s)]

Refused == [ok |-> FALSE, s |-> <<>>]
encode(local, domain) ==
    LET s == escape_into(lower(local)) \o <<".">> \o escape_into(lower(domain))
    IN  IF is_valid_local(lower(local)) /\ is_valid_domain(lower(domain)) /\ Len(s) <= MAX_LOCALPART_LEN
        THEN [ok |-> TRUE, s |-> s] ELSE Refused

(* The scan of decode: to the first bare dot the local part, behind it the *)
(* domain; a dash opens a pair, and a second bare dot is an error.         *)
Scanned(r, c) ==
    LET push(ch) == IF r.split THEN [r EXCEPT !.domain = Append(@, ch), !.escape = FALSE]
                               ELSE [r EXCEPT !.local = Append(@, ch), !.escape = FALSE]
    IN  CASE r.escape -> IF c \in {"-", "."} THEN push(c) ELSE [r EXCEPT !.bad = TRUE]
          [] ~r.escape /\ c = "-" -> [r EXCEPT !.escape = TRUE]
          [] ~r.escape /\ c = "." -> IF r.split THEN [r EXCEPT !.bad = TRUE] ELSE [r EXCEPT !.split = TRUE]
          [] OTHER -> push(c)
Scan(s) ==
    LET r[i \in 0..Len(s)] ==
            IF i = 0 THEN [local |-> <<>>, domain |-> <<>>, split |-> FALSE, escape |-> FALSE, bad |-> FALSE]
                     ELSE Scanned(r[i - 1], s[i])
    IN  r[Len(s)]

NoPair == [ok |-> FALSE, local |-> <<>>, domain |-> <<>>]
decode(s) ==
    LET r == Scan(lower(s))
        back == encode(r.local, r.domain)
    IN  IF /\ r.split /\ ~r.escape /\ ~r.bad
           /\ is_valid_local(r.local) /\ is_valid_domain(r.domain)
           /\ back.ok /\ back.s = lower(s)
        THEN [ok |-> TRUE, local |-> r.local, domain |-> r.domain] ELSE NoPair

-----------------------------------------------------------------------------
FwdInit == pair \in Pairs /\ address = Refused /\ hop = "sender"

Encode == hop = "sender" /\ hop' = "mta" /\ address' = encode(pair.local, pair.domain) /\ UNCHANGED pair
(* External: a mail server may write any letter of it in capitals.         *)
Fold == /\ hop = "mta" /\ address.ok /\ hop' = "gateway"
        /\ \E S \in SUBSET {i \in DOMAIN address.s : address.s[i] = "a"} :
               address' = [address EXCEPT !.s = [i \in DOMAIN @ |-> IF i \in S THEN "A" ELSE @[i]]]
        /\ UNCHANGED pair
FwdNext == Encode \/ Fold
FwdSpec == FwdInit /\ [][FwdNext]_fwdVars

-----------------------------------------------------------------------------
(* A forwarded address leads back to the one sender it was made for, in    *)
(* lower case, however its letters were folded: escape and scan agree on   *)
(* every dot and dash (encode, decode).                                    *)
LeadsBack ==
    hop = "gateway" =>
        decode(address.s) = [ok |-> TRUE, local |-> lower(pair.local), domain |-> lower(pair.domain)]

(* What encode hands out is a local part a mail server takes: within the   *)
(* limit, no dot first, last or doubled (the dot it joins with included).  *)
LegalLocalPart ==
    address.ok => /\ Len(address.s) <= MAX_LOCALPART_LEN /\ address.s # <<>>
                  /\ Head(address.s) # "." /\ Last(address.s) # "." /\ ~Doubled(address.s)

(* A forwarded address is a legal local part, and leads back to the sender *)
(* it was made for and to nobody else (encode, decode).                    *)
AddressSound == LeadsBack /\ LegalLocalPart
=============================================================================
