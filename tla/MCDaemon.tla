----------------------------- MODULE MCDaemon -----------------------------
(***************************************************************************)
(* The gateway daemon.  Its start and end, and the sessions of its         *)
(* surfaces, share no state and are explored one at a time.  Sessions: one *)
(* client that sends anything, plaintext or not, pipelining; or two        *)
(* clients that each submit a message.  Start: every mix of the settings   *)
(* that decide something, with credential and directory files of up to two *)
(* lines.                                                                  *)
(***************************************************************************)
EXTENDS GatewayBoot, LegacyAccess

VARIABLE part
allVars == <<part, bootVars, accVars>>

MCInit == part \in {"boot", "sessions"} /\ BootInit /\ AccInit
MCNext == \/ part = "boot" /\ BootNext /\ UNCHANGED <<part, accVars>>
          \/ part = "sessions" /\ AccNext /\ UNCHANGED <<part, bootVars>>
MCSpec == MCInit /\ [][MCNext]_allVars /\ (part = "boot" => BootFairness)
                                       /\ (part = "sessions" => AccFairness)

MCLines == {[key |-> k, raw |-> "yes"] : k \in {"imap_enable", "pop3_enable"}}
    \cup {[key |-> "submission_enable", raw |-> v] : v \in {"on", "maybe"}}
    \cup {[key |-> k, raw |-> "path"] : k \in {"tls_cert", "tls_key", "directory",
                                              "imap_credentials", "submission_spool"}}
    \cup {[key |-> "gateway_mode", raw |-> v] : v \in {"registered", "public", "junk"}}
    \cup {[key |-> "mesh_endpoint", raw |-> ""], [key |-> "imap_port", raw |-> "1"]}
MCLower == [u \in {"ann", "Ann", "bob"} |-> IF u = "Ann" THEN "ann" ELSE u]
UpTo2(S) == {<<>>} \cup {<<x>> : x \in S} \cup {<<x, y>> : x, y \in S}
MCCredFiles == UpTo2([user : {"Ann", "bob"}, fields : {1, 2, 3}, key : BOOLEAN])
MCDirFiles == UpTo2([email : {"Ann"}, fields : {2, 3}, at : BOOLEAN, keys : BOOLEAN])

I(l, v) == [layer |-> l, verb |-> v, rcpts |-> {}]
Mail(l, r) == [layer |-> l, verb |-> "MAIL", rcpts |-> r]
hello == I("plain", "hello")
Both(v) == {I("plain", v), I("tls", v)}
Away == [surfaces |-> {}, ahead |-> 0, script |-> <<>>]
Anything == {hello, Mail("tls", {"n", "f"}), I("tls", "DATA"), I("tls", "."), I("tls", "QUIT")}
       \cup Both("STARTTLS") \cup Both("AUTH")
Eager == [surfaces |-> Surfaces, ahead |-> 2, script |-> [i \in 1..7 |-> Anything]]
Polite(s, r) ==
         [surfaces |-> s, ahead |-> 1,
          script |-> <<{I("plain", "STARTTLS")}, {hello}, {I("tls", "AUTH")}, {Mail("tls", r)},
                     {I("tls", "DATA")}, {I("tls", ".")}>>]
MCClients == {[c \in Conns |-> IF c = "c1" THEN Eager ELSE Away],
              [c \in Conns |-> IF c = "c1" THEN Polite({"smtp", "imap"}, {"n", "f"})
                                          ELSE Polite({"smtp", "imap"}, {"n"})]}
MCMaxConns == [s \in Surfaces |-> IF s = "smtp" THEN 2 ELSE 1]

(* A signal ends the process whatever it was doing, and no handler is held *)
(* for ever by its client (serve_until, the read timeouts).                *)
DaemonEnds == SignalStops /\ HandlersEnd
=============================================================================
