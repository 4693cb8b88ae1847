----------------------------- MODULE GatewayBoot -----------------------------
(***************************************************************************)
(* The gateway daemon from its command line to its exit (main.rs,          *)
(* personal.rs, directory.rs): the configuration is read from a file or    *)
(* from the environment, the recipients, TLS and the legacy surfaces are   *)
(* built one after the other, each able to fail the start, the accept      *)
(* loops run until a signal, and the process joins them and ends.          *)
(*                                                                         *)
(* Files and sockets are the environment: what a file holds is chosen each *)
(* time it is read, and a read or a bind may fail.                         *)
(***************************************************************************)
EXTENDS Naturals, Sequences, FiniteSets

CONSTANTS Lines,      \* the settings a config may hold: [key, raw]
          Lower,      \* to_ascii_lowercase of each name
          CredFiles,  \* contents of imap_credentials, sequences of lines
          DirFiles    \* contents of the recipient directory

VARIABLES stage, cmd,
          cfg,        \* PersonalConfig
          recipients, \* the addresses of the directory
          tls,        \* whether a TLS configuration was built
          listening,  \* bound listeners, with the accounts each serves
          running,    \* the accept loops that have not returned
          handlers, shutdown, broken, code

bootVars == <<stage, cmd, cfg, recipients, tls, listening, running,
              handlers, shutdown, broken, code>>

Legacy == {"imap", "pop3", "submission"}
Enable == [imap |-> "imap_enable", pop3 |-> "pop3_enable", submission |-> "submission_enable"]

-----------------------------------------------------------------------------
(* The keys of the configuration by the way their values are read.         *)
Flags == {"dkim_enforce", "spf_enforce", "dmarc_enforce",
          "imap_enable", "pop3_enable", "submission_enable"}
OptionalText == {"directory", "mesh_endpoint", "tls_cert", "tls_key", "imap_credentials",
                 "imap_maildir", "submission_spool", "submission_native_domains"}
Choices == {"authz_mode", "gateway_mode", "imap_tls", "pop3_tls", "submission_tls",
            "dns_server", "quota_messages", "quota_bytes"}
PlainText == {"domain", "listen", "selector", "imap_listen", "pop3_listen", "submission_listen"}
Keys == Flags \cup OptionalText \cup Choices \cup PlainText

(* The defaults: every surface off, nothing enforced, one operator.        *)
Default == [k \in Keys |-> CASE k \in Flags -> "false"
                             [] k \in OptionalText -> "unset"
                             [] k = "gateway_mode" -> "private"
                             [] OTHER -> "default"]

parse_bool(v) == CASE v \in {"true", "1", "yes", "on"} -> "true"
                   [] v \in {"false", "0", "no", "off"} -> "false"
                   [] OTHER -> "bad"
env_flag(v) == IF v \in {"1", "true", "yes"} THEN "true" ELSE "false"
non_empty(v) == IF v = "" THEN "unset" ELSE v

(* What PersonalConfig::set makes of a value: "bad" is a BadValue error.   *)
Read(k, v) == CASE k \in Flags -> parse_bool(v)
                [] k \in OptionalText -> non_empty(v)
                [] k \in Choices -> IF v = "junk" THEN "bad" ELSE v
                [] OTHER -> v

(* What from_env makes of it: a value it cannot read leaves the default.   *)
ReadEnv(k, v) == CASE k \in Flags -> env_flag(v)
                   [] k \in Choices /\ v = "junk" -> Default[k]
                   [] OTHER -> Read(k, v)

-----------------------------------------------------------------------------
BootInit == /\ stage = "main" /\ cmd = "none" /\ cfg = Default /\ recipients = {}
            /\ tls = FALSE /\ listening = <<>> /\ running = {}
            /\ handlers = FALSE /\ shutdown = FALSE /\ broken = FALSE /\ code = 0

(* The process ends: its sockets close and what it had read is gone.       *)
Ends(s, c) == /\ stage' = s /\ code' = c /\ listening' = <<>> /\ running' = {}
              /\ cfg' = Default /\ recipients' = {} /\ tls' = FALSE
              /\ UNCHANGED <<cmd, handlers, shutdown, broken>>
Fail(c) == Ends("failed", c)

Goto(s) == stage' = s /\ UNCHANGED <<cmd, cfg, handlers, shutdown, broken, code, running>>

(* main: `personal` without a file name is a usage error.                  *)
main == /\ stage = "main"
        /\ \/ Fail(2)
           \/ \E c \in {"personal", "run", "public"} :
                /\ cmd' = c /\ stage' = IF c = "public" THEN "public" ELSE "config"
                /\ UNCHANGED <<cfg, recipients, tls, listening, running, handlers,
                               shutdown, broken, code>>

(* PersonalConfig::parse, line by line; a later line wins.  A line without *)
(* '=', an unknown key and an unreadable value each refuse the whole file. *)
parse_line == /\ stage = "config" /\ cmd = "personal"
              /\ \E l \in Lines :
                   IF l.key \notin Keys \/ Read(l.key, l.raw) = "bad" THEN Fail(1)
                   ELSE /\ cfg' = [cfg EXCEPT ![l.key] = Read(l.key, l.raw)]
                        /\ UNCHANGED <<stage, cmd, recipients, tls, listening, running,
                                       handlers, shutdown, broken, code>>

from_env == /\ stage = "config" /\ cmd = "run"
            /\ \E l \in {x \in Lines : x.key \in Keys} :
                 cfg' = [cfg EXCEPT ![l.key] = ReadEnv(l.key, l.raw)]
            /\ UNCHANGED <<stage, cmd, recipients, tls, listening, running, handlers,
                           shutdown, broken, code>>

(* serve: the signal handlers come first.                                  *)
serve == /\ stage = "config"
         /\ stage' = "directory" /\ handlers' = TRUE
         /\ UNCHANGED <<cmd, cfg, recipients, tls, listening, running, shutdown, broken, code>>

(* InMemoryDirectory::parse: three fields, an '@', and two base64 keys.    *)
DirLineOk(l) == l.fields = 3 /\ l.at /\ l.keys
Emails(f) == {Lower[f[i].email] : i \in DOMAIN f}

load_directory ==
    /\ stage = "directory"
    /\ \/ /\ cfg["directory"] = "unset" /\ Goto("mesh")
          /\ recipients' = {} /\ UNCHANGED <<tls, listening>>
       \/ /\ cfg["directory"] # "unset"
          /\ \/ Fail(1)
             \/ \E f \in DirFiles :
                  IF \A i \in DOMAIN f : DirLineOk(f[i])
                  THEN Goto("mesh") /\ recipients' = Emails(f) /\ UNCHANGED <<tls, listening>>
                  ELSE Fail(1)

build_mesh == /\ stage = "mesh"
              /\ \/ Goto("tls") /\ UNCHANGED <<recipients, tls, listening>>
                 \/ cfg["mesh_endpoint"] # "unset" /\ Fail(1)

(* build_tls: both files or neither; half a pair refuses to start.         *)
build_tls ==
    /\ stage = "tls"
    /\ \/ /\ cfg["tls_cert"] # "unset" /\ cfg["tls_key"] # "unset"
          /\ \/ Fail(1)
             \/ Goto("imap") /\ tls' = TRUE /\ UNCHANGED <<recipients, listening>>
       \/ /\ cfg["tls_cert"] = "unset" /\ cfg["tls_key"] = "unset"
          /\ Goto("imap") /\ UNCHANGED <<recipients, tls, listening>>
       \/ /\ (cfg["tls_cert"] = "unset") # (cfg["tls_key"] = "unset")
          /\ Fail(1)

-----------------------------------------------------------------------------
(* load_legacy_credentials: a user, a password and an optional identity    *)
(* key; without one the user must be in the directory.                     *)
CredLineOk(l) == \/ l.fields = 2 /\ Lower[l.user] \in recipients
                 \/ l.fields = 3 /\ l.key
LegacyUsers(f) == {Lower[f[i].user] : i \in DOMAIN f}
Credentials == IF cfg["imap_credentials"] = "unset" THEN {<<>>} ELSE CredFiles

(* enforce_gateway_mode, over account names in lower case.                 *)
ModeAllows_Any(a) == cfg["gateway_mode"] = "private" => Cardinality(a) <= 2
ModeAllows(a) == CASE cfg["gateway_mode"] = "private" -> Cardinality(a) <= 1
                   [] cfg["gateway_mode"] = "registered" -> a \subseteq recipients
                   [] OTHER -> TRUE

(* build_imap, build_pop3, build_submission: off, or TLS, credentials, the *)
(* mode, what the surface serves from (a maildir that can be read, a spool *)
(* that is a directory), and a socket.                                     *)
HasStore(s) == s = "submission" => cfg["submission_spool"] # "unset"

Bound(s, a) == [x \in DOMAIN listening \cup {s} |-> IF x = s THEN a ELSE listening[x]]

build(s, next) ==
    \/ /\ cfg[Enable[s]] = "false"
       /\ Goto(next) /\ UNCHANGED <<recipients, tls, listening>>
    \/ /\ cfg[Enable[s]] = "true"
       /\ \/ Fail(1)                          \* a file, the maildir, the spool or the bind
          \/ \E f \in Credentials :
               /\ tls
               /\ \A i \in DOMAIN f : CredLineOk(f[i])
               /\ ModeAllows(LegacyUsers(f))
               /\ HasStore(s)
               /\ Goto(next) /\ listening' = Bound(s, LegacyUsers(f))
               /\ UNCHANGED <<recipients, tls>>

build_imap == stage = "imap" /\ build("imap", "pop3")
build_pop3 == stage = "pop3" /\ build("pop3", "submission")
build_submission == stage = "submission" /\ build("submission", "mx")

(* The MX listener, last, and the accept loops of everything that is bound.*)
Loops_NoPop3 == (DOMAIN listening \ {"pop3"}) \cup {"mx"}
Loops == DOMAIN listening \cup {"mx"}
bind_mx == /\ stage = "mx"
           /\ \/ Fail(1)
              \/ /\ stage' = "serving" /\ listening' = Bound("mx", {})
                 /\ running' = Loops
                 /\ UNCHANGED <<cmd, cfg, recipients, tls, handlers, shutdown, broken, code>>

(* serve_public: the admin server alone; its handlers come last.           *)
serve_public ==
    /\ stage = "public"
    /\ \/ Fail(1)
       \/ /\ stage' = "serving" /\ tls' = TRUE /\ listening' = Bound("admin", {})
          /\ running' = {"admin"} /\ handlers' = TRUE
          /\ UNCHANGED <<cmd, cfg, recipients, shutdown, broken, code>>

-----------------------------------------------------------------------------
(* A signal: before the handlers are there it kills the process.           *)
handle_signal ==
    /\ stage \notin {"stopped", "failed"} /\ ~shutdown
    /\ \/ /\ handlers /\ shutdown' = TRUE
          /\ UNCHANGED <<stage, cmd, cfg, recipients, tls, listening, running,
                         handlers, broken, code>>
       \/ ~handlers /\ Fail(143)

(* An accept loop looks at the flag between two connections; it may also   *)
(* fail at once, which nobody sees until the others have returned.         *)
Sees_Mx(s) == shutdown /\ s \in {"mx", "admin"}
Sees(s) == shutdown
serve_until(s) == /\ s \in running /\ running' = running \ {s}
                  /\ \/ Sees(s) /\ UNCHANGED broken
                     \/ ~shutdown /\ ~broken /\ broken' = TRUE
                  /\ UNCHANGED <<stage, cmd, cfg, recipients, tls, listening, handlers,
                                 shutdown, code>>

join == /\ stage = "serving" /\ running = {}
        /\ Ends("stopped", IF broken THEN 1 ELSE 0)

Start == \/ main \/ serve \/ load_directory \/ build_mesh \/ build_tls \/ build_imap
         \/ build_pop3 \/ build_submission \/ bind_mx \/ serve_public \/ join
BootNext == \/ Start \/ parse_line \/ from_env \/ handle_signal
            \/ \E s \in Legacy \cup {"mx", "admin"} : serve_until(s)

BootSpec == BootInit /\ [][BootNext]_bootVars

(* The steps of the main thread and the accept loops are always taken: a   *)
(* read, a bind and a non-blocking accept return.                          *)
BootFairness == WF_bootVars(Start) /\ \A s \in Legacy \cup {"mx", "admin"} : WF_bootVars(serve_until(s))

-----------------------------------------------------------------------------
(* Type correctness of the daemon.                                         *)
BootTypeOK ==
    /\ stage \in {"main", "config", "directory", "mesh", "tls", "imap", "pop3", "submission",
                  "mx", "public", "serving", "stopped", "failed"}
    /\ cmd \in {"none", "personal", "run", "public"}
    /\ DOMAIN cfg = Keys
    /\ \A k \in Flags : cfg[k] \in {"true", "false"}
    /\ DOMAIN listening \subseteq Legacy \cup {"mx", "admin"}
    /\ running \subseteq DOMAIN listening
    /\ tls \in BOOLEAN /\ shutdown \in BOOLEAN /\ broken \in BOOLEAN /\ handlers \in BOOLEAN

(* A surface that takes app-passwords listens only when it was asked for,  *)
(* with TLS, for accounts the operating mode serves, and submission with a *)
(* spool to hand mail to (personal.rs, build_imap to build_submission).    *)
SurfacesSound ==
    \A s \in DOMAIN listening \cap Legacy :
        /\ cfg[Enable[s]] = "true" /\ tls
        /\ cfg["gateway_mode"] = "private" => Cardinality(listening[s]) <= 1
        /\ cfg["gateway_mode"] = "registered" => listening[s] \subseteq recipients
        /\ s = "submission" => cfg["submission_spool"] # "unset"

(* The daemon starts whole or not at all: while no loop has failed, what   *)
(* it serves is what the configuration enables (PersonalConfig::serve).    *)
StartsWhole ==
    stage = "serving" /\ cmd # "public" /\ ~broken /\ ~shutdown =>
        running = {s \in Legacy : cfg[Enable[s]] = "true"} \cup {"mx"}

(* A signal taken by the handler ends the process, whatever stage it       *)
(* arrives at and whichever surfaces run (main.rs handle_signal).          *)
SignalStops == shutdown ~> stage \in {"stopped", "failed"}

(* The daemon serves what was configured and is permitted, all of it, or   *)
(* nothing (main.rs, personal.rs).                                         *)
ServesWhole == BootTypeOK /\ SurfacesSound /\ StartsWhole
=============================================================================
