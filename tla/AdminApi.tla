------------------------------ MODULE AdminApi ------------------------------
(***************************************************************************)
(* pier-admin: the operator's control plane.  Requests run at the same     *)
(* time on the threads of the server; a handler holds one lock at a time,  *)
(* and each step here is what it does under one.  A request acts on the    *)
(* declared visibility (descriptor.rs), the signing key and its trail      *)
(* (keys.rs), the signed tariff (tariff.rs), the meter that the data plane *)
(* fills and the receipt log (billing.rs).  The quota is a record that is  *)
(* replaced whole and read by nobody, and is left out, like the kind and   *)
(* the policy of the descriptor.  Keys are numbered as they are generated. *)
(***************************************************************************)
EXTENDS Tariff, Sequences, SequencesExt

CONSTANTS Workers,         \* threads that serve requests
          Environments,    \* what the process may be started with
          Visibilities,    \* <<rank of the class, rank of the level>>, 0 is the most protective
          AdSchedules,     \* schedules put as tariffs
          Metered,         \* resource kinds
          Agendas,         \* bound: sets of routes, one of which is used in a behaviour
          MaxRotations,    \* bound: keys generated after the first
          MaxRecorded      \* bound: units recorded of a kind

ASSUME AdminAssumption == /\ IsFiniteSet(Workers) /\ IsFiniteSet(Metered)
                          /\ MaxRotations \in Nat /\ MaxRecorded \in Nat
                          /\ Visibilities \subseteq (0..2) \X (0..2)
                          /\ \A e \in Environments : {e.class, e.level} \subseteq (-2)..2

VARIABLES agenda,
          token,           \* AdminAuth: the configured token
          visibility, current, history, tariff, adMeter, log,
          apc, req, loc,   \* where a worker is, with its request and its locals
          response,        \* what it answered last
          turned, moved,   \* history: the key was rotated since the worker read it,
                           \* the visibility was set since the worker checked it
          recorded, lost   \* history: units metered, and taken for a bill that failed

adminVars == <<agenda, token, visibility, current, history, tariff, adMeter, log, apc, req, loc,
               response, turned, moved, recorded, lost>>

NoToken == "none"
Unset == [by |-> -1]
NoRequest == [op |-> "none"]
NoLocals == [key |-> -1, signed |-> Unset, usage |-> <<>>]
NoResponse == [status |-> 0]
NoUnits == [k \in Metered |-> 0]

-----------------------------------------------------------------------------
(* Starting.  A blank token configures none.                               *)
with_token(t) == IF t \in {"absent", "blank"} THEN NoToken ELSE t

typical_visibility == [relay |-> <<0, 0>>, media_relay |-> <<1, 0>>, gateway |-> <<2, 2>>]

Absent == -1   \* a rank that is not set, or cannot be parsed
Bad == -2
(* from_env: both halves of the visibility or neither; without them the    *)
(* kind's typical one, or the least protective.                            *)
from_env(e) ==
    LET halves == {e.class, e.level}
        default == IF e.kind \in DOMAIN typical_visibility THEN typical_visibility[e.kind] ELSE <<2, 2>>
    IN  [ok |-> e.kind # "bad" /\ e.seed # "bad" /\ Bad \notin halves
                 /\ (halves = {Absent} \/ Absent \notin halves),
         visibility |-> IF halves = {Absent} THEN default ELSE <<e.class, e.level>>]

AdminInit ==
    /\ \E e \in Environments : /\ from_env(e).ok
                               /\ visibility = from_env(e).visibility
                               /\ token = with_token(e.token)
    /\ agenda \in Agendas
    /\ current = 0 /\ history = <<>> /\ tariff = Unset
    /\ adMeter = NoUnits /\ log = <<>>
    /\ apc = [w \in Workers |-> "idle"] /\ req = [w \in Workers |-> NoRequest]
    /\ loc = [w \in Workers |-> NoLocals] /\ response = [w \in Workers |-> NoResponse]
    /\ turned = [w \in Workers |-> FALSE] /\ moved = [w \in Workers |-> FALSE]
    /\ recorded = NoUnits /\ lost = NoUnits

-----------------------------------------------------------------------------
(* A worker goes on, or answers.                                           *)
on(w, to, l) == /\ apc' = [apc EXCEPT ![w] = to] /\ loc' = [loc EXCEPT ![w] = l]
                /\ UNCHANGED <<req, response>>
respond(w, r) == /\ apc' = [apc EXCEPT ![w] = "idle"] /\ loc' = [loc EXCEPT ![w] = NoLocals]
                 /\ req' = [req EXCEPT ![w] = NoRequest]
                 /\ response' = [response EXCEPT ![w] = r]
Status(n) == [status |-> n]

authorize(presented) == token # NoToken /\ presented = token

Entry == [put_descriptor |-> "check", get_descriptor |-> "build", rotate_keys |-> "swap",
          put_tariff |-> "sign_tariff", run_billing |-> "read_tariff"]
Requests == [op : {"put_descriptor"}, visibility : Visibilities, confirm_downgrade : BOOLEAN]
       \cup [op : {"get_descriptor", "rotate_keys", "run_billing"}]
       \cup [op : {"put_tariff"}, schedule : AdSchedules, well_formed : BOOLEAN]

require_auth(w, r, presented) ==
    /\ apc[w] = "idle" /\ r.op \in agenda
    /\ r.op = "rotate_keys" => current < MaxRotations
    /\ IF authorize(presented)
       THEN /\ apc' = [apc EXCEPT ![w] = Entry[r.op]] /\ req' = [req EXCEPT ![w] = r]
            /\ response' = [response EXCEPT ![w] = NoResponse] /\ UNCHANGED loc
       ELSE respond(w, Status(401))
    /\ turned' = [turned EXCEPT ![w] = FALSE] /\ moved' = [moved EXCEPT ![w] = FALSE]
    /\ UNCHANGED <<agenda, token, visibility, current, history, tariff, adMeter, log, recorded, lost>>

-----------------------------------------------------------------------------
(* put_descriptor: the check against what is declared, then the new one.   *)
is_downgrade(from, to) == to[1] > from[1] \/ (to[1] = from[1] /\ to[2] > from[2])

check(w) ==
    /\ apc[w] = "check"
    /\ IF is_downgrade(visibility, req[w].visibility) /\ ~req[w].confirm_downgrade
       THEN respond(w, Status(409)) ELSE on(w, "set", NoLocals)
    /\ moved' = [moved EXCEPT ![w] = FALSE]
    /\ UNCHANGED <<agenda, token, visibility, current, history, tariff, adMeter, log, turned, recorded, lost>>

set(w) ==
    /\ apc[w] = "set"
    /\ visibility' = req[w].visibility
    /\ moved' = [u \in Workers |-> moved[u] \/ u # w]
    /\ on(w, "build", NoLocals)
    /\ UNCHANGED <<agenda, token, current, history, tariff, adMeter, log, turned, recorded, lost>>

(* sign_descriptor: the identity is read, then the descriptor signed with  *)
(* the key there is by then.  It also reads the declared visibility and    *)
(* the tariff, under their own locks, which no property looks at.          *)
build(w) ==
    /\ apc[w] = "build"
    /\ on(w, "sign", [NoLocals EXCEPT !.key = current])
    /\ turned' = [turned EXCEPT ![w] = FALSE]
    /\ UNCHANGED <<agenda, token, visibility, current, history, tariff, adMeter, log, moved, recorded, lost>>

sign(w) ==
    /\ apc[w] = "sign"
    /\ respond(w, [status |-> 200, identity |-> loc[w].key, signer |-> current])
    /\ UNCHANGED <<agenda, token, visibility, current, history, tariff, adMeter, log, turned, moved, recorded, lost>>

(* rotate: the key is replaced under one lock, the old one kept under      *)
(* another; rotate_keys then signs the descriptor again.                   *)
swap(w) ==
    /\ apc[w] = "swap" /\ current < MaxRotations
    /\ current' = current + 1
    /\ turned' = [u \in Workers |-> TRUE]
    /\ on(w, "push", [NoLocals EXCEPT !.key = current])
    /\ UNCHANGED <<agenda, token, visibility, history, tariff, adMeter, log, moved, recorded, lost>>

push_history(w) ==
    /\ apc[w] = "push"
    /\ history' = Append(history, loc[w].key)
    /\ on(w, "build", NoLocals)
    /\ UNCHANGED <<agenda, token, visibility, current, tariff, adMeter, log, turned, moved, recorded, lost>>

-----------------------------------------------------------------------------
(* put_tariff: a schedule of known kinds and without a token (well formed) *)
(* is signed, then stored.                                                 *)
sign_tariff(w) ==
    /\ apc[w] = "sign_tariff"
    /\ IF ~req[w].well_formed THEN respond(w, Status(400))
       ELSE on(w, "write_tariff",
               [NoLocals EXCEPT !.signed = [by |-> current, schedule |-> req[w].schedule]])
    /\ UNCHANGED <<agenda, token, visibility, current, history, tariff, adMeter, log, turned, moved, recorded, lost>>

write_tariff(w) ==
    /\ apc[w] = "write_tariff"
    /\ tariff' = loc[w].signed
    /\ respond(w, Status(200))
    /\ UNCHANGED <<agenda, token, visibility, current, history, adMeter, log, turned, moved, recorded, lost>>

(* run_billing: the tariff, the meter (taken and cleared in one step), the *)
(* bill, and the receipts under the key and the log held together.         *)
read_tariff(w) ==
    /\ apc[w] = "read_tariff"
    /\ IF tariff = Unset THEN respond(w, Status(409))
       ELSE on(w, "take_usage", [NoLocals EXCEPT !.signed = tariff])
    /\ UNCHANGED <<agenda, token, visibility, current, history, tariff, adMeter, log, turned, moved, recorded, lost>>

(* The kinds of a meter that have an entry.                                *)
used_kinds(m) == [k \in {j \in Metered : m[j] > 0} |-> m[k]]
BillOf(w, m) == evaluate(loc[w].signed.schedule, used_kinds(m))

take_usage_Kept(w) ==
    /\ apc[w] = "take_usage"
    /\ IF BillOf(w, adMeter).ok
       THEN /\ on(w, "issue", [loc[w] EXCEPT !.usage = adMeter, !.key = current]) /\ UNCHANGED lost
       ELSE /\ respond(w, Status(400))
            /\ lost' = [k \in Metered |-> lost[k] + adMeter[k]]
    /\ UNCHANGED <<agenda, token, visibility, current, history, tariff, adMeter, log, turned, moved, recorded>>
take_usage(w) ==
    /\ apc[w] = "take_usage"
    /\ adMeter' = NoUnits
    /\ IF BillOf(w, adMeter).ok
       THEN /\ on(w, "issue", [loc[w] EXCEPT !.usage = adMeter, !.key = current]) /\ UNCHANGED lost
       ELSE /\ respond(w, Status(400))
            /\ lost' = [k \in Metered |-> lost[k] + adMeter[k]]
    /\ UNCHANGED <<agenda, token, visibility, current, history, tariff, log, turned, moved, recorded>>

ReceiptsFor(w, signer) ==
    LET items == SetToSeq(BillOf(w, loc[w].usage).items)
    IN  [i \in DOMAIN items |-> [kind |-> items[i].kind, units |-> items[i].metered,
                                 sequence |-> Len(log) + i - 1, by |-> signer]]
issue_KeyHeld(w) ==
    /\ apc[w] = "issue"
    /\ log' = log \o ReceiptsFor(w, loc[w].key)
    /\ respond(w, Status(200))
    /\ UNCHANGED <<agenda, token, visibility, current, history, tariff, adMeter, turned, moved, recorded, lost>>
issue(w) ==
    /\ apc[w] = "issue"
    /\ log' = log \o ReceiptsFor(w, current)
    /\ respond(w, Status(200))
    /\ UNCHANGED <<agenda, token, visibility, current, history, tariff, adMeter, turned, moved, recorded, lost>>

(* The data plane records usage on the shared meter.                       *)
dataPlane(k) ==
    /\ recorded[k] < MaxRecorded /\ "run_billing" \in agenda
    /\ adMeter' = [adMeter EXCEPT ![k] = @ + 1]
    /\ recorded' = [recorded EXCEPT ![k] = @ + 1]
    /\ UNCHANGED <<agenda, token, visibility, current, history, tariff, log, apc, req, loc, response,
                   turned, moved, lost>>

AdminNext ==
    \/ \E w \in Workers : \/ \E r \in Requests, p \in {NoToken, "secret"} : require_auth(w, r, p)
                          \/ check(w) \/ set(w) \/ build(w) \/ sign(w) \/ swap(w) \/ push_history(w)
                          \/ sign_tariff(w) \/ write_tariff(w)
                          \/ read_tariff(w) \/ take_usage(w) \/ issue(w)
    \/ \E k \in Metered : dataPlane(k)

-----------------------------------------------------------------------------
(* Types; without a configured token nothing of the state has changed.     *)
AdminTypeOK ==
    /\ visibility \in (0..2) \X (0..2) /\ current \in 0..MaxRotations
    /\ tariff.by \in -1..current
    /\ \A w \in Workers : apc[w] # "idle" => req[w].op \in DOMAIN Entry
    /\ token = NoToken => current = 0 /\ tariff = Unset /\ log = <<>> /\ history = <<>>

(* The declared visibility gets weaker only by a request that says so, or  *)
(* by one that another request overtook after it was checked               *)
(* (put_descriptor, is_downgrade).                                         *)
NoSilentDowngrade ==
    [][\A w \in Workers :
          LET old == visibility  new == visibility'
          IN  set(w) /\ (new[1] > old[1] \/ (new[1] = old[1] /\ new[2] > old[2]))
                  => req[w].confirm_downgrade \/ moved[w]]_adminVars

(* A served descriptor verifies under the identity it names, unless the    *)
(* key was rotated between the two (sign_descriptor): a rotation before    *)
(* the request never shows.                                                *)
DescriptorVerifies ==
    \A w \in Workers : response[w].status = 200 /\ "signer" \in DOMAIN response[w]
                           => response[w].identity = response[w].signer \/ turned[w]

(* The trail of identities: over any number of rotations at once, every    *)
(* key that was replaced is in the history once, or in the hands of the    *)
(* rotation that is about to put it there (KeyState::rotate).              *)
TrailKept ==
    /\ \A k \in 0..(current - 1) :
           Cardinality({i \in DOMAIN history : history[i] = k})
             + Cardinality({w \in Workers : apc[w] = "push" /\ loc[w].key = k}) = 1
    /\ \A i \in DOMAIN history : history[i] < current

(* Billing runs of a payer at the same time bill no unit twice: what was   *)
(* recorded is on the meter, taken by one run, on one receipt, or was      *)
(* taken for a bill that failed (run_billing, Meter::reset).               *)
UsageAccounted ==
    \A k \in Metered :
        recorded[k] = adMeter[k] + lost[k]
          + SumFunction([i \in DOMAIN log |-> IF log[i].kind = k THEN log[i].units ELSE 0])
          + SumFunction([w \in Workers |-> IF apc[w] = "issue" THEN loc[w].usage[k] ELSE 0])

(* Receipts are numbered as they lie in the log, and one under a retired   *)
(* key never follows one under its successor: the key is held while the    *)
(* log is written (with_current around issue_for_bill).                    *)
LogInOrder ==
    /\ \A i \in DOMAIN log : log[i].sequence = i - 1
    /\ \A i, j \in DOMAIN log : i < j => log[i].by <= log[j].by

(* Requests interleaved between the locks of pier-admin keep the trail of  *)
(* keys, the receipts in order and every metered unit accounted for;       *)
(* descriptors verify and are not downgraded silently, but for the         *)
(* overlaps the two properties name.                                       *)
AdminSound == /\ [](AdminTypeOK /\ DescriptorVerifies /\ TrailKept /\ UsageAccounted /\ LogInOrder)
              /\ NoSilentDowngrade
=============================================================================
