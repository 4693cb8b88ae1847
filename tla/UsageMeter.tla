------------------------------ MODULE UsageMeter ------------------------------
(***************************************************************************)
(* The relay's usage meter (tunnel/server/metering.go) and its usage       *)
(* report to the control plane (tunnel/server/cpclient.go, ReportUsage).   *)
(*                                                                         *)
(* The data path calls addBytes and addSession; one call is one UNIT, an   *)
(* opaque amount of usage of one account, so that what is charged can be   *)
(* compared with what was metered without adding numbers up.  One          *)
(* goroutine flushes: it takes the failed batches, drains the pending      *)
(* deltas into a new batch under a fresh report id, posts every batch, and *)
(* requeues those whose post failed.  The network may lose, delay or       *)
(* deliver a post after its sender gave up on it, the control plane (not   *)
(* part of the repository) applies a report id at most once, and the       *)
(* process may crash and restart at any point.                             *)
(***************************************************************************)
EXTENDS Integers, Sequences, FiniteSets

CONSTANTS Accounts,         \* billed accounts
          Units,            \* the addBytes/addSession calls that may happen
          Owner,            \* Owner[u] is the account unit u is metered to
          MaxAccounts,      \* meter.maxAccounts
          MaxRetryBatches,  \* meter.maxRetryBatches
          MaxBoots          \* bound: process starts explored

ASSUME MeterAssumption ==
    /\ Owner \in [Units -> Accounts]
    /\ MaxAccounts \in Nat \ {0}
    /\ MaxRetryBatches \in Nat \ {0}
    /\ MaxBoots \in Nat \ {0}

VARIABLES
    metered,   \* units the data path has reported so far (history)
    lost,      \* units given up on: a full map, a full queue, a crash (history)
    pending,   \* meter.pending: recorded and not yet drained
    retry,     \* meter.retry: failed batches, oldest first
    boot,      \* meter.bootID of the running process
    seq,       \* meter.seq
    stopping,  \* meter.stop is closed
    pc,        \* where the flush goroutine is
    last,      \* the flush under way is the final one
    batches,   \* flushOnce's batches still to be posted, the head first
    failed,    \* flushOnce's failed
    net,       \* posts that may still reach the control plane
    applied,   \* the control plane's record of applied report ids
    charges    \* how many times the control plane has charged each unit

flushVars == <<pc, last, batches, failed>>
cpVars    == <<net, applied, charges>>
vars      == <<metered, lost, pending, retry, boot, seq, stopping, pc, last,
               batches, failed, net, applied, charges>>

-----------------------------------------------------------------------------
ReportId == [boot : Nat, seq : Nat]
pendingReport == [id : ReportId, items : SUBSET Units]

\* The elements of a sequence of reports, and the units they carry.
Reports(s) == {s[i] : i \in DOMAIN s}
UnitsOf(R) == UNION {r.items : r \in R}

Queued == Reports(retry) \cup Reports(batches) \cup Reports(failed)
Charged == {u \in Units : charges[u] > 0}

\* The accounts meter.pending has an entry for: addBytes ignores n <= 0, so an
\* entry exists exactly for the accounts with an undrained unit.
PendingAccounts == {Owner[u] : u \in pending}

\* newMeter and run: the meter of a process that has just started.
newMeter ==
    /\ metered = {} /\ lost = {}
    /\ pending = {} /\ retry = <<>> /\ boot = 1 /\ seq = 0 /\ stopping = FALSE
    /\ pc = "idle" /\ last = FALSE /\ batches = <<>> /\ failed = <<>>

Init ==
    /\ newMeter
    /\ net = {} /\ applied = {} /\ charges = [u \in Units |-> 0]

-----------------------------------------------------------------------------
(* The data path. *)

\* addBytes and addSession: a new account is not admitted to a full map, and
\* the unit is then dropped.  Traffic is never blocked, even after the last flush.
addBytes(u) ==
    /\ u \notin metered
    /\ metered' = metered \cup {u}
    /\ \/ /\ \/ Owner[u] \in PendingAccounts
             \/ Cardinality(PendingAccounts) < MaxAccounts
          /\ pending' = pending \cup {u}
          /\ UNCHANGED lost
       \/ /\ Owner[u] \notin PendingAccounts
          /\ Cardinality(PendingAccounts) >= MaxAccounts
          /\ lost' = lost \cup {u}
          /\ UNCHANGED pending
    /\ UNCHANGED <<retry, boot, seq, stopping, flushVars, cpVars>>

-----------------------------------------------------------------------------
(* The flush goroutine. *)

\* Mutant: a flush leaves the failed batches where they are.
takeRetry_Forgets == batches' = <<>> /\ UNCHANGED retry

\* takeRetry, the first step of flushOnce.
takeRetry == batches' = retry /\ retry' = <<>>

\* run: a tick, or the closed stop channel; select picks either when both are ready.
flushBegin ==
    /\ pc = "idle"
    /\ \/ last' = FALSE
       \/ stopping /\ last' = TRUE
    /\ takeRetry
    /\ pc' = "drain"
    /\ UNCHANGED <<metered, lost, pending, boot, seq, stopping, failed, cpVars>>

\* Where flushOnce returns to: the loop of run, or past its end.
AfterFlush == IF last THEN "stopped" ELSE "idle"

\* Mutant: report ids without the boot nonce.
nextReportID_NoBootNonce == [boot |-> 0, seq |-> seq + 1]

\* nextReportID: the id the next drained batch gets.
nextReportID == [boot |-> boot, seq |-> seq + 1]

\* drain and the new batch flushOnce makes of it, behind the retried ones.
drain ==
    /\ pc = "drain"
    /\ \/ /\ pending # {}
          /\ batches' = Append(batches, [id |-> nextReportID, items |-> pending])
          /\ pending' = {}
          /\ seq' = seq + 1
          /\ pc' = "post"
       \/ /\ pending = {}
          /\ pc' = IF batches = <<>> THEN AfterFlush ELSE "post"
          /\ UNCHANGED <<batches, pending, seq>>
    /\ UNCHANGED <<metered, lost, retry, boot, stopping, last, failed, cpVars>>

\* ReportUsage sends the next batch ...
ReportUsage ==
    /\ pc = "post"
    /\ batches # <<>>
    /\ net' = net \cup {Head(batches)}
    /\ pc' = "await"
    /\ UNCHANGED <<metered, lost, pending, retry, boot, seq, stopping, last,
                   batches, failed, applied, charges>>

\* ... and reads a 200, which the control plane sends for an id it has applied,
\* now or earlier.
ReportUsageOK ==
    /\ pc = "await"
    /\ Head(batches).id \in applied
    /\ batches' = Tail(batches)
    /\ pc' = "post"
    /\ UNCHANGED <<metered, lost, pending, retry, boot, seq, stopping, last,
                   failed, cpVars>>

\* Mutant: the earlier restore-into-pending path, which gave a retry a fresh id.
ReportUsageFails_Restores ==
    /\ pc = "await"
    /\ pending' = pending \cup Head(batches).items
    /\ batches' = Tail(batches)
    /\ pc' = "post"
    /\ UNCHANGED <<metered, lost, failed, retry, boot, seq, stopping, last, cpVars>>

\* ... or gets an error: not delivered, refused, or the 15 s passed, in which
\* case the post or its answer may be anywhere.  The batch keeps its id.
ReportUsageFails ==
    /\ pc = "await"
    /\ failed' = Append(failed, Head(batches))
    /\ batches' = Tail(batches)
    /\ pc' = "post"
    /\ UNCHANGED <<metered, lost, pending, retry, boot, seq, stopping, last, cpVars>>

\* The newest n elements of a sequence.
Newest(s, n) == IF Len(s) <= n THEN s ELSE SubSeq(s, Len(s) - n + 1, Len(s))

\* requeue's new retry queue: the oldest batches go when there are too many.
Requeued == Newest(retry \o failed, MaxRetryBatches)

\* requeue, the last step of flushOnce.
requeue ==
    /\ pc = "post" /\ batches = <<>>
    /\ retry' = Requeued
    /\ lost' = lost \cup (UnitsOf(Reports(retry \o failed)) \ UnitsOf(Reports(retry')))
    /\ failed' = <<>>
    /\ pc' = AfterFlush
    /\ UNCHANGED <<metered, pending, boot, seq, stopping, last, batches, cpVars>>

\* stopAndFlush closes meter.stop; the caller then waits for pc = "stopped".
stopAndFlush ==
    /\ ~stopping
    /\ stopping' = TRUE
    /\ UNCHANGED <<metered, lost, pending, retry, boot, seq, flushVars, cpVars>>

\* The process dies, or has stopped, and is started again: what was in memory is
\* gone, posts already sent are not.
Restart ==
    /\ boot < MaxBoots
    /\ boot' = boot + 1
    /\ lost' = lost \cup pending \cup UnitsOf(Queued)
    /\ pending' = {} /\ retry' = <<>> /\ seq' = 0 /\ stopping' = FALSE
    /\ pc' = "idle" /\ last' = FALSE /\ batches' = <<>> /\ failed' = <<>>
    /\ UNCHANGED <<metered, cpVars>>

-----------------------------------------------------------------------------
(* The network and the control plane, as ReportUsage relies on them. *)

\* A post arrives, once or again: an id is applied at most once.
cpReceive(b) ==
    /\ b \in net
    /\ b.id \notin applied
    /\ applied' = applied \cup {b.id}
    /\ charges' = [u \in Units |-> IF u \in b.items THEN charges[u] + 1
                                                    ELSE charges[u]]
    /\ UNCHANGED <<metered, lost, pending, retry, boot, seq, stopping, flushVars, net>>

\* No copy of a post is in transit any more.
netDrop(b) ==
    /\ b \in net
    /\ net' = net \ {b}
    /\ UNCHANGED <<metered, lost, pending, retry, boot, seq, stopping, flushVars,
                   applied, charges>>

-----------------------------------------------------------------------------
flushStep == \/ flushBegin \/ drain \/ ReportUsage \/ ReportUsageOK
             \/ ReportUsageFails \/ requeue

Next ==
    \/ \E u \in Units : addBytes(u)
    \/ flushBegin
    \/ drain
    \/ ReportUsage
    \/ ReportUsageOK
    \/ ReportUsageFails
    \/ requeue
    \/ stopAndFlush
    \/ Restart
    \/ \E b \in net : cpReceive(b) \/ netDrop(b)

Spec == Init /\ [][Next]_vars

\* The flush goroutine runs: the ticker fires, and a post ends within its timeout.
\* A unit that is posted for ever is neither refused nor cut off for ever.
Fairness ==
    /\ WF_vars(flushStep)
    /\ \A u \in Units :
          /\ SF_vars(\E b \in net : u \in b.items /\ cpReceive(b))
          /\ SF_vars(ReportUsageOK /\ u \in Head(batches).items)

FairSpec == Spec /\ Fairness

-----------------------------------------------------------------------------
(* Properties. *)

\* Every variable has its type, the id counters stay below the next id, and
\* requeue keeps the retry queue within maxRetryBatches.
TypeOK ==
    /\ metered \subseteq Units /\ lost \subseteq Units /\ pending \subseteq Units
    /\ retry \in Seq(pendingReport) /\ Len(retry) <= MaxRetryBatches
    /\ batches \in Seq(pendingReport) /\ failed \in Seq(pendingReport)
    /\ boot \in Nat /\ seq \in Nat
    /\ stopping \in BOOLEAN /\ last \in BOOLEAN
    /\ pc \in {"idle", "drain", "post", "await", "stopped"}
    /\ pc = "await" => batches # <<>>
    /\ net \subseteq pendingReport /\ applied \subseteq ReportId
    /\ charges \in [Units -> Nat]

\* flushOnce "never double-counts": however posts and answers are lost, delayed
\* or repeated, and wherever the process crashes, no usage is charged twice.
NoDoubleCharge == \A u \in Units : charges[u] <= 1

\* Metered usage never disappears silently: it is on the meter, charged, or was
\* given up at a limit or in a crash.  A batch the control plane dedups against a
\* different batch would break this (newBootID's reason to exist).
NothingVanishes == metered \subseteq pending \cup UnitsOf(Queued) \cup Charged \cup lost

\* Usage on the meter is charged in the end, unless the process stops or it is
\* given up at a limit: a failed batch is retried until it is applied.
EventuallyCharged ==
    \A u \in Units :
        u \in pending \cup UnitsOf(Queued)
            ~> (u \in Charged \cup lost \/ pc = "stopped")

\* What the meter and the control plane promise together.
Ledger == INSTANCE BillingLedger

\* The meter with its retries, restarts and network implements the ledger.
ImplementsLedger == Ledger!Spec

(* Usage is charged at most once and is always accounted for, over         *)
(* failing, late and repeated posts, full queues and crashes               *)
(* (metering.go).                                                          *)
MeterSafe == TypeOK /\ NoDoubleCharge /\ NothingVanishes
=============================================================================
