---------------------------- MODULE ControlProofs ----------------------------
(***************************************************************************)
(* What a relay believes and tells about its accounts (the usage meter,    *)
(* the entitlement gate, the token store), and what the gateway daemon     *)
(* serves.                                                                 *)
(***************************************************************************)
EXTENDS UsageMeter, EntitlementGate, CPTokenStore, GatewayBoot, LegacyAccess,
        FiniteSetTheorems, SequenceTheorems, TLAPS

-----------------------------------------------------------------------------
(***************************************************************************)
(* For every set of units, every limit and any number of restarts: no unit *)
(* of usage is charged twice, none disappears, and the meter implements    *)
(* the billing ledger.                                                     *)
(*                                                                         *)
(* None of the properties is inductive.  What carries them is that the     *)
(* reports that exist, in memory or on the network, have different ids and *)
(* share no unit, that their ids are not ahead of the id source, and that  *)
(* the units of a report are charged exactly when its id is applied.       *)
(***************************************************************************)

AllReports == Queued \cup net

\* No report, and no applied id, is ahead of the id source.
NotAhead(id) == id.boot < boot \/ (id.boot = boot /\ id.seq <= seq)
IdsNotAhead == /\ \A r \in AllReports : NotAhead(r.id)
               /\ \A i \in applied : NotAhead(i)

\* A unit is in one place: on the meter or in one report.
OnePlace == /\ \A r, q \in AllReports : r # q => r.id # q.id /\ r.items \cap q.items = {}
            /\ \A r \in AllReports : r.items \cap pending = {}

\* Only metered units travel, and the id of a report decides about its units.
ChargedById ==
    /\ pending \subseteq metered
    /\ \A u \in Units : u \in pending \/ u \notin metered => charges[u] = 0
    /\ \A r \in AllReports : /\ r.items \subseteq metered
                             /\ \A u \in r.items : charges[u] = 0 <=> r.id \notin applied

\* flushOnce starts with no batches of its own.
FlushLocals == /\ pc \in {"idle", "stopped"} => batches = <<>>
               /\ pc \in {"idle", "stopped", "drain"} => failed = <<>>

MeterInv == /\ TypeOK
            /\ FlushLocals
            /\ IdsNotAhead
            /\ OnePlace
            /\ ChargedById
            /\ NoDoubleCharge
            /\ NothingVanishes

-----------------------------------------------------------------------------
(* Reports of a sequence: what the sequence operators do to it. *)

\* The empty queue holds nothing.
LEMMA ReportsEmpty == Reports(<<>>) = {}
  BY DEF Reports

\* A queue of reports holds reports, and reports carry units.
LEMMA ReportsType ==
  ASSUME NEW s \in Seq(pendingReport)
  PROVE  Reports(s) \subseteq pendingReport /\ UnitsOf(Reports(s)) \subseteq Units
  <1>1. Reports(s) \subseteq pendingReport
    BY LenProperties DEF Reports
  <1>2. \A r \in pendingReport : r.items \subseteq Units
    BY DEF pendingReport
  <1> QED BY <1>1, <1>2 DEF UnitsOf

\* flushOnce's append adds one report.
LEMMA ReportsAppend ==
  ASSUME NEW s \in Seq(pendingReport), NEW r \in pendingReport
  PROVE  /\ Append(s, r) \in Seq(pendingReport)
         /\ Reports(Append(s, r)) = Reports(s) \cup {r}
  <1>1. /\ Append(s, r) \in Seq(pendingReport)
        /\ Len(Append(s, r)) = Len(s) + 1
        /\ \A i \in 1 .. Len(s) : Append(s, r)[i] = s[i]
        /\ Append(s, r)[Len(s) + 1] = r
    BY AppendProperties
  <1>2. DOMAIN s = 1 .. Len(s) /\ DOMAIN Append(s, r) = 1 .. Len(s) + 1 /\ Len(s) \in Nat
    BY <1>1, LenProperties
  <1> QED BY <1>1, <1>2 DEF Reports

\* Taking a batch off the front splits the reports.
LEMMA ReportsTail ==
  ASSUME NEW s \in Seq(pendingReport), s # <<>>
  PROVE  /\ Tail(s) \in Seq(pendingReport)
         /\ Head(s) \in pendingReport
         /\ Reports(s) = {Head(s)} \cup Reports(Tail(s))
  <1>1. /\ Tail(s) \in Seq(pendingReport) /\ Head(s) \in pendingReport
        /\ Head(s) = s[1] /\ Len(s) \in Nat /\ Len(s) > 0
        /\ Len(Tail(s)) = Len(s) - 1
        /\ \A i \in 1 .. Len(Tail(s)) : Tail(s)[i] = s[i + 1]
    BY HeadTailProperties, EmptySeq, LenProperties
  <1>2. DOMAIN s = 1 .. Len(s) /\ DOMAIN Tail(s) = 1 .. Len(s) - 1
    BY <1>1, LenProperties
  <1>3. \A i \in 2 .. Len(s) : i - 1 \in 1 .. Len(s) - 1 /\ s[i] = Tail(s)[i - 1]
    BY <1>1
  <1>4. ASSUME NEW x \in Reports(s) PROVE x \in {Head(s)} \cup Reports(Tail(s))
    <2>1. PICK i \in 1 .. Len(s) : x = s[i]
      BY <1>2, <1>4 DEF Reports
    <2>2. CASE i = 1
      BY <2>1, <2>2, <1>1
    <2>3. CASE i # 1
      <3>1. i \in 2 .. Len(s)
        BY <2>1, <2>3, <1>1
      <3> QED BY <3>1, <2>1, <1>2, <1>3 DEF Reports
    <2> QED BY <2>2, <2>3
  <1>5. ASSUME NEW x \in {Head(s)} \cup Reports(Tail(s)) PROVE x \in Reports(s)
    BY <1>5, <1>1, <1>2 DEF Reports
  <1> QED BY <1>1, <1>4, <1>5

\* A concatenation holds the reports of both.
LEMMA ReportsConcat ==
  ASSUME NEW s \in Seq(pendingReport), NEW t \in Seq(pendingReport)
  PROVE  /\ s \o t \in Seq(pendingReport)
         /\ Reports(s \o t) = Reports(s) \cup Reports(t)
  <1>1. /\ s \o t \in Seq(pendingReport)
        /\ Len(s \o t) = Len(s) + Len(t)
        /\ \A i \in 1 .. Len(s) + Len(t) :
              (s \o t)[i] = IF i <= Len(s) THEN s[i] ELSE t[i - Len(s)]
    BY ConcatProperties
  <1>2. /\ DOMAIN s = 1 .. Len(s) /\ DOMAIN t = 1 .. Len(t)
        /\ DOMAIN (s \o t) = 1 .. Len(s) + Len(t)
        /\ Len(s) \in Nat /\ Len(t) \in Nat
    BY <1>1, LenProperties
  <1>3. ASSUME NEW x \in Reports(t) PROVE x \in Reports(s \o t)
    <2>1. PICK i \in 1 .. Len(t) : x = t[i]
      BY <1>2, <1>3 DEF Reports
    <2>2. /\ Len(s) + i \in 1 .. Len(s) + Len(t)
          /\ ~(Len(s) + i <= Len(s)) /\ Len(s) + i - Len(s) = i
      BY <2>1, <1>2
    <2> QED BY <2>1, <2>2, <1>1, <1>2 DEF Reports
  <1>4. ASSUME NEW x \in Reports(s) PROVE x \in Reports(s \o t)
    <2>1. PICK i \in 1 .. Len(s) : x = s[i]
      BY <1>2, <1>4 DEF Reports
    <2>2. i \in 1 .. Len(s) + Len(t) /\ i <= Len(s)
      BY <2>1, <1>2
    <2> QED BY <2>1, <2>2, <1>1, <1>2 DEF Reports
  <1>5. ASSUME NEW x \in Reports(s \o t) PROVE x \in Reports(s) \cup Reports(t)
    <2>1. PICK i \in 1 .. Len(s) + Len(t) : x = (s \o t)[i]
      BY <1>2, <1>5 DEF Reports
    <2>2. CASE i <= Len(s)
      <3>1. i \in 1 .. Len(s) /\ x = s[i]
        BY <2>1, <2>2, <1>1, <1>2
      <3> QED BY <3>1, <1>2 DEF Reports
    <2>3. CASE ~(i <= Len(s))
      <3>1. i - Len(s) \in 1 .. Len(t) /\ x = t[i - Len(s)]
        BY <2>1, <2>3, <1>1, <1>2
      <3> QED BY <3>1, <1>2 DEF Reports
    <2> QED BY <2>2, <2>3
  <1> QED BY <1>1, <1>3, <1>4, <1>5

\* requeue's truncation keeps at most n reports and invents none.
LEMMA ReportsNewest ==
  ASSUME NEW s \in Seq(pendingReport), NEW n \in Nat \ {0}
  PROVE  /\ Newest(s, n) \in Seq(pendingReport)
         /\ Len(Newest(s, n)) <= n
         /\ Reports(Newest(s, n)) \subseteq Reports(s)
  <1>1. Len(s) \in Nat /\ DOMAIN s = 1 .. Len(s)
    BY LenProperties
  <1>2. CASE Len(s) <= n
    BY <1>1, <1>2 DEF Newest
  <1>3. CASE ~(Len(s) <= n)
    <2> DEFINE a == Len(s) - n + 1
               t == SubSeq(s, a, Len(s))
    <2>1. a \in 1 .. Len(s) /\ Len(s) \in 1 .. Len(s) /\ a <= Len(s)
      BY <1>1, <1>3
    <2>2. /\ t \in Seq(pendingReport) /\ Len(t) = Len(s) - a + 1
          /\ \A i \in 1 .. Len(s) - a + 1 : t[i] = s[a + i - 1]
      BY <2>1, <1>1, SubSeqProperties
    <2>3. Len(t) = n
      BY <2>2, <1>1
    <2>4. \A i \in 1 .. n : t[i] = s[a + i - 1] /\ a + i - 1 \in DOMAIN s
      BY <2>2, <2>3, <1>1, <1>3
    <2>5. DOMAIN t = 1 .. n
      BY <2>2, <2>3, LenProperties
    <2>6. Newest(s, n) = t
      BY <1>3 DEF Newest
    <2> HIDE DEF t, a
    <2> QED BY <2>2, <2>3, <2>4, <2>5, <2>6 DEF Reports
  <1> QED BY <1>2, <1>3

-----------------------------------------------------------------------------
(* The inductive invariant. *)

\* A step that only moves or forgets reports and units keeps what is said of them.
LEMMA Moves ==
  ASSUME MeterInv,
         AllReports' \subseteq AllReports, pending' \subseteq pending,
         UNCHANGED <<metered, applied, charges>>,
         \/ UNCHANGED <<boot, seq>>
         \/ boot' = boot + 1 /\ seq' \in Nat
  PROVE  IdsNotAhead' /\ OnePlace' /\ ChargedById'
  <1>1. /\ \A r \in AllReports : r.id \in ReportId
        /\ \A i \in applied : i \in ReportId
        /\ boot \in Nat /\ seq \in Nat
    <2>1. \A r \in AllReports : r \in pendingReport
      BY ReportsType DEF AllReports, Queued, MeterInv, TypeOK
    <2> QED BY <2>1 DEF MeterInv, TypeOK, pendingReport
  <1>2. ASSUME NEW i \in ReportId, NotAhead(i) PROVE NotAhead(i)'
    BY <1>1, <1>2 DEF NotAhead, ReportId
  <1>3. IdsNotAhead'
    BY <1>1, <1>2 DEF MeterInv, IdsNotAhead
  <1>4. OnePlace'
    BY DEF MeterInv, OnePlace
  <1>5. ChargedById'
    BY DEF MeterInv, ChargedById
  <1> QED BY <1>3, <1>4, <1>5

\* A meter that has just started satisfies the invariant.
LEMMA MeterInit == Init => MeterInv
  <1> SUFFICES ASSUME Init PROVE MeterInv
    OBVIOUS
  <1>1. TypeOK
    <2>1. <<>> \in Seq(pendingReport) /\ Len(<<>>) = 0
      BY EmptySeq
    <2>2. 0 <= MaxRetryBatches
      BY MeterAssumption
    <2> QED BY <2>1, <2>2 DEF Init, newMeter, TypeOK
  <1>2. AllReports = {}
    BY ReportsEmpty DEF Init, newMeter, AllReports, Queued
  <1> QED BY <1>1, <1>2 DEF Init, newMeter, MeterInv, FlushLocals, IdsNotAhead, OnePlace,
            ChargedById, NoDoubleCharge, NothingVanishes

\* The data path only adds units that were in no place before.
LEMMA MeterAdd ==
  ASSUME MeterInv, NEW u \in Units, addBytes(u)
  PROVE  MeterInv'
  <1> USE DEF addBytes, flushVars, cpVars
  <1>1. Queued' = Queued /\ AllReports' = AllReports
    BY DEF AllReports, Queued
  <1>2. TypeOK' /\ FlushLocals' /\ NoDoubleCharge'
    BY DEF MeterInv, TypeOK, FlushLocals, NoDoubleCharge
  <1>3. IdsNotAhead'
    BY <1>1 DEF MeterInv, IdsNotAhead, NotAhead
  <1>4. \A r \in AllReports : u \notin r.items
    BY DEF MeterInv, ChargedById
  <1>5. OnePlace'
    BY <1>1, <1>4 DEF MeterInv, OnePlace
  <1>6. ChargedById'
    BY <1>1 DEF MeterInv, ChargedById
  <1>7. NothingVanishes'
    BY <1>1 DEF MeterInv, NothingVanishes, Charged
  <1> QED BY <1>2, <1>3, <1>5, <1>6, <1>7 DEF MeterInv

\* takeRetry moves the retry queue to the flush, whose own queue is empty.
LEMMA MeterBegin == ASSUME MeterInv, flushBegin PROVE MeterInv'
  <1> USE DEF flushBegin, takeRetry, cpVars
  <1>1. Queued' = Queued /\ AllReports' = AllReports
    BY ReportsEmpty DEF AllReports, Queued, MeterInv, FlushLocals
  <1>2. TypeOK' /\ FlushLocals'
    <2>1. <<>> \in Seq(pendingReport) /\ Len(<<>>) = 0 /\ 0 <= MaxRetryBatches
      BY EmptySeq, MeterAssumption
    <2> QED BY <2>1 DEF MeterInv, TypeOK, FlushLocals
  <1>3. IdsNotAhead' /\ OnePlace' /\ ChargedById'
    BY <1>1, Moves
  <1>4. NoDoubleCharge' /\ NothingVanishes'
    BY <1>1 DEF MeterInv, NoDoubleCharge, NothingVanishes, Charged
  <1> QED BY <1>2, <1>3, <1>4 DEF MeterInv

\* drain makes one report, under an id no report has had, of the pending units.
LEMMA MeterDrain == ASSUME MeterInv, drain PROVE MeterInv'
  <1> USE DEF drain, cpVars
  <1> DEFINE new == [id |-> nextReportID, items |-> pending]
  <1>1. CASE pending = {}
    <2>1. Queued' = Queued /\ AllReports' = AllReports
      BY <1>1 DEF AllReports, Queued
    <2>2. TypeOK' /\ FlushLocals' /\ NoDoubleCharge' /\ NothingVanishes'
      BY <1>1, <2>1 DEF MeterInv, TypeOK, FlushLocals, AfterFlush, NoDoubleCharge,
                        NothingVanishes, Charged
    <2>3. IdsNotAhead' /\ OnePlace' /\ ChargedById'
      BY <1>1, <2>1, Moves
    <2> QED BY <2>2, <2>3 DEF MeterInv
  <1>2. CASE pending # {}
    <2>1. boot \in Nat /\ seq \in Nat /\ new \in pendingReport
      BY DEF MeterInv, TypeOK, pendingReport, ReportId, nextReportID
    <2>2. /\ batches' = Append(batches, new) /\ batches' \in Seq(pendingReport)
          /\ Reports(batches') = Reports(batches) \cup {new}
      <3>1. batches' = Append(batches, new) /\ batches \in Seq(pendingReport)
        BY <1>2 DEF MeterInv, TypeOK
      <3> HIDE DEF new
      <3> QED BY <2>1, <3>1, ReportsAppend
    <2>3. Queued' = Queued \cup {new} /\ AllReports' = AllReports \cup {new}
      BY <1>2, <2>2 DEF AllReports, Queued
    <2>4. TypeOK' /\ FlushLocals' /\ NoDoubleCharge'
      BY <1>2, <2>1, <2>2 DEF MeterInv, TypeOK, FlushLocals, NoDoubleCharge
    <2>5. /\ \A r \in AllReports : r \in pendingReport
          /\ \A r \in AllReports : r.id \in ReportId
      BY ReportsType DEF AllReports, Queued, MeterInv, TypeOK, pendingReport
    <2>6. \A i \in ReportId : NotAhead(i) => NotAhead(i)' /\ i # nextReportID
      BY <1>2, <2>1 DEF NotAhead, ReportId, nextReportID
    <2>7. IdsNotAhead'
      <3>2. \A i \in applied : NotAhead(i)'
        BY <2>6 DEF MeterInv, IdsNotAhead, TypeOK
      <3>3. \A r \in AllReports : NotAhead(r.id)'
        BY <2>5, <2>6 DEF MeterInv, IdsNotAhead
      <3>4. \A r \in AllReports' : r \in AllReports \/ r.id = nextReportID
        BY <2>3
      <3>5. \A r \in AllReports' : r \in AllReports \/ NotAhead(r.id)'
        <4>1. boot' = boot /\ seq' = seq + 1
          BY <1>2
        <4> QED BY <4>1, <3>4, <2>1 DEF NotAhead, nextReportID
      <3> QED BY <3>2, <3>3, <3>5, <1>2 DEF IdsNotAhead
    <2>8. \A r \in AllReports : r.id # new.id /\ r.items \cap new.items = {}
      BY <2>5, <2>6 DEF MeterInv, IdsNotAhead, OnePlace
    <2>9. OnePlace'
      <3>1. pending' = {}
        BY <1>2
      <3> QED BY <2>3, <2>8, <3>1 DEF MeterInv, OnePlace
    <2>10. ChargedById'
      <3>1. nextReportID \notin applied /\ pending' = {}
        BY <1>2, <2>6 DEF MeterInv, IdsNotAhead, TypeOK
      <3>2. \A q \in new.items : charges[q] = 0
        BY DEF MeterInv, ChargedById, TypeOK
      <3> QED BY <2>3, <3>1, <3>2 DEF MeterInv, ChargedById
    <2>11. NothingVanishes'
      <3>1. UnitsOf(Queued') = UnitsOf(Queued) \cup pending
        BY <2>3 DEF UnitsOf
      <3> QED BY <1>2, <3>1 DEF MeterInv, NothingVanishes, Charged
    <2> QED BY <2>4, <2>7, <2>9, <2>10, <2>11 DEF MeterInv
  <1> QED BY <1>1, <1>2

\* Posting puts a copy of a queued report on the network.
LEMMA MeterPost == ASSUME MeterInv, ReportUsage PROVE MeterInv'
  <1> USE DEF ReportUsage
  <1>1. /\ Head(batches) \in pendingReport /\ Head(batches) \in Reports(batches)
    BY ReportsTail DEF MeterInv, TypeOK
  <1>2. Queued' = Queued /\ AllReports' = AllReports
    BY <1>1 DEF AllReports, Queued
  <1>3. TypeOK' /\ FlushLocals' /\ NoDoubleCharge' /\ NothingVanishes'
    BY <1>1, <1>2 DEF MeterInv, TypeOK, FlushLocals, NoDoubleCharge, NothingVanishes, Charged
  <1>4. IdsNotAhead' /\ OnePlace' /\ ChargedById'
    BY <1>2, Moves
  <1> QED BY <1>3, <1>4 DEF MeterInv

\* A report is forgotten on a 200 only: its units are charged.
LEMMA MeterPostOK == ASSUME MeterInv, ReportUsageOK PROVE MeterInv'
  <1> USE DEF ReportUsageOK, cpVars
  <1> DEFINE b == Head(batches)
  <1>1. /\ Tail(batches) \in Seq(pendingReport) /\ b \in pendingReport
        /\ Reports(batches) = {b} \cup Reports(batches')
    BY ReportsTail DEF MeterInv, TypeOK
  <1>2. Queued = {b} \cup Queued' /\ AllReports' \subseteq AllReports /\ b \in AllReports
    BY <1>1 DEF AllReports, Queued
  <1>3. TypeOK' /\ FlushLocals' /\ NoDoubleCharge'
    BY <1>1 DEF MeterInv, TypeOK, FlushLocals, NoDoubleCharge
  <1>4. IdsNotAhead' /\ OnePlace' /\ ChargedById'
    BY <1>2, Moves
  <1>5. b.items \subseteq Charged
    <2>1. b.items \subseteq Units
      BY <1>1 DEF pendingReport
    <2>2. \A u \in b.items : charges[u] # 0 /\ charges[u] \in Nat
      BY <1>2, <2>1 DEF MeterInv, ChargedById, TypeOK
    <2> QED BY <2>1, <2>2 DEF Charged
  <1>6. NothingVanishes'
    <2>1. UnitsOf(Queued) = b.items \cup UnitsOf(Queued')
      BY <1>2 DEF UnitsOf
    <2> QED BY <2>1, <1>5 DEF MeterInv, NothingVanishes, Charged
  <1> QED BY <1>3, <1>4, <1>6 DEF MeterInv

\* A failed report moves to flushOnce's failed, its id with it.
LEMMA MeterPostFails == ASSUME MeterInv, ReportUsageFails PROVE MeterInv'
  <1> USE DEF ReportUsageFails, cpVars
  <1>1. /\ Tail(batches) \in Seq(pendingReport) /\ Head(batches) \in pendingReport
        /\ Reports(batches) = {Head(batches)} \cup Reports(batches')
    BY ReportsTail DEF MeterInv, TypeOK
  <1>2. /\ failed' \in Seq(pendingReport)
        /\ Reports(failed') = Reports(failed) \cup {Head(batches)}
    BY <1>1, ReportsAppend DEF MeterInv, TypeOK
  <1>3. Queued' = Queued /\ AllReports' = AllReports
    BY <1>1, <1>2 DEF AllReports, Queued
  <1>4. TypeOK' /\ FlushLocals' /\ NoDoubleCharge' /\ NothingVanishes'
    BY <1>1, <1>2, <1>3 DEF MeterInv, TypeOK, FlushLocals, NoDoubleCharge, NothingVanishes,
                            Charged
  <1>5. IdsNotAhead' /\ OnePlace' /\ ChargedById'
    BY <1>3, Moves
  <1> QED BY <1>4, <1>5 DEF MeterInv

\* requeue keeps failed reports or counts their units as lost.
LEMMA MeterRequeue == ASSUME MeterInv, requeue PROVE MeterInv'
  <1> USE DEF requeue, cpVars
  <1> DEFINE all == retry \o failed
  <1>1. all \in Seq(pendingReport) /\ Reports(all) = Reports(retry) \cup Reports(failed)
    BY ReportsConcat DEF MeterInv, TypeOK
  <1>2. /\ retry' \in Seq(pendingReport) /\ Len(retry') <= MaxRetryBatches
        /\ Reports(retry') \subseteq Reports(all)
    <2>1. retry' = Newest(all, MaxRetryBatches)
      BY DEF Requeued
    <2> HIDE DEF all
    <2> QED BY <1>1, <2>1, ReportsNewest, MeterAssumption
  <1>3. Queued = Reports(all) /\ Queued' = Reports(retry') /\ AllReports' \subseteq AllReports
    BY <1>1, <1>2, ReportsEmpty DEF AllReports, Queued
  <1>4. UnitsOf(Reports(all)) \subseteq Units
    BY <1>1, ReportsType
  <1>5. TypeOK' /\ FlushLocals' /\ NoDoubleCharge'
    <2>1. <<>> \in Seq(pendingReport)
      BY EmptySeq
    <2> QED BY <1>2, <1>4, <2>1 DEF MeterInv, TypeOK, FlushLocals, NoDoubleCharge, AfterFlush
  <1>6. IdsNotAhead' /\ OnePlace' /\ ChargedById'
    BY <1>3, Moves
  <1>7. NothingVanishes'
    BY <1>3 DEF MeterInv, NothingVanishes, Charged
  <1> QED BY <1>5, <1>6, <1>7 DEF MeterInv

\* Closing the stop channel moves nothing.
LEMMA MeterStop == ASSUME MeterInv, stopAndFlush PROVE MeterInv'
  <1> USE DEF stopAndFlush, flushVars, cpVars
  <1>1. Queued' = Queued /\ AllReports' = AllReports
    BY DEF AllReports, Queued
  <1>2. IdsNotAhead' /\ OnePlace' /\ ChargedById'
    BY <1>1, Moves
  <1> QED BY <1>1, <1>2 DEF MeterInv, TypeOK, FlushLocals, NoDoubleCharge, NothingVanishes, Charged

\* A restart loses what was in memory; the new boot's ids are ahead of all others.
LEMMA MeterRestart == ASSUME MeterInv, Restart PROVE MeterInv'
  <1> USE DEF Restart, cpVars
  <1>1. Queued' = {} /\ AllReports' \subseteq AllReports
    BY ReportsEmpty DEF AllReports, Queued
  <1>2. UnitsOf(Queued) \subseteq Units
    <2>1. UnitsOf(Queued) = UnitsOf(Reports(retry)) \cup UnitsOf(Reports(batches))
                                \cup UnitsOf(Reports(failed))
      BY DEF UnitsOf, Queued
    <2> QED BY <2>1, ReportsType DEF MeterInv, TypeOK
  <1>3. TypeOK' /\ FlushLocals' /\ NoDoubleCharge'
    <2>1. <<>> \in Seq(pendingReport) /\ Len(<<>>) = 0 /\ 0 <= MaxRetryBatches
      BY EmptySeq, MeterAssumption
    <2>2. TypeOK'
      <3>1. boot' \in Nat /\ seq' \in Nat /\ charges' \in [Units -> Nat]
        BY DEF MeterInv, TypeOK
      <3>2. lost' \subseteq Units /\ metered' \subseteq Units /\ pending' = {}
        BY <1>2 DEF MeterInv, TypeOK
      <3>3. net' \subseteq pendingReport /\ applied' \subseteq ReportId
        BY DEF MeterInv, TypeOK
      <3>4. retry' = <<>> /\ batches' = <<>> /\ failed' = <<>>
        OBVIOUS
      <3>5. stopping' \in BOOLEAN /\ last' \in BOOLEAN /\ pc' = "idle"
        OBVIOUS
      <3> QED BY <2>1, <3>1, <3>2, <3>3, <3>4, <3>5 DEF TypeOK
    <2> QED BY <2>2 DEF MeterInv, FlushLocals, NoDoubleCharge
  <1>4. IdsNotAhead' /\ OnePlace' /\ ChargedById'
    BY <1>1, Moves
  <1>5. NothingVanishes'
    BY DEF MeterInv, NothingVanishes, Charged
  <1> QED BY <1>3, <1>4, <1>5 DEF MeterInv

\* The control plane charges a report whose id it has not seen: none of its units
\* was charged before, and no other report has any of them.
LEMMA MeterReceive == ASSUME MeterInv, NEW b \in net, cpReceive(b) PROVE MeterInv'
  <1> USE DEF cpReceive, flushVars
  <1>1. Queued' = Queued /\ AllReports' = AllReports /\ b \in AllReports
    BY DEF AllReports, Queued
  <1>2. b \in pendingReport /\ b.id \in ReportId /\ b.items \subseteq Units
    BY DEF MeterInv, TypeOK, pendingReport
  <1>3. charges \in [Units -> Nat] /\ \A u \in b.items : charges[u] = 0
    BY <1>1 DEF MeterInv, TypeOK, ChargedById
  <1>4. /\ charges' \in [Units -> Nat]
        /\ \A u \in b.items : charges'[u] = 1
        /\ \A u \in Units \ b.items : charges'[u] = charges[u]
    BY <1>2, <1>3
  <1>5. TypeOK' /\ FlushLocals'
    BY <1>2, <1>4 DEF MeterInv, TypeOK, FlushLocals
  <1>6. NoDoubleCharge'
    BY <1>4 DEF MeterInv, NoDoubleCharge
  <1>7. IdsNotAhead'
    BY <1>1 DEF MeterInv, IdsNotAhead, NotAhead
  <1>8. OnePlace'
    BY <1>1 DEF MeterInv, OnePlace
  <1>9. ChargedById'
    <2>1. \A u \in Units : u \in pending \/ u \notin metered => charges'[u] = 0
      BY <1>1, <1>4 DEF MeterInv, ChargedById, OnePlace
    <2>2. ASSUME NEW r \in AllReports, NEW u \in r.items
          PROVE  charges'[u] = 0 <=> r.id \notin applied'
      <3>1. CASE r = b
        BY <1>4, <3>1, <2>2
      <3>2. CASE r # b
        <4>1. r.id # b.id /\ u \notin b.items
          BY <1>1, <2>2, <3>2 DEF MeterInv, OnePlace
        <4>2. u \in Units
          BY <2>2 DEF MeterInv, ChargedById, TypeOK
        <4> QED BY <4>1, <4>2, <1>4, <2>2 DEF MeterInv, ChargedById
      <3> QED BY <3>1, <3>2
    <2> QED BY <1>1, <2>1, <2>2 DEF MeterInv, ChargedById
  <1>10. NothingVanishes'
    <2>1. Charged \subseteq Charged'
      <3>1. ASSUME NEW u \in Units, charges[u] > 0 PROVE charges'[u] > 0
        BY <1>3, <1>4, <3>1
      <3> QED BY <3>1 DEF Charged
    <2> QED BY <1>1, <2>1 DEF MeterInv, NothingVanishes
  <1> QED BY <1>5, <1>6, <1>7, <1>8, <1>9, <1>10 DEF MeterInv

\* A post that is lost takes nothing off the meter.
LEMMA MeterNetDrop == ASSUME MeterInv, NEW b \in net, netDrop(b) PROVE MeterInv'
  <1> USE DEF netDrop, flushVars
  <1>1. Queued' = Queued /\ AllReports' \subseteq AllReports
    BY DEF AllReports, Queued
  <1>2. IdsNotAhead' /\ OnePlace' /\ ChargedById'
    BY <1>1, Moves
  <1> QED BY <1>1, <1>2 DEF MeterInv, TypeOK, FlushLocals, NoDoubleCharge, NothingVanishes, Charged

\* A stuttering step moves nothing.
LEMMA MeterStutter == ASSUME MeterInv, UNCHANGED vars PROVE MeterInv'
  <1> USE DEF vars
  <1>1. Queued' = Queued /\ AllReports' = AllReports
    BY DEF AllReports, Queued
  <1>2. IdsNotAhead' /\ OnePlace' /\ ChargedById'
    BY <1>1, Moves
  <1> QED BY <1>1, <1>2 DEF MeterInv, TypeOK, FlushLocals, NoDoubleCharge, NothingVanishes, Charged

\* Every step of the meter, the network and the control plane keeps the invariant.
LEMMA MeterStep == MeterInv /\ [Next]_vars => MeterInv'
  BY MeterAdd, MeterBegin, MeterDrain, MeterPost, MeterPostOK, MeterPostFails, MeterRequeue,
     MeterStop, MeterRestart, MeterReceive, MeterNetDrop, MeterStutter DEF Next

\* The invariant holds in every reachable state.
THEOREM MeterInvariant == Spec => []MeterInv
  <1>1. Init => MeterInv
    BY MeterInit
  <1>2. MeterInv /\ [Next]_vars => MeterInv'
    BY MeterStep
  <1> QED BY <1>1, <1>2, PTL DEF Spec

-----------------------------------------------------------------------------
(* The results. *)

\* The meter's state keeps its shape, and the retry queue its bound.
THEOREM MeterTypeOK == Spec => []TypeOK
  <1>1. MeterInv => TypeOK
    BY DEF MeterInv
  <1> QED BY <1>1, MeterInvariant, PTL

\* However posts and answers are lost, delayed or repeated, and wherever the process
\* restarts, flushOnce never has usage charged twice.
THEOREM MeterNoDoubleCharge == Spec => []NoDoubleCharge
  <1>1. MeterInv => NoDoubleCharge
    BY DEF MeterInv
  <1> QED BY <1>1, MeterInvariant, PTL

\* Metered usage is on the meter, charged, or was given up at a limit or in a crash.
THEOREM MeterNothingVanishes == Spec => []NothingVanishes
  <1>1. MeterInv => NothingVanishes
    BY DEF MeterInv
  <1> QED BY <1>1, MeterInvariant, PTL

\* The meter, the network and the control plane together implement the ledger.
THEOREM MeterImplementsLedger == Spec => ImplementsLedger
  <1>1. Init => Ledger!Init
    BY DEF Init, newMeter, Ledger!Init
  <1>2. MeterInv /\ [Next]_vars => [Ledger!Next]_(Ledger!ledgerVars)
    <2> SUFFICES ASSUME MeterInv, [Next]_vars PROVE [Ledger!Next]_(Ledger!ledgerVars)
      OBVIOUS
    <2>1. CASE \E u \in Units : addBytes(u)
      BY <2>1 DEF addBytes, cpVars, Ledger!Next, Ledger!Record
    <2>2. CASE \E b \in net : cpReceive(b)
      <3>1. PICK b \in net : cpReceive(b)
        BY <2>2
      <3>2. b \in AllReports
        BY DEF AllReports
      <3>3. b.items \in SUBSET metered /\ \A u \in b.items : charges[u] = 0
        BY <3>1, <3>2 DEF MeterInv, ChargedById, cpReceive
      <3>4. Ledger!Settle(b.items)
        BY <3>1, <3>3 DEF cpReceive, Ledger!Settle
      <3> QED BY <3>3, <3>4 DEF Ledger!Next
    <2>3. CASE UNCHANGED <<metered, charges>>
      BY <2>3 DEF Ledger!ledgerVars
    <2> QED BY <2>1, <2>2, <2>3 DEF Next, vars, flushBegin, drain, ReportUsage, ReportUsageOK,
              ReportUsageFails, requeue, stopAndFlush, Restart, netDrop, cpVars
  <1> QED BY <1>1, <1>2, MeterInvariant, PTL DEF Spec, ImplementsLedger, Ledger!Spec

\* Usage is charged at most once and is always accounted for, over failing, late
\* and repeated posts, full queues and crashes of metering.go.
THEOREM MeterIsSafe == Spec => []MeterSafe
BY MeterTypeOK, MeterNoDoubleCharge, MeterNothingVanishes, PTL DEF MeterSafe

-----------------------------------------------------------------------------
(***************************************************************************)
(* The entitlement gate never forgets a revoke and admits a connection     *)
(* only on a recent answer, for any number of callers, any TTL and any     *)
(* timeout.                                                                *)
(*                                                                         *)
(* A revoke is kept by every write of the entry, so a caller that began    *)
(* with one in the cache meets it again wherever it decides: a request and *)
(* the sweep at their first look, a connection at its look-up or in the    *)
(* entry it writes.  An answer that allows the account is as old as its    *)
(* read has been out, at most the timeout, and an entry that allows it is  *)
(* older by the part of its TTL that has passed.                           *)
(***************************************************************************)

\* A revoke stays in the entry; a caller that began with one is a connection, or
\* has not looked yet.
SawInv ==
    /\ entry.revoked => entry.present
    /\ \A c \in Callers : gpc[c] # "idle" /\ saw[c] =>
           entry.revoked /\ (kind[c] # "connect" => gpc[c] = "stale")

\* An entry that lets everyone pass.
Clean(d) == d.allowed /\ ~d.overQuota /\ ~d.revoked

\* How long ago the control plane allowed the account, by an answer on its way and
\* by the entry.
AgeInv ==
    /\ \A c \in Callers : gpc[c] = "answered" => gans[c] \in Statuses
    /\ \A c \in Callers : gpc[c] = "answered" /\ gans[c] = "ok" => sinceOk <= gage[c]
    /\ Clean(entry) /\ entry.left >= 0 => sinceOk <= GateTimeout + GateTTL - entry.left
    /\ cp = "ok" => sinceOk = 0

GateInv == GateTypeOK /\ SawInv /\ AgeInv

Entry == [present : BOOLEAN, allowed : BOOLEAN, overQuota : BOOLEAN, revoked : BOOLEAN,
          left : -1 .. GateTTL]

-----------------------------------------------------------------------------
LEMMA GateInitInv == GateInit => GateInv
<1> SUFFICES ASSUME GateInit PROVE GateInv  OBVIOUS
<1>1. NoEntry \in Entry  BY GateAssumption DEF NoEntry, Entry
<1>2. GateTypeOK
  <2>1. kind \in Kinds /\ cp \in Statuses /\ entry \in Entry  BY <1>1 DEF GateInit
  <2>2. gage \in [Callers -> 0 .. GateTimeout]  BY GateAssumption DEF GateInit
  <2>3. sinceOk \in 0 .. GateMaxAge + 1  BY GateAssumption DEF GateInit, GateMaxAge
  <2>4. /\ gpc \in [Callers -> {"idle", "stale", "lookup", "reading", "answered", "failed"}]
        /\ gans \in [Callers -> Statuses \cup {"none"}]
    BY DEF GateInit
  <2>5. verdict \in [Callers -> BOOLEAN] /\ report \in BOOLEAN /\ saw \in [Callers -> BOOLEAN]
    BY DEF GateInit
  <2> QED  BY <2>1, <2>2, <2>3, <2>4, <2>5 DEF GateTypeOK, Entry
<1>3. SawInv  BY DEF GateInit, SawInv, NoEntry
<1>4. AgeInv  BY DEF GateInit, AgeInv, NoEntry, Clean
<1> QED  BY <1>2, <1>3, <1>4 DEF GateInv

\* The entry refresh writes: typed, and with the revoke of the old one.
LEMMA DecisionTyped ==
    ASSUME GateInv, NEW a \in Statuses
    PROVE  /\ Decision(a) \in Entry /\ Decision(a).present
           /\ entry.revoked => Decision(a).revoked
           /\ Clean(Decision(a)) => a = "ok" /\ Decision(a).left = GateTTL
           /\ a = "revoked" => Decision(a).revoked
<1>1. entry \in Entry  BY DEF GateInv, GateTypeOK, Entry
<1>2. GateTTL \in -1 .. GateTTL  BY GateAssumption
<1>3. CASE a = "revoked"  BY <1>1, <1>2, <1>3 DEF Decision, Entry, Clean
<1>4. CASE a # "revoked"
  <2>1. a \in {"ok", "denied", "over"}  BY <1>4, GateAssumption
  <2> QED  BY <1>1, <1>2, <1>4, <2>1 DEF Decision, Entry, Clean
<1> QED  BY <1>3, <1>4

\* The steps of a caller that touch nothing but its own place and verdict.
LEMMA OwnStep ==
    ASSUME GateInv, NEW c \in Callers,
           call(c) \/ stale(c) \/ gateLookup(c) \/ readFails(c) \/ readFailed(c)
    PROVE  GateInv'
<1> USE DEF GateInv
<1>1. UNCHANGED <<kind, cp, entry, report, sinceOk>>
  BY DEF call, stale, gateLookup, readFails, readFailed
<1>2. /\ gpc' \in [Callers -> {"idle", "stale", "lookup", "reading", "answered", "failed"}]
      /\ gans' \in [Callers -> Statuses \cup {"none"}] /\ gage' \in [Callers -> 0 .. GateTimeout]
      /\ \A k \in Callers \ {c} : gpc'[k] = gpc[k] /\ gans'[k] = gans[k] /\ gage'[k] = gage[k]
      /\ gpc'[c] # "answered"
  <2>1. CASE call(c)  BY <2>1 DEF GateTypeOK, call, gateGoto
  <2>2. CASE \E to \in {"lookup", "reading", "failed"} : gateGoto(c, to)
    BY <2>2 DEF GateTypeOK, gateGoto
  <2>3. CASE \E v : answer(c, v)
    <3>1. 0 \in 0 .. GateTimeout  BY GateAssumption
    <3> QED  BY <2>3, <3>1 DEF GateTypeOK, answer
  <2> QED  BY <2>1, <2>2, <2>3 DEF stale, gateLookup, readFails, readFailed
<1>3. verdict' \in [Callers -> BOOLEAN]
  <2>1. CASE \E to : gateGoto(c, to)  BY <2>1 DEF GateTypeOK, gateGoto
  <2>2. CASE \E v \in BOOLEAN : answer(c, v)  BY <2>2 DEF GateTypeOK, answer
  <2>3. Permits(c, entry) \in BOOLEAN  BY Zenon DEF Permits, GateTypeOK
  <2>4. (kind[c] # "connect" /\ (kind[c] = "sweep" \/ ~entry.present \/ Permits(c, entry))) \in BOOLEAN
    OBVIOUS
  <2> QED  BY <2>1, <2>2, <2>3, <2>4 DEF call, stale, gateLookup, readFails, readFailed
<1>4. saw' \in [Callers -> BOOLEAN]
      /\ (saw' = saw \/ (saw' = [saw EXCEPT ![c] = entry.revoked] /\ gpc[c] = "idle"))
  BY DEF GateTypeOK, call, stale, gateLookup, readFails, readFailed
<1>5. GateTypeOK'  BY <1>1, <1>2, <1>3, <1>4 DEF GateTypeOK
<1>6. AgeInv'  BY <1>1, <1>2 DEF AgeInv
<1>7. gpc'[c] # "idle" /\ saw'[c] => entry.revoked /\ (kind[c] # "connect" => gpc'[c] = "stale")
  <2>1. CASE call(c)
    BY <2>1 DEF call, gateGoto, GateTypeOK
  <2>2. CASE stale(c)
    BY <2>2 DEF stale, gateGoto, answer, GateTypeOK, SawInv
  <2>3. CASE gateLookup(c) \/ readFails(c) \/ readFailed(c)
    BY <2>3 DEF gateLookup, readFails, readFailed, gateGoto, answer, GateTypeOK, SawInv
  <2> QED  BY <2>1, <2>2, <2>3
<1>8. SawInv'
  BY <1>1, <1>2, <1>4, <1>7 DEF SawInv, GateTypeOK
<1> QED  BY <1>5, <1>6, <1>8

LEMMA ReadStep == ASSUME GateInv, NEW c \in Callers, EntitlementForAccount(c)  PROVE GateInv'
<1> USE DEF GateInv
<1>1. GateTypeOK'  BY DEF GateTypeOK, EntitlementForAccount
<1>2. SawInv'  BY DEF SawInv, GateTypeOK, EntitlementForAccount
<1>3. \A k \in Callers : gage[k] >= 0  BY GateAssumption DEF GateTypeOK
<1>4. AgeInv'
  BY <1>3, GateAssumption DEF AgeInv, GateTypeOK, EntitlementForAccount
<1> QED  BY <1>1, <1>2, <1>4

LEMMA RefreshStep == ASSUME GateInv, NEW c \in Callers, refresh(c)  PROVE GateInv'
<1> USE DEF GateInv
<1>1. gans[c] \in Statuses /\ gpc[c] = "answered"  BY DEF AgeInv, refresh
<1> DEFINE d == Decision(gans[c])
<1>2. /\ d \in Entry /\ d.present /\ (entry.revoked => d.revoked)
      /\ (Clean(d) => gans[c] = "ok" /\ d.left = GateTTL)
  BY <1>1, DecisionTyped
<1>3. entry' = d /\ UNCHANGED <<kind, cp, report, saw, sinceOk>>  BY DEF refresh
<1>4. /\ gpc' = [gpc EXCEPT ![c] = "idle"] /\ gans' = [gans EXCEPT ![c] = "none"]
      /\ gage' = [gage EXCEPT ![c] = 0]
  BY DEF refresh, answer
<1>5. verdict' \in [Callers -> BOOLEAN]
  <2>1. Permits(c, d) \in BOOLEAN  BY <1>2 DEF Permits, Entry
  <2>2. verdict' = [verdict EXCEPT ![c] = gans[c] # "revoked" /\ Permits(c, d)]
    BY DEF refresh, answer
  <2>3. (gans[c] # "revoked" /\ Permits(c, d)) \in BOOLEAN  BY <2>1
  <2> HIDE DEF d
  <2> QED  BY <2>2, <2>3 DEF GateTypeOK
<1> HIDE DEF d
<1>6. GateTypeOK'
  <2>1. /\ gpc' \in [Callers -> {"idle", "stale", "lookup", "reading", "answered", "failed"}]
        /\ gans' \in [Callers -> Statuses \cup {"none"}]
    BY <1>4 DEF GateTypeOK
  <2>2. gage' \in [Callers -> 0 .. GateTimeout]
    <3>1. 0 \in 0 .. GateTimeout  BY GateAssumption
    <3> QED  BY <1>4, <3>1 DEF GateTypeOK
  <2>3. entry' \in Entry  BY <1>2, <1>3
  <2> QED  BY <1>3, <1>5, <2>1, <2>2, <2>3 DEF GateTypeOK, Entry
<1>7. SawInv'  BY <1>2, <1>3, <1>4 DEF SawInv, GateTypeOK
<1>8. Clean(d) => sinceOk <= GateTimeout + GateTTL - d.left
  <2>1. gans[c] = "ok" => sinceOk <= gage[c]  BY <1>1 DEF AgeInv
  <2>2. gage[c] \in 0 .. GateTimeout /\ sinceOk \in Nat
    BY GateAssumption DEF GateTypeOK, GateMaxAge
  <2> QED  BY <1>2, <2>1, <2>2, GateAssumption
<1>9. AgeInv'  BY <1>3, <1>4, <1>8 DEF AgeInv, GateTypeOK
<1> QED  BY <1>6, <1>7, <1>9

LEMMA ChangeStep ==
    ASSUME GateInv, (\E s \in Statuses : cpChanges(s)) \/ overQuotaAnswer  PROVE GateInv'
<1> USE DEF GateInv
<1>1. GateTypeOK'
  <2>1. cp' \in Statuses /\ report' \in BOOLEAN
        /\ UNCHANGED <<kind, entry, gpc, gans, gage, verdict, saw>>
    BY DEF GateTypeOK, cpChanges, overQuotaAnswer
  <2>2. sinceOk' \in {0, sinceOk}  BY DEF cpChanges, overQuotaAnswer
  <2>3. 0 \in 0 .. GateMaxAge + 1  BY GateAssumption DEF GateMaxAge
  <2> QED  BY <2>1, <2>2, <2>3 DEF GateTypeOK
<1>2. SawInv'  BY DEF SawInv, cpChanges, overQuotaAnswer
<1>3. sinceOk' <= sinceOk /\ sinceOk \in Nat /\ sinceOk' \in Nat /\ (cp' = "ok" => sinceOk' = 0)
  BY GateAssumption DEF GateTypeOK, cpChanges, overQuotaAnswer, GateMaxAge, AgeInv
<1>4. UNCHANGED <<entry, gpc, gans, gage>>  BY DEF cpChanges, overQuotaAnswer
<1>5. AgeInv'
  BY <1>3, <1>4, GateAssumption DEF AgeInv, GateTypeOK
<1> QED  BY <1>1, <1>2, <1>5

LEMMA MarkStep == ASSUME GateInv, markOverQuota  PROVE GateInv'
<1> USE DEF GateInv
<1>1. entry \in Entry  BY DEF GateTypeOK, Entry
<1>2. entry' \in Entry /\ entry'.present /\ entry'.overQuota /\ entry'.revoked = entry.revoked
  <2> DEFINE l == IF entry.left < 0 THEN GateTTL ELSE entry.left
  <2>1. l \in -1 .. GateTTL  BY <1>1, GateAssumption DEF Entry
  <2>2. entry' = [present |-> TRUE, overQuota |-> TRUE, allowed |-> entry.allowed,
                    revoked |-> entry.revoked, left |-> l]
    BY DEF markOverQuota
  <2> HIDE DEF l
  <2> QED  BY <1>1, <2>1, <2>2 DEF Entry
<1>3. UNCHANGED <<kind, cp, gpc, gans, gage, verdict, saw, sinceOk>> /\ report' = FALSE
  BY DEF markOverQuota
<1>4. GateTypeOK'  BY <1>2, <1>3 DEF GateTypeOK, Entry
<1>5. SawInv' /\ AgeInv'  BY <1>2, <1>3 DEF SawInv, AgeInv, Clean
<1> QED  BY <1>4, <1>5

LEMMA TickStep == ASSUME GateInv, gateTick  PROVE GateInv'
<1> USE DEF GateInv
<1>1. entry \in Entry  BY DEF GateTypeOK, Entry
<1>2. /\ entry' \in Entry /\ entry'.present = entry.present /\ entry'.allowed = entry.allowed
      /\ entry'.overQuota = entry.overQuota /\ entry'.revoked = entry.revoked
      /\ entry'.left = (IF entry.left < 0 THEN entry.left ELSE entry.left - 1)
  BY <1>1, GateAssumption DEF gateTick, Entry
<1>3. UNCHANGED <<kind, cp, gpc, gans, verdict, report, saw>>  BY DEF gateTick
<1>4. gage' \in [Callers -> 0 .. GateTimeout]
      /\ \A k \in Callers : gpc[k] = "answered" => gage'[k] = gage[k] + 1
  BY GateAssumption DEF gateTick, GateTypeOK
<1>5. sinceOk' \in 0 .. GateMaxAge + 1 /\ sinceOk' <= sinceOk + 1 /\ sinceOk \in Nat
      /\ (cp = "ok" => sinceOk' = sinceOk)
  BY GateAssumption DEF gateTick, GateTypeOK, GateMaxAge
<1>6. GateTypeOK'  BY <1>2, <1>3, <1>4, <1>5 DEF GateTypeOK, Entry
<1>7. SawInv'  BY <1>2, <1>3 DEF SawInv
<1>8. Clean(entry)' /\ entry'.left >= 0 => sinceOk' <= GateTimeout + GateTTL - entry'.left
  <2>1. entry.left \in -1 .. GateTTL  BY <1>1 DEF Entry
  <2>2. Clean(entry)' => Clean(entry)  BY <1>2 DEF Clean
  <2>3. Clean(entry) /\ entry.left >= 0 => sinceOk <= GateTimeout + GateTTL - entry.left
    BY DEF AgeInv
  <2>4. sinceOk' \in Nat  BY <1>5, GateAssumption DEF GateMaxAge
  <2> QED  BY <1>2, <1>5, <2>1, <2>2, <2>3, <2>4, GateAssumption
<1>9. \A k \in Callers : gpc'[k] = "answered" /\ gans'[k] = "ok" => sinceOk' <= gage'[k]
  <2> SUFFICES ASSUME NEW k \in Callers, gpc[k] = "answered", gans[k] = "ok"
               PROVE  sinceOk' <= gage'[k]
    BY <1>3
  <2>1. sinceOk <= gage[k] /\ gage'[k] = gage[k] + 1 /\ gage[k] \in Nat
    BY <1>4, GateAssumption DEF AgeInv, GateTypeOK
  <2>2. sinceOk' \in Nat  BY <1>5, GateAssumption DEF GateMaxAge
  <2> QED  BY <1>5, <2>1, <2>2
<1>10. AgeInv'  BY <1>3, <1>5, <1>8, <1>9 DEF AgeInv
<1> QED  BY <1>6, <1>7, <1>10

LEMMA GateNextInv == ASSUME GateInv, [GateNext]_gateVars  PROVE GateInv'
<1>1. CASE UNCHANGED gateVars
  BY <1>1 DEF gateVars, GateInv, GateTypeOK, SawInv, AgeInv, Clean
<1>2. CASE GateNext
  BY <1>2, OwnStep, ReadStep, RefreshStep, ChangeStep, MarkStep, TickStep DEF GateNext
<1> QED  BY <1>1, <1>2

-----------------------------------------------------------------------------
\* The invariant holds in every state a behaviour of the gate reaches.
THEOREM GateInvHolds == GateSpec => []GateInv
<1> QED  BY GateInitInv, GateNextInv, PTL DEF GateSpec

\* Every variable of the gate keeps its type, and no entry outlives its TTL, through
\* the look-ups, writes and marks of gate.go.
THEOREM GateTypes == GateSpec => []GateTypeOK
<1>1. GateInv => GateTypeOK  BY DEF GateInv
<1> QED  BY <1>1, GateInvHolds, PTL

\* What a caller answers by: a step in which it lets the tunnel be is a look-up that
\* hits, an answer that arrives, or a failed read that is not a connection's.
LEMMA WhoLetsBe ==
    ASSUME GateInv, GateNext, NEW c \in Callers, LetsBe(c)
    PROVE  \/ gateLookup(c) /\ Fresh /\ Permits(c, entry)
           \/ refresh(c) /\ gans[c] # "revoked" /\ Permits(c, Decision(gans[c]))
           \/ readFailed(c) /\ kind[c] # "connect"
<1> USE DEF GateInv
<1>1. gpc[c] # "idle" /\ gpc'[c] = "idle" /\ verdict'[c]  BY DEF LetsBe
<1>2. PICK k \in Callers : \/ call(k) \/ stale(k) \/ gateLookup(k) \/ EntitlementForAccount(k)
                           \/ readFails(k) \/ refresh(k) \/ readFailed(k)
  BY <1>1 DEF GateNext, cpChanges, overQuotaAnswer, markOverQuota, gateTick
<1>3. k = c
  BY <1>1, <1>2 DEF call, stale, gateLookup, EntitlementForAccount, readFails, refresh,
     readFailed, gateGoto, answer, GateTypeOK
<1>4. ~(call(c) \/ EntitlementForAccount(c) \/ readFails(c))
  BY <1>1 DEF call, EntitlementForAccount, readFails, gateGoto, GateTypeOK
<1>5. \A v : answer(c, v) => verdict'[c] = v  BY DEF answer, GateTypeOK
<1>6. \A to : gateGoto(c, to) => gpc'[c] = to  BY DEF gateGoto, GateTypeOK
<1>7. ~stale(c)  BY <1>1, <1>5, <1>6 DEF stale
<1>8. gateLookup(c) => Fresh /\ Permits(c, entry)  BY <1>1, <1>5, <1>6 DEF gateLookup
<1>9. refresh(c) => gans[c] # "revoked" /\ Permits(c, Decision(gans[c]))
  BY <1>1, <1>5 DEF refresh
<1>10. readFailed(c) => kind[c] # "connect"
  <2> SUFFICES ASSUME readFailed(c), kind[c] = "connect" PROVE FALSE  OBVIOUS
  <2>1. answer(c, FALSE)  BY DEF readFailed
  <2> QED  BY <1>1, <1>5, <2>1
<1> QED  BY <1>2, <1>3, <1>4, <1>7, <1>8, <1>9, <1>10

\* Once a revoke is cached no call that begins later is answered "go on", whatever
\* reads that started before it write into the cache (refresh keeps the flag).
THEOREM GateRevokeIsFinal == GateSpec => RevokeIsFinal
<1>1. ASSUME GateInv, [GateNext]_gateVars
      PROVE  [\A c \in Callers : LetsBe(c) => ~saw[c]]_gateVars
  <2> SUFFICES ASSUME GateNext, NEW c \in Callers, LetsBe(c), saw[c] PROVE FALSE
    BY <1>1
  <2> USE <1>1
  <2>1. entry.revoked /\ entry.present /\ (kind[c] # "connect" => gpc[c] = "stale")
    BY DEF GateInv, SawInv, LetsBe
  <2>2. kind[c] = "connect"
    BY <2>1, WhoLetsBe DEF gateLookup, refresh, readFailed
  <2>3. ~Permits(c, entry)  BY <2>1, <2>2 DEF Permits
  <2>4. refresh(c) => ~Permits(c, Decision(gans[c]))
    <3> SUFFICES ASSUME refresh(c) PROVE ~Permits(c, Decision(gans[c]))  OBVIOUS
    <3>1. gans[c] \in Statuses  BY DEF GateInv, AgeInv, refresh
    <3>2. Decision(gans[c]).revoked  BY <2>1, <3>1, DecisionTyped
    <3> QED  BY <2>2, <3>2 DEF Permits
  <2> QED  BY <2>2, <2>3, <2>4, WhoLetsBe
<1> QED  BY <1>1, GateInvHolds, PTL DEF GateSpec, RevokeIsFinal

\* allowConnect admits only when the control plane allowed the account within the last
\* TTL and one read timeout: an expired entry or a failed read never admits.
THEOREM GateAdmitsRecent == GateSpec => AdmitsRecent
<1>1. ASSUME GateInv, [GateNext]_gateVars
      PROVE  [\A c \in Callers : kind[c] = "connect" /\ LetsBe(c) => sinceOk <= GateMaxAge]_gateVars
  <2> SUFFICES ASSUME GateNext, NEW c \in Callers, LetsBe(c), kind[c] = "connect"
               PROVE  sinceOk <= GateMaxAge
    BY <1>1
  <2> USE <1>1
  <2>1. sinceOk \in Int /\ gage[c] \in 0 .. GateTimeout /\ entry.left \in -1 .. GateTTL
    BY GateAssumption DEF GateInv, GateTypeOK, GateMaxAge
  <2>2. CASE gateLookup(c) /\ Fresh /\ Permits(c, entry)
    <3>1. Clean(entry) /\ entry.left >= 0  BY <2>2 DEF Permits, Clean, Fresh
    <3>2. sinceOk <= GateTimeout + GateTTL - entry.left  BY <3>1 DEF GateInv, AgeInv
    <3> QED  BY <2>1, <3>1, <3>2, GateAssumption DEF GateMaxAge
  <2>3. CASE refresh(c) /\ Permits(c, Decision(gans[c]))
    <3>1. gans[c] \in Statuses /\ gpc[c] = "answered"  BY <2>3 DEF GateInv, AgeInv, refresh
    <3>2. Clean(Decision(gans[c]))  BY <2>3 DEF Permits, Clean
    <3>3. gans[c] = "ok"  BY <3>1, <3>2, DecisionTyped
    <3>4. sinceOk <= gage[c]  BY <3>1, <3>3 DEF GateInv, AgeInv
    <3> QED  BY <2>1, <3>4, GateAssumption DEF GateMaxAge
  <2> QED  BY <2>2, <2>3, WhoLetsBe
<1> QED  BY <1>1, GateInvHolds, PTL DEF GateSpec, AdmitsRecent

\* The gate never forgets a revoke it has seen and admits a connection only on a
\* recent answer, whatever reads are in flight (refresh, allowConnect).
THEOREM GateIsSound == GateSpec => GateSound
BY GateTypes, GateRevokeIsFinal, GateAdmitsRecent, PTL DEF GateSound

-----------------------------------------------------------------------------
(* The token store admits a handshake only on a grant that is recent, and  *)
(* only for a name of the account, for any number of handshakes, any TTL   *)
(* and any timeout.  An answer that grants a name is as old as its read    *)
(* has been out; an entry that holds it is older by the part of its TTL    *)
(* that has passed.                                                        *)

StoreEntry == [present : BOOLEAN, names : SUBSET TunnelNames, left : 0 .. StoreTTL]

\* How long ago the control plane granted a name, by an answer on its way and by
\* the entry; a name that is granted now was granted a moment ago.
SinceInv ==
    /\ \A n \in TunnelNames : Granted(n) => since[n] = 0
    /\ \A c \in Handshakes : spc[c] = "granted" => \A n \in sans[c] : since[n] <= sage[c]
    /\ cache.present /\ cache.left > 0 =>
           \A n \in cache.names : since[n] <= StoreTimeout + StoreTTL - cache.left

StoreInv == StoreTypeOK /\ SinceInv

LEMMA StoreInitInv == StoreInit => StoreInv
<1> SUFFICES ASSUME StoreInit PROVE StoreInv  OBVIOUS
<1> USE StoreAssumption
<1>1. NoStoreEntry \in StoreEntry  BY DEF NoStoreEntry, StoreEntry
<1>2. cpNames \subseteq TunnelNames /\ cpRevoked \in BOOLEAN /\ cache \in StoreEntry
  BY <1>1 DEF StoreInit
<1>3. since \in [TunnelNames -> 0 .. StoreMaxAge + 1]  BY DEF StoreInit, StoreMaxAge
<1>4. /\ spc \in [Handshakes -> {"idle", "reading", "revoked", "granted"}]
      /\ sans \in [Handshakes -> SUBSET TunnelNames]
      /\ sage \in [Handshakes -> 0 .. StoreTimeout]
      /\ admitted \in [Handshakes -> BOOLEAN]
  BY DEF StoreInit
<1>5. StoreTypeOK  BY <1>2, <1>3, <1>4 DEF StoreTypeOK, StoreEntry
<1>6. SinceInv  BY DEF StoreInit, SinceInv, NoStoreEntry
<1> QED  BY <1>5, <1>6 DEF StoreInv

\* What a call of Authorize that ends leaves behind.
LEMMA Concluded ==
    ASSUME StoreTypeOK, NEW c \in Handshakes, NEW ok \in BOOLEAN, conclude(c, ok)
    PROVE  /\ spc' \in [Handshakes -> {"idle", "reading", "revoked", "granted"}]
           /\ sans' \in [Handshakes -> SUBSET TunnelNames]
           /\ sage' \in [Handshakes -> 0 .. StoreTimeout]
           /\ admitted' \in [Handshakes -> BOOLEAN]
           /\ spc'[c] = "idle" /\ admitted'[c] = ok
           /\ \A k \in Handshakes \ {c} : spc'[k] = spc[k] /\ sans'[k] = sans[k] /\ sage'[k] = sage[k]
<1>1. 0 \in 0 .. StoreTimeout  BY StoreAssumption
<1> QED  BY <1>1 DEF StoreTypeOK, conclude

LEMMA StoreStep == ASSUME StoreInv, [StoreNext]_storeVars  PROVE StoreInv'
<1> USE StoreAssumption DEF StoreInv
<1>1. ASSUME NEW c \in Handshakes, storeAuthorize(c)  PROVE StoreInv'
  <2>0. UNCHANGED <<cpNames, cpRevoked, cache, since>>  BY <1>1 DEF storeAuthorize
  <2>1. CASE conclude(c, HitAdmits(c))
    <3>1. HitAdmits(c) \in BOOLEAN  BY DEF HitAdmits
    <3>2. StoreTypeOK'  BY <2>0, <2>1, <3>1, Concluded DEF StoreTypeOK
    <3>3. SinceInv'  BY <2>0, <2>1, <3>1, Concluded DEF SinceInv, Granted
    <3> QED  BY <3>2, <3>3
  <2>2. CASE spc' = [spc EXCEPT ![c] = "reading"] /\ UNCHANGED <<sans, sage, admitted>>
    <3>1. StoreTypeOK'  BY <2>0, <2>2 DEF StoreTypeOK
    <3>2. SinceInv'  BY <2>0, <2>2 DEF SinceInv, Granted, StoreTypeOK
    <3> QED  BY <3>1, <3>2
  <2> QED  BY <1>1, <2>1, <2>2 DEF storeAuthorize
<1>2. ASSUME NEW c \in Handshakes, EntitlementForCredential(c)  PROVE StoreInv'
  <2>1. StoreTypeOK'  BY <1>2 DEF StoreTypeOK, EntitlementForCredential
  <2>2. \A k \in Handshakes : sage[k] \in Nat  BY DEF StoreTypeOK
  <2>3. SinceInv'
    <3>1. \A n \in TunnelNames : Granted(n)' => since'[n] = 0
      BY <1>2 DEF SinceInv, Granted, EntitlementForCredential
    <3>2. ASSUME NEW k \in Handshakes, spc'[k] = "granted", NEW n \in sans'[k]
          PROVE  since'[n] <= sage'[k]
      BY <1>2, <2>1, <2>2, <3>2 DEF SinceInv, Granted, EntitlementForCredential, StoreTypeOK
    <3>3. UNCHANGED <<cache, since>>  BY <1>2 DEF EntitlementForCredential
    <3> QED  BY <3>1, <3>2, <3>3 DEF SinceInv
  <2> QED  BY <2>1, <2>3
<1>3. ASSUME NEW c \in Handshakes, storeReadFails(c) \/ purge(c)  PROVE StoreInv'
  <2>1. conclude(c, FALSE) /\ UNCHANGED <<cpNames, cpRevoked, since>>
    BY <1>3 DEF storeReadFails, purge
  <2>2. cache' = cache \/ cache' = NoStoreEntry  BY <1>3 DEF storeReadFails, purge
  <2>3. NoStoreEntry \in StoreEntry /\ ~NoStoreEntry.present  BY DEF NoStoreEntry, StoreEntry
  <2>4. StoreTypeOK'  BY <2>1, <2>2, <2>3, Concluded DEF StoreTypeOK, StoreEntry
  <2>5. SinceInv'  BY <2>1, <2>2, <2>3, Concluded DEF SinceInv, Granted
  <2> QED  BY <2>4, <2>5
<1>4. ASSUME NEW c \in Handshakes, store(c)  PROVE StoreInv'
  <2>1. /\ conclude(c, Claim[c] \in Store(sans[c]).names) /\ UNCHANGED <<cpNames, cpRevoked, since>>
        /\ spc[c] = "granted" /\ cache' = Store(sans[c])
    BY <1>4 DEF store
  <2>2. Store(sans[c]) \in StoreEntry /\ Store(sans[c]).names = sans[c] /\ Store(sans[c]).left = StoreTTL
    BY DEF Store, StoreEntry, StoreTypeOK
  <2> DEFINE ok == Claim[c] \in Store(sans[c]).names
  <2>6. ok \in BOOLEAN /\ conclude(c, ok)  BY <2>1
  <2> HIDE DEF ok
  <2>3. StoreTypeOK'  BY <2>1, <2>2, <2>6, Concluded DEF StoreTypeOK, StoreEntry
  <2>4. \A n \in sans[c] : n \in TunnelNames /\ since[n] <= sage[c] /\ since[n] \in Nat
                           /\ sage[c] \in 0 .. StoreTimeout
    BY <2>1 DEF SinceInv, StoreTypeOK
  <2>5. SinceInv'  BY <2>1, <2>2, <2>4, <2>6, Concluded DEF SinceInv, Granted
  <2> QED  BY <2>3, <2>5
<1>5. ASSUME NEW names \in SUBSET TunnelNames, NEW revoked \in BOOLEAN,
             credentialChanges(names, revoked)
      PROVE  StoreInv'
  <2>1. /\ \A n \in TunnelNames : since'[n] = IF Granted(n)' THEN 0 ELSE since[n]
        /\ UNCHANGED <<cache, spc, sans, sage, admitted>> /\ cpNames' = names /\ cpRevoked' = revoked
        /\ DOMAIN since' = TunnelNames /\ since' = [n \in TunnelNames |-> since'[n]]
    BY <1>5 DEF credentialChanges
  <2>2. since' \in [TunnelNames -> 0 .. StoreMaxAge + 1]
    BY <2>1 DEF StoreTypeOK, StoreMaxAge
  <2>3. StoreTypeOK'  BY <2>1, <2>2 DEF StoreTypeOK
  <2>4. \A n \in TunnelNames : since'[n] <= since[n] /\ since'[n] \in Nat /\ since[n] \in Nat
    BY <2>1 DEF StoreTypeOK, StoreMaxAge
  <2>5. \A k \in Handshakes : sans[k] \subseteq TunnelNames /\ sage[k] \in Nat  BY DEF StoreTypeOK
  <2>6. cache.names \subseteq TunnelNames /\ cache.left \in Nat  BY DEF StoreTypeOK
  <2>7. SinceInv'  BY <2>1, <2>4, <2>5, <2>6 DEF SinceInv
  <2> QED  BY <2>3, <2>7
<1>6. ASSUME storeTick  PROVE StoreInv'
  <2>1. /\ cpNames' = cpNames /\ cpRevoked' = cpRevoked /\ spc' = spc /\ sans' = sans /\ admitted' = admitted
        /\ \A k \in Handshakes : sage'[k] = IF spc[k] # "idle" THEN sage[k] + 1 ELSE 0
        /\ \A k \in Handshakes : spc[k] # "idle" => sage[k] < StoreTimeout
        /\ sage' \in [Handshakes -> 0 .. StoreTimeout]
    BY <1>6 DEF storeTick, StoreTypeOK
  <2>2. /\ cache' \in StoreEntry /\ cache'.present = cache.present /\ cache'.names = cache.names
        /\ cache'.left = IF cache.left > 0 THEN cache.left - 1 ELSE cache.left
        /\ cache.left \in 0 .. StoreTTL /\ cache.names \subseteq TunnelNames
    BY <1>6 DEF storeTick, StoreTypeOK, StoreEntry
  <2>3. /\ since' \in [TunnelNames -> 0 .. StoreMaxAge + 1]
        /\ \A n \in TunnelNames : /\ since'[n] <= since[n] + 1 /\ since[n] \in Nat
                                  /\ Granted(n) => since'[n] = since[n]
    BY <1>6 DEF storeTick, StoreTypeOK, StoreMaxAge
  <2>4. StoreTypeOK'  BY <2>1, <2>2, <2>3 DEF StoreTypeOK, StoreEntry
  <2>5. \A k \in Handshakes : sans[k] \subseteq TunnelNames /\ sage[k] \in Nat  BY DEF StoreTypeOK
  <2>6. SinceInv'
    <3>1. \A n \in TunnelNames : Granted(n)' => since'[n] = 0
      BY <2>1, <2>3 DEF SinceInv, Granted
    <3>2. ASSUME NEW k \in Handshakes, spc'[k] = "granted", NEW n \in sans'[k]
          PROVE  since'[n] <= sage'[k]
      BY <2>1, <2>3, <2>5, <3>2 DEF SinceInv
    <3>3. ASSUME cache'.present, cache'.left > 0, NEW n \in cache'.names
          PROVE  since'[n] <= StoreTimeout + StoreTTL - cache'.left
      BY <2>2, <2>3, <3>3 DEF SinceInv
    <3> QED  BY <3>1, <3>2, <3>3 DEF SinceInv
  <2> QED  BY <2>4, <2>6
<1>7. CASE UNCHANGED storeVars
  BY <1>7 DEF storeVars, StoreTypeOK, SinceInv, Granted
<1> QED  BY <1>1, <1>2, <1>3, <1>4, <1>5, <1>6, <1>7 DEF StoreNext

\* The invariant holds of every handshake and every tick (CPTokenStore's Authorize).
THEOREM StoreInvHolds == StoreSpec => []StoreInv
BY StoreInitInv, StoreStep, PTL DEF StoreSpec

\* No entry outlives its TTL, and every variable has its type.
THEOREM StoreTypes == StoreSpec => []StoreTypeOK
<1>1. StoreInv => StoreTypeOK  BY DEF StoreInv
<1> QED  BY <1>1, StoreInvHolds, PTL

\* Authorize grants a name only if the control plane granted that very name to the
\* credential within the TTL and the time of one read, whatever reads are in flight.
THEOREM StoreGrantsRecent == StoreSpec => GrantsRecent
<1> DEFINE Recent == \A c \in Handshakes : storeAuthorize(c) \/ store(c) =>
           (spc'[c] = "idle" /\ admitted'[c] => since[Claim[c]] <= StoreMaxAge)
<1>1. StoreInv => Recent
  <2> SUFFICES ASSUME StoreInv, NEW c \in Handshakes, storeAuthorize(c) \/ store(c),
                      spc'[c] = "idle", admitted'[c]
               PROVE  since[Claim[c]] <= StoreMaxAge
    OBVIOUS
  <2> USE StoreAssumption DEF StoreInv
  <2>0. Claim[c] \in TunnelNames /\ since[Claim[c]] \in Nat  BY DEF StoreTypeOK
  <2>1. CASE store(c)
    <3>1. Claim[c] \in sans[c] /\ spc[c] = "granted" /\ sage[c] \in 0 .. StoreTimeout
      BY <2>1 DEF store, conclude, StoreTypeOK, Store
    <3> QED  BY <2>0, <3>1 DEF SinceInv, StoreMaxAge
  <2>2. CASE storeAuthorize(c)
    <3>1. Hit /\ Claim[c] \in cache.names /\ cache.left \in 0 .. StoreTTL
      BY <2>2 DEF storeAuthorize, conclude, StoreTypeOK, HitAdmits
    <3> QED  BY <2>0, <3>1 DEF SinceInv, StoreMaxAge, Hit
  <2> QED  BY <2>1, <2>2
<1> QED  BY <1>1, StoreInvHolds, PTL DEF GrantsRecent

\* Both together: what Authorize promises of the cache and of every grant.
THEOREM StoreIsSound == StoreSpec => StoreSound
BY StoreTypes, StoreGrantsRecent, PTL DEF StoreSound

-----------------------------------------------------------------------------
(***************************************************************************)
(* The gateway daemon: what it serves is what was configured and is        *)
(* permitted, all of it or nothing; and its sessions take nothing from the *)
(* clear, lose no submission and balance their slots.                      *)
(***************************************************************************)

(* The start.  The surfaces are built in one order, so the stage tells     *)
(* which of the enabled ones are bound; nothing runs before all are.       *)
Enabled(S) == {s \in S : cfg[Enable[s]] = "true"}
BoundSoFar == CASE stage = "pop3" -> Enabled({"imap"})
                [] stage = "submission" -> Enabled({"imap", "pop3"})
                [] stage = "mx" -> Enabled(Legacy)
                [] OTHER -> {}
BeforeServing == stage # "serving" => DOMAIN listening = BoundSoFar /\ running = {}
Serving == stage = "serving" => DOMAIN listening = IF cmd = "public" THEN {"admin"}
                                                   ELSE Enabled(Legacy) \cup {"mx"}
PublicOnly == /\ stage = "public" => cmd = "public"
              /\ stage \notin {"public", "serving", "stopped", "failed"} => cmd # "public"
BootInv == BootTypeOK /\ SurfacesSound /\ StartsWhole /\ BeforeServing /\ Serving /\ PublicOnly

LEMMA DefaultFlags == DOMAIN Default = Keys /\ \A k \in Flags : Default[k] = "false"
<1>1. DOMAIN Default = Keys BY DEF Default
<1>2. ASSUME NEW k \in Flags PROVE Default[k] = "false"
  <2>1. k \in Keys BY DEF Keys
  <2>2. k \notin OptionalText /\ k # "gateway_mode" BY DEF Flags, OptionalText
  <2> QED BY <2>1, <2>2 DEF Default
<1> QED BY <1>1, <1>2

LEMMA BootInitInv == BootInit => BootInv
<1> SUFFICES ASSUME BootInit PROVE BootInv OBVIOUS
<1>1. DOMAIN listening = {} BY DEF BootInit
<1>2. BootTypeOK BY <1>1, DefaultFlags DEF BootInit, BootTypeOK
<1>3. SurfacesSound /\ StartsWhole /\ BeforeServing /\ Serving /\ PublicOnly
  BY DEF BootInit, SurfacesSound, StartsWhole, BeforeServing, Serving, PublicOnly, BoundSoFar
<1> QED BY <1>2, <1>3 DEF BootInv

(* The end of the process closes everything.                               *)
LEMMA EndsKeep ==
    ASSUME BootInv, NEW s \in {"stopped", "failed"}, NEW c, Ends(s, c)
    PROVE  BootInv'
<1>1. DOMAIN listening' = {} BY DEF Ends
<1>2. BootTypeOK' BY <1>1, DefaultFlags DEF BootInv, Ends, BootTypeOK
<1>3. (SurfacesSound /\ StartsWhole /\ BeforeServing /\ Serving /\ PublicOnly)'
  BY DEF Ends, SurfacesSound, StartsWhole, BeforeServing, Serving, PublicOnly, BoundSoFar
<1> QED BY <1>2, <1>3 DEF BootInv

LEMMA FailKeeps ==
    ASSUME BootInv, NEW c, Fail(c)
    PROVE  BootInv'
BY EndsKeep DEF Fail

(* A setting that is read leaves every flag on or off.                     *)
LEMMA SettingKeeps ==
    ASSUME BootInv, stage = "config", NEW k \in Keys, NEW v, cfg' = [cfg EXCEPT ![k] = v],
           k \in Flags => v \in {"true", "false"},
           UNCHANGED <<stage, cmd, recipients, tls, listening, running, handlers, shutdown, broken, code>>
    PROVE  BootInv'
<1>1. BootTypeOK' BY DEF BootInv, BootTypeOK
<1>2. DOMAIN listening = {} /\ running = {} /\ cmd # "public" BY DEF BootInv, BeforeServing, BoundSoFar, PublicOnly
<1>3. (SurfacesSound /\ StartsWhole /\ BeforeServing /\ Serving /\ PublicOnly)'
  BY <1>2 DEF SurfacesSound, StartsWhole, BeforeServing, Serving, PublicOnly, BoundSoFar
<1> QED BY <1>1, <1>3 DEF BootInv

LEMMA ParseLineKeeps ==
    ASSUME BootInv, parse_line
    PROVE  BootInv'
<1>1. PICK l \in Lines :
        IF l.key \notin Keys \/ Read(l.key, l.raw) = "bad" THEN Fail(1)
        ELSE /\ cfg' = [cfg EXCEPT ![l.key] = Read(l.key, l.raw)]
             /\ UNCHANGED <<stage, cmd, recipients, tls, listening, running,
                            handlers, shutdown, broken, code>>
  BY DEF parse_line
<1>2. CASE l.key \notin Keys \/ Read(l.key, l.raw) = "bad" BY <1>1, <1>2, FailKeeps
<1>3. CASE l.key \in Keys /\ Read(l.key, l.raw) # "bad"
  <2>1. l.key \in Flags => Read(l.key, l.raw) = parse_bool(l.raw)
    BY DEF Read, Flags, OptionalText, Choices
  <2>2. parse_bool(l.raw) \in {"true", "false", "bad"} BY DEF parse_bool
  <2> QED BY <1>1, <1>3, <2>1, <2>2, SettingKeeps DEF parse_line
<1> QED BY <1>2, <1>3

LEMMA FromEnvKeeps ==
    ASSUME BootInv, from_env
    PROVE  BootInv'
<1>1. PICK l \in {x \in Lines : x.key \in Keys} : cfg' = [cfg EXCEPT ![l.key] = ReadEnv(l.key, l.raw)]
  BY DEF from_env
<1>2. l.key \in Flags => ReadEnv(l.key, l.raw) = env_flag(l.raw)
  BY DEF ReadEnv, Flags, Choices
<1>3. env_flag(l.raw) \in {"true", "false"} BY DEF env_flag
<1> QED BY <1>1, <1>2, <1>3, SettingKeeps DEF from_env

(* A step on to the next stage that binds nothing.                         *)
LEMMA GotoKeeps ==
    ASSUME BootInv, NEW s, Goto(s), listening' = listening, tls' \in BOOLEAN,
           DOMAIN listening = {},
           stage \in {"directory", "mesh", "tls"}, s \in {"mesh", "tls", "imap"}
    PROVE  BootInv'
<1>1. running = {} /\ cmd # "public" BY DEF BootInv, BeforeServing, PublicOnly
<1>2. BootTypeOK' BY <1>1 DEF BootInv, BootTypeOK, Goto
<1>3. (SurfacesSound /\ StartsWhole /\ BeforeServing /\ Serving /\ PublicOnly)'
  BY <1>1 DEF SurfacesSound, StartsWhole, BeforeServing, Serving, PublicOnly, BoundSoFar, Goto
<1> QED BY <1>2, <1>3 DEF BootInv

(* What a surface that is bound was given.                                 *)
SurfaceSound(s) ==
    /\ cfg[Enable[s]] = "true" /\ tls
    /\ cfg["gateway_mode"] = "private" => Cardinality(listening[s]) <= 1
    /\ cfg["gateway_mode"] = "registered" => listening[s] \subseteq recipients
    /\ s = "submission" => cfg["submission_spool"] # "unset"

LEMMA BuildKeeps ==
    ASSUME BootInv, NEW s \in Legacy, NEW next \in {"pop3", "submission", "mx"}, build(s, next),
           s = "imap" => stage = "imap" /\ next = "pop3",
           s = "pop3" => stage = "pop3" /\ next = "submission",
           s = "submission" => stage = "submission" /\ next = "mx"
    PROVE  BootInv'
<1>0. /\ running = {} /\ DOMAIN listening = BoundSoFar /\ s \notin DOMAIN listening /\ cmd # "public"
      /\ DOMAIN listening \subseteq Legacy /\ cfg[Enable[s]] \in {"true", "false"}
      /\ \A x \in DOMAIN listening : SurfaceSound(x)
  <2>1. running = {} /\ DOMAIN listening = BoundSoFar /\ cmd # "public"
    BY DEF BootInv, BeforeServing, PublicOnly, Legacy
  <2>2. s \notin BoundSoFar /\ BoundSoFar \subseteq Legacy BY DEF BoundSoFar, Enabled, Legacy
  <2>3. Enable[s] \in Flags BY DEF Enable, Flags, Legacy
  <2>4. cfg[Enable[s]] \in {"true", "false"} BY <2>3 DEF BootInv, BootTypeOK
  <2>5. \A x \in DOMAIN listening : SurfaceSound(x)
    BY <2>1, <2>2 DEF BootInv, SurfacesSound, SurfaceSound
  <2> QED BY <2>1, <2>2, <2>4, <2>5
<1>1. CASE Fail(1) BY <1>1, FailKeeps
<1>2. CASE cfg[Enable[s]] = "false" /\ Goto(next) /\ UNCHANGED <<recipients, tls, listening>>
  <2>1. /\ stage' = next /\ cfg' = cfg /\ cmd' = cmd /\ running' = running /\ handlers' = handlers
        /\ shutdown' = shutdown /\ broken' = broken
    BY <1>2 DEF Goto
  <2>2. BoundSoFar' = BoundSoFar BY <1>2, <2>1 DEF BoundSoFar, Enabled, Legacy
  <2>3. BootTypeOK' BY <1>2, <2>1 DEF BootInv, BootTypeOK
  <2>4. SurfacesSound' BY <1>2, <2>1 DEF BootInv, SurfacesSound
  <2>5. (StartsWhole /\ BeforeServing /\ Serving /\ PublicOnly)'
    BY <1>0, <1>2, <2>1, <2>2 DEF StartsWhole, BeforeServing, Serving, PublicOnly
  <2> QED BY <2>3, <2>4, <2>5 DEF BootInv
<1>3. CASE /\ cfg[Enable[s]] = "true"
           /\ \E f \in Credentials :
               /\ tls
               /\ \A i \in DOMAIN f : CredLineOk(f[i])
               /\ ModeAllows(LegacyUsers(f))
               /\ HasStore(s)
               /\ Goto(next) /\ listening' = Bound(s, LegacyUsers(f))
               /\ UNCHANGED <<recipients, tls>>
  <2>0. PICK f \in Credentials :
               /\ tls /\ ModeAllows(LegacyUsers(f)) /\ HasStore(s)
               /\ Goto(next) /\ listening' = Bound(s, LegacyUsers(f))
               /\ UNCHANGED <<recipients, tls>>
    BY <1>3
  <2>1. /\ stage' = next /\ cfg' = cfg /\ cmd' = cmd /\ running' = running /\ handlers' = handlers
        /\ shutdown' = shutdown /\ broken' = broken /\ recipients' = recipients /\ tls' = tls
    BY <2>0 DEF Goto
  <2>2. /\ DOMAIN listening' = DOMAIN listening \cup {s} /\ listening'[s] = LegacyUsers(f)
        /\ \A x \in DOMAIN listening : listening'[x] = listening[x]
    BY <1>0, <2>0 DEF Bound
  <2>3. BoundSoFar' = BoundSoFar \cup {s}
    BY <1>3, <2>1 DEF BoundSoFar, Enabled, Legacy
  <2>4. BootTypeOK' BY <1>0, <2>1, <2>2 DEF BootInv, BootTypeOK
  <2>5. SurfaceSound(s)' BY <1>3, <2>0, <2>1, <2>2 DEF SurfaceSound, ModeAllows, HasStore
  <2>6. \A x \in DOMAIN listening : SurfaceSound(x)' BY <1>0, <2>1, <2>2 DEF SurfaceSound
  <2>7. SurfacesSound' BY <2>2, <2>5, <2>6 DEF SurfacesSound, SurfaceSound
  <2>8. (StartsWhole /\ BeforeServing /\ Serving /\ PublicOnly)'
    BY <1>0, <2>1, <2>2, <2>3 DEF StartsWhole, BeforeServing, Serving, PublicOnly
  <2> QED BY <2>4, <2>7, <2>8 DEF BootInv
<1> QED BY <1>0, <1>1, <1>2, <1>3 DEF build

LEMMA BindKeeps ==
    ASSUME BootInv, bind_mx \/ serve_public
    PROVE  BootInv'
<1>1. CASE Fail(1) BY <1>1, FailKeeps
<1>2. ASSUME bind_mx, ~Fail(1) PROVE BootInv'
  <2>1. /\ stage = "mx" /\ stage' = "serving" /\ listening' = Bound("mx", {}) /\ running' = Loops
        /\ UNCHANGED <<cmd, cfg, recipients, tls, handlers, shutdown, broken, code>>
    BY <1>2 DEF bind_mx
  <2>2. DOMAIN listening = Enabled(Legacy) /\ cmd # "public"
    BY <2>1 DEF BootInv, BeforeServing, BoundSoFar, PublicOnly
  <2>3. /\ DOMAIN listening' = Enabled(Legacy) \cup {"mx"} /\ running' = Enabled(Legacy) \cup {"mx"}
        /\ \A x \in Enabled(Legacy) : listening'[x] = listening[x]
    BY <2>1, <2>2 DEF Bound, Loops, Enabled, Legacy
  <2>4. Enabled(Legacy)' = Enabled(Legacy) /\ Enabled(Legacy) \subseteq Legacy BY <2>1 DEF Enabled
  <2>5. BootTypeOK' BY <2>1, <2>3, <2>4 DEF BootInv, BootTypeOK
  <2>6. SurfacesSound' BY <2>1, <2>2, <2>3, <2>4 DEF BootInv, SurfacesSound, Legacy
  <2>7. (BeforeServing /\ PublicOnly)' BY <2>1 DEF BeforeServing, PublicOnly
  <2>8. StartsWhole' BY <2>1, <2>3, <2>4 DEF StartsWhole, Enabled
  <2>9. Serving' BY <2>1, <2>2, <2>3, <2>4 DEF Serving
  <2> QED BY <2>5, <2>6, <2>7, <2>8, <2>9 DEF BootInv
<1>3. ASSUME serve_public, ~Fail(1) PROVE BootInv'
  <2>1. /\ stage = "public" /\ stage' = "serving" /\ tls' = TRUE /\ listening' = Bound("admin", {})
        /\ running' = {"admin"} /\ handlers' = TRUE
        /\ UNCHANGED <<cmd, cfg, recipients, shutdown, broken, code>>
    BY <1>3 DEF serve_public
  <2>2. DOMAIN listening = {} /\ cmd = "public"
    BY <2>1 DEF BootInv, BeforeServing, BoundSoFar, PublicOnly
  <2>3. DOMAIN listening' = {"admin"} BY <2>1, <2>2 DEF Bound
  <2>4. BootTypeOK' BY <2>1, <2>3 DEF BootInv, BootTypeOK
  <2>5. (SurfacesSound /\ StartsWhole /\ BeforeServing /\ Serving /\ PublicOnly)'
    BY <2>1, <2>2, <2>3 DEF SurfacesSound, StartsWhole, BeforeServing, Serving, PublicOnly, Legacy
  <2> QED BY <2>4, <2>5 DEF BootInv
<1> QED BY <1>1, <1>2, <1>3

(* The accept loops: one that returns saw the flag or leaves a failure.    *)
LEMMA ServeUntilKeeps ==
    ASSUME BootInv, NEW s, serve_until(s)
    PROVE  BootInv'
<1>1. /\ s \in running /\ running' = running \ {s}
      /\ UNCHANGED <<stage, cmd, cfg, recipients, tls, listening, handlers, shutdown, code>>
      /\ broken' \in BOOLEAN /\ (shutdown' \/ broken')
  BY DEF serve_until, Sees, BootInv, BootTypeOK
<1>2. stage = "serving" BY <1>1 DEF BootInv, BeforeServing
<1>3. BootTypeOK' BY <1>1 DEF BootInv, BootTypeOK
<1>4. SurfacesSound' BY <1>1 DEF BootInv, SurfacesSound
<1>5. (StartsWhole /\ BeforeServing /\ Serving /\ PublicOnly)'
  BY <1>1, <1>2 DEF BootInv, StartsWhole, BeforeServing, Serving, PublicOnly, Enabled
<1> QED BY <1>3, <1>4, <1>5 DEF BootInv

LEMMA SignalKeeps ==
    ASSUME BootInv, handle_signal
    PROVE  BootInv'
<1>1. CASE Fail(143) BY <1>1, FailKeeps
<1>2. CASE /\ shutdown' = TRUE
           /\ UNCHANGED <<stage, cmd, cfg, recipients, tls, listening, running, handlers, broken, code>>
  <2>1. BootTypeOK' /\ SurfacesSound' BY <1>2 DEF BootInv, BootTypeOK, SurfacesSound
  <2>2. (StartsWhole /\ BeforeServing /\ Serving /\ PublicOnly)'
    BY <1>2 DEF BootInv, StartsWhole, BeforeServing, BoundSoFar, Serving, PublicOnly, Enabled
  <2> QED BY <2>1, <2>2 DEF BootInv
<1> QED BY <1>1, <1>2 DEF handle_signal

LEMMA EarlyKeeps ==
    ASSUME BootInv, main \/ serve \/ load_directory \/ build_mesh \/ build_tls
    PROVE  BootInv'
<1>0. stage \in {"main", "config", "directory", "mesh", "tls"} /\ DOMAIN listening = {} /\ running = {}
  BY DEF main, serve, load_directory, build_mesh, build_tls, BootInv, BeforeServing, BoundSoFar
<1>1. ASSUME NEW c, Fail(c) PROVE BootInv' BY <1>1, FailKeeps
<1>2. ASSUME NEW c \in {"personal", "run", "public"}, cmd' = c, stage = "main",
             stage' = IF c = "public" THEN "public" ELSE "config",
             UNCHANGED <<cfg, recipients, tls, listening, running, handlers, shutdown, broken, code>>
      PROVE  BootInv'
  <2>1. BootTypeOK' BY <1>2 DEF BootInv, BootTypeOK
  <2>2. (SurfacesSound /\ StartsWhole /\ BeforeServing /\ Serving /\ PublicOnly)'
    BY <1>0, <1>2 DEF SurfacesSound, StartsWhole, BeforeServing, Serving, PublicOnly, BoundSoFar
  <2> QED BY <2>1, <2>2 DEF BootInv
<1>3. CASE main BY <1>1, <1>2, <1>3 DEF main
<1>4. CASE serve
  <2>1. /\ stage = "config" /\ stage' = "directory" /\ handlers' = TRUE
        /\ UNCHANGED <<cmd, cfg, recipients, tls, listening, running, shutdown, broken, code>>
    BY <1>4 DEF serve
  <2>2. BootTypeOK' BY <2>1 DEF BootInv, BootTypeOK
  <2>3. (SurfacesSound /\ StartsWhole /\ BeforeServing /\ Serving /\ PublicOnly)'
    BY <1>0, <2>1 DEF BootInv, SurfacesSound, StartsWhole, BeforeServing, Serving, PublicOnly, BoundSoFar
  <2> QED BY <2>2, <2>3 DEF BootInv
<1>5. tls \in BOOLEAN BY DEF BootInv, BootTypeOK
<1>6. CASE load_directory
  <2>1. stage = "directory" BY <1>6 DEF load_directory
  <2>2. Fail(1) \/ (Goto("mesh") /\ UNCHANGED <<tls, listening>>) BY <1>6 DEF load_directory
  <2> QED BY <1>0, <1>1, <1>5, <2>1, <2>2, GotoKeeps
<1>7. CASE build_mesh
  <2>1. stage = "mesh" BY <1>7 DEF build_mesh
  <2>2. Fail(1) \/ (Goto("tls") /\ UNCHANGED <<tls, listening>>) BY <1>7 DEF build_mesh
  <2> QED BY <1>0, <1>1, <1>5, <2>1, <2>2, GotoKeeps
<1>8. CASE build_tls
  <2>1. stage = "tls" BY <1>8 DEF build_tls
  <2>2. Fail(1) \/ (Goto("imap") /\ listening' = listening /\ tls' \in BOOLEAN)
    BY <1>5, <1>8 DEF build_tls
  <2> QED BY <1>0, <1>1, <2>1, <2>2, GotoKeeps
<1> QED BY <1>3, <1>4, <1>6, <1>7, <1>8

LEMMA BootStepKeeps ==
    ASSUME BootInv, [BootNext]_bootVars
    PROVE  BootInv'
<1>1. CASE UNCHANGED bootVars
  BY <1>1 DEF bootVars, BootInv, BootTypeOK, SurfacesSound, StartsWhole, BeforeServing, BoundSoFar,
              Serving, PublicOnly, Enabled
<1>2. CASE build_imap \/ build_pop3 \/ build_submission
  <2>1. CASE build_imap BY <2>1, BuildKeeps DEF build_imap, Legacy
  <2>2. CASE build_pop3 BY <2>2, BuildKeeps DEF build_pop3, Legacy
  <2>3. CASE build_submission BY <2>3, BuildKeeps DEF build_submission, Legacy
  <2> QED BY <1>2, <2>1, <2>2, <2>3
<1>3. CASE join BY <1>3, EndsKeep DEF join
<1> QED BY <1>1, <1>2, <1>3, EarlyKeeps, BindKeeps, ParseLineKeeps, FromEnvKeeps, SignalKeeps,
           ServeUntilKeeps DEF BootNext, Start

(* The daemon serves what was configured and is permitted, all of it, or   *)
(* nothing, for every configuration (main.rs, personal.rs).                *)
THEOREM DaemonServesWhole == BootSpec => []ServesWhole
<1>1. BootInv => ServesWhole BY DEF BootInv, ServesWhole
<1> QED BY <1>1, BootInitInv, BootStepKeeps, PTL DEF BootSpec
-----------------------------------------------------------------------------
(* The sessions.  What one handler keeps: a session that believes in TLS   *)
(* runs over TLS, or is on its way there with nothing left to read.        *)
Sessions == [tls : BOOLEAN, user : {"none", "tls"}, rcpts : SUBSET Rcpts, data : BOOLEAN]
HandlerStages == {"none", "handshake", "read", "reply", "route", "write", "upgrade", "closed"}
Handlers == [surface : Surfaces \cup {"none"}, stage : HandlerStages, transport : {"plain", "tls", "taken"},
             secured : BOOLEAN, buf : Seq(Item), sess : Sessions, upgrade : BOOLEAN, quit : BOOLEAN,
             ok : BOOLEAN, todo : SUBSET Rcpts, env : SUBSET Rcpts, msg : Nat, n : Nat]

SessionOK(s) == (s.user # "none" => s.tls) /\ (s.data => s.rcpts # {})
OverTls(r) == r.transport = "tls" /\ r.secured /\ \A i \in 1..Len(r.buf) : r.buf[i].layer = "tls"
TransportOK(r) ==
    /\ r.transport = "tls" \/ r.secured => OverTls(r) /\ r.sess.tls
    /\ r.stage \in {"read", "route", "write"} /\ r.sess.tls => r.transport = "tls"
    /\ r.stage = "reply" /\ r.sess.tls => r.transport = "tls" \/ (r.upgrade /\ r.ok)
    /\ r.stage = "reply" /\ r.upgrade => ~r.secured /\ (r.ok => r.sess.tls)
    /\ r.stage \in {"route", "write"} => ~r.upgrade
    /\ r.stage = "upgrade" => r.sess.tls /\ ~r.secured
    /\ r.stage = "handshake" => r.sess.tls /\ r.buf = <<>>
MessageOK(r) == /\ r.stage \in {"route", "write"} <=> r.msg # 0
                /\ r.msg # 0 => r.env # {} /\ r.todo \subseteq r.env
HandlerOK(r) == /\ r.stage \notin {"none", "closed"} => r.surface \in Surfaces
                /\ SessionOK(r.sess) /\ TransportOK(r) /\ MessageOK(r)

ClientKinds == [Conns -> [surfaces : SUBSET Surfaces, ahead : Nat, script : Seq(SUBSET Item)]]
AccTyped == /\ client \in ClientKinds /\ conn \in [Conns -> Handlers] /\ wire \in [Conns -> Seq(Item)]
            /\ active \in [Surfaces -> Nat] /\ spool_seq \in Nat /\ exited \in BOOLEAN
HandlersInv == AccTyped /\ \A c \in Conns : HandlerOK(conn[c])

(* A session that has just begun.                                          *)
LEMMA NewSessionOK ==
    ASSUME NEW s
    PROVE  /\ NewSession(s) \in Sessions /\ SessionOK(NewSession(s))
           /\ NewSession(s).tls <=> s \in Implicit
           /\ NewSession(s).user = "none" /\ NewSession(s).rcpts = {} /\ ~NewSession(s).data
<1>1. /\ NewSession(s).tls <=> s \in Implicit
      /\ NewSession(s).user = "none" /\ NewSession(s).rcpts = {} /\ ~NewSession(s).data
  BY DEF NewSession
<1>2. NewSession(s) \in Sessions BY DEF NewSession, Sessions
<1> QED BY <1>1, <1>2 DEF SessionOK

LEMMA NoneExplicit == "none" \notin Implicit
BY AccessAssumption DEF Surfaces

(* The handler that has not begun, and the one that is gone.               *)
LEMMA IdleOK == /\ Idle \in Handlers /\ HandlerOK(Idle) /\ Closed \in Handlers /\ HandlerOK(Closed)
                /\ Idle.msg = 0 /\ Closed.msg = 0 /\ Idle.stage = "none" /\ Closed.stage = "closed"
<1>1. ASSUME NEW s \in {"none", "closed"}, NEW r,
             r = [surface |-> "none", stage |-> s, transport |-> "plain", secured |-> FALSE,
             buf |-> <<>>, sess |-> NewSession("none"), upgrade |-> FALSE, quit |-> FALSE,
             ok |-> FALSE, todo |-> {}, env |-> {}, msg |-> 0, n |-> 0]
      PROVE  r \in Handlers /\ HandlerOK(r) /\ r.stage = s /\ r.msg = 0
  <2>1. r \in Handlers BY <1>1, NewSessionOK DEF Handlers, HandlerStages
  <2>2. HandlerOK(r) BY <1>1, NewSessionOK, NoneExplicit DEF HandlerOK, TransportOK, MessageOK
  <2> QED BY <1>1, <2>1, <2>2
<1>2. Idle \in Handlers /\ HandlerOK(Idle) /\ Idle.stage = "none" /\ Idle.msg = 0 BY <1>1 DEF Idle
<1>3. /\ Idle.transport = "plain" /\ ~Idle.secured /\ Idle.msg = 0 BY DEF Idle
<1>4. /\ Closed \in Handlers /\ Closed.stage = "closed" /\ Closed.transport = "plain" /\ ~Closed.secured
      /\ Closed.msg = 0 /\ Closed.sess = Idle.sess
  BY <1>2, <1>3 DEF Closed, Handlers, HandlerStages
<1>5. HandlerOK(Closed) BY <1>2, <1>4 DEF HandlerOK, TransportOK, MessageOK
<1> QED BY <1>2, <1>4, <1>5

(* What the external session does with one line.                           *)
LEMMA SessionKeeps ==
    ASSUME NEW p, NEW s \in Sessions, NEW l \in Item, SessionOK(s), s.tls => l.layer = "tls",
           NEW r, r = Session(p, s, l)
    PROVE  /\ r.ok \in BOOLEAN /\ r.s \in Sessions /\ SessionOK(r.s)
           /\ s.tls => r.s.tls
           /\ r.s.tls /\ ~s.tls => l.verb = "STARTTLS" /\ r.ok
           /\ l.verb = "STARTTLS" /\ r.ok => r.s.tls /\ ~s.tls
           /\ s.data /\ l.verb = "." => r.s = [s EXCEPT !.data = FALSE]
<1>0. s.tls \in BOOLEAN /\ s.data \in BOOLEAN /\ l.rcpts \in SUBSET Rcpts BY DEF Sessions, Item
<1>1. CASE s.data
  <2>1. r = [ok |-> l.verb = ".", s |-> [s EXCEPT !.data = l.verb # "."]] BY <1>1 DEF Session
  <2>2. PICK b \in BOOLEAN : b = (l.verb # ".") OBVIOUS
  <2>2a. r.s = [s EXCEPT !.data = b] BY <2>1, <2>2
  <2>2b. r.ok \in BOOLEAN /\ (r.ok <=> l.verb = ".")
    <3>1. r.ok = (l.verb = ".") BY <2>1
    <3> QED BY <3>1
  <2>3. r.s = [s EXCEPT !.data = b] /\ (r.ok <=> ~b) /\ r.ok \in BOOLEAN BY <2>2, <2>2a, <2>2b
  <2>4. /\ r.s \in Sessions /\ r.s.data = b /\ r.s.tls = s.tls /\ r.s.user = s.user /\ r.s.rcpts = s.rcpts
    BY <2>3 DEF Sessions
  <2>5. SessionOK(r.s) BY <1>1, <2>4 DEF SessionOK
  <2>6. l.verb = "." => r.s = [s EXCEPT !.data = FALSE] BY <2>2, <2>3
  <2> QED BY <1>0, <1>1, <2>2, <2>3, <2>4, <2>5, <2>6
<1>2. CASE ~s.data /\ l.verb = "STARTTLS"
  <2>1. r = [ok |-> ~s.tls, s |-> IF s.tls THEN s ELSE [NewSession("none") EXCEPT !.tls = TRUE]]
    BY <1>2 DEF Session
  <2>2. CASE s.tls BY <1>0, <1>2, <2>1, <2>2
  <2>3. CASE ~s.tls
    <3>0. r.s = [NewSession("none") EXCEPT !.tls = TRUE] BY <2>1, <2>3
    <3>0a. r.ok \in BOOLEAN /\ (r.ok <=> ~s.tls)
      <4>1. r.ok = (~s.tls) BY <2>1
      <4> QED BY <4>1
    <3>1. r.ok \in BOOLEAN /\ r.ok /\ r.s = [NewSession("none") EXCEPT !.tls = TRUE] BY <2>3, <3>0, <3>0a
    <3>2. r.s \in Sessions /\ r.s.tls = TRUE /\ r.s.user = "none" /\ ~r.s.data
      BY <3>1, NewSessionOK DEF Sessions
    <3> QED BY <1>2, <2>3, <3>1, <3>2 DEF SessionOK
  <2> QED BY <2>2, <2>3
<1>3. CASE ~s.data /\ l.verb = "AUTH"
  <2>1. r = [ok |-> s.tls, s |-> IF s.tls THEN [s EXCEPT !.user = l.layer] ELSE s]
    BY <1>3 DEF Session
  <2>2. CASE s.tls
    <3>1. r.ok = TRUE /\ r.s = [s EXCEPT !.user = "tls"] BY <1>0, <2>1, <2>2
    <3>2. r.s \in Sessions /\ r.s.tls = s.tls /\ r.s.data = s.data BY <3>1 DEF Sessions
    <3> QED BY <1>3, <2>2, <3>1, <3>2 DEF SessionOK
  <2>3. CASE ~s.tls BY <1>0, <1>3, <2>1, <2>3
  <2> QED BY <2>2, <2>3
<1>4. CASE ~s.data /\ l.verb = "MAIL" /\ p = "smtp"
  <2>1. r = [ok |-> s.user # "none", s |-> IF s.user # "none" THEN [s EXCEPT !.rcpts = l.rcpts] ELSE s]
    BY <1>4 DEF Session
  <2>2. CASE s.user # "none"
    <3>0. r.ok \in BOOLEAN /\ (r.ok <=> s.user # "none")
      <4>1. r.ok = (s.user # "none") BY <2>1
      <4> QED BY <4>1
    <3>1. r.ok \in BOOLEAN /\ r.ok /\ r.s = [s EXCEPT !.rcpts = l.rcpts] BY <2>1, <2>2, <3>0
    <3>2. r.s \in Sessions /\ r.s.tls = s.tls /\ r.s.data = s.data /\ r.s.user = s.user
      BY <1>0, <3>1 DEF Sessions
    <3> QED BY <1>4, <3>1, <3>2 DEF SessionOK
  <2>3. CASE s.user = "none" BY <1>0, <1>4, <2>1, <2>3
  <2> QED BY <2>2, <2>3
<1>5. CASE ~s.data /\ l.verb = "DATA"
  <2>1. r = [ok |-> s.rcpts # {}, s |-> [s EXCEPT !.data = s.rcpts # {}]] BY <1>5 DEF Session
  <2>2. PICK b \in BOOLEAN : b = (s.rcpts # {}) OBVIOUS
  <2>3. r.s = [s EXCEPT !.data = b] /\ r.ok \in BOOLEAN BY <2>1, <2>2
  <2>4. r.s \in Sessions /\ r.s.data = b /\ r.s.tls = s.tls /\ r.s.user = s.user /\ r.s.rcpts = s.rcpts
    BY <2>3 DEF Sessions
  <2> QED BY <1>5, <2>2, <2>3, <2>4 DEF SessionOK
<1>6. CASE ~s.data /\ l.verb \notin {"STARTTLS", "AUTH", "DATA"} /\ ~(l.verb = "MAIL" /\ p = "smtp")
  <2>1. r = [ok |-> FALSE, s |-> s] BY <1>6 DEF Session
  <2> QED BY <1>0, <1>6, <2>1
<1> QED BY <1>1, <1>2, <1>3, <1>4, <1>5, <1>6

-----------------------------------------------------------------------------
(* What the messages keep.  A message in the hands of a handler is its own *)
(* and has reached the sink for the recipients that are not still to do;   *)
(* an acknowledged one is in nobody's hands.  The numbers given out are    *)
(* the first so many, so the next one is new.                              *)
HandedTo(m) == {h.rcpt : h \in {g \in handed : g.msg = m}}
Numbered == ~exited => \E k \in Nat : Msgs = 1..k
OwnMessage == \A c, d \in Conns : (conn[c].msg = conn[d].msg /\ conn[c].msg # 0) => c = d
HandedSoFar == \A c \in Conns : conn[c].msg # 0 => HandedTo(conn[c].msg) = conn[c].env \ conn[c].todo
AckedAll == \A m \in acked : /\ HandedTo(m.msg) = m.rcpts /\ m.rcpts # {} /\ m.msg # 0
                             /\ \A c \in Conns : conn[c].msg # m.msg
HandedNumbered == \A h \in handed : h.msg \in Nat \ {0}
MessagesInv == Numbered /\ OwnMessage /\ HandedSoFar /\ AckedAll /\ HandedNumbered

(* What the spool keeps.  Every number drawn is behind the counter, and    *)
(* the one a handler is about to use is on no file and no other handler's. *)
Writing(c) == conn[c].stage = "write"
NumbersDrawn == /\ \A x \in DOMAIN spool : x[1] \in Nat /\ x[1] < spool_seq
                /\ \A c \in Conns : Writing(c) => conn[c].n < spool_seq
                /\ \A c, d \in Conns : Writing(c) /\ Writing(d) /\ conn[c].n = conn[d].n => c = d
                /\ \A c \in Conns, x \in DOMAIN spool : Writing(c) => x[1] # conn[c].n
SpoolInv == NumbersDrawn /\ SpoolKeepsAll

(* The slots.                                                              *)
On(s) == {c \in Conns : Live(c) /\ conn[c].surface = s}
SlotsInv == \A s \in Surfaces : active[s] = Cardinality(On(s)) /\ active[s] <= MaxConns[s]

AccInv == HandlersInv /\ MessagesInv /\ SpoolInv /\ SlotsInv

(* Steps that move one handler.                                            *)
LEMMA HandlerMoves ==
    ASSUME HandlersInv, NEW c \in Conns, NEW r \in Handlers, HandlerOK(r), Become(c, r),
           client' \in ClientKinds, wire' \in [Conns -> Seq(Item)], active' \in [Surfaces -> Nat],
           spool_seq' \in Nat, exited' \in BOOLEAN
    PROVE  /\ HandlersInv' /\ conn'[c] = r /\ \A d \in Conns \ {c} : conn'[d] = conn[d]
<1>1. conn'[c] = r /\ (\A d \in Conns \ {c} : conn'[d] = conn[d]) /\ conn' \in [Conns -> Handlers]
  BY DEF HandlersInv, AccTyped, Become
<1>2. AccTyped' BY <1>1 DEF AccTyped
<1>3. \A d \in Conns : HandlerOK(conn'[d]) BY <1>1 DEF HandlersInv
<1> QED BY <1>1, <1>2, <1>3 DEF HandlersInv

(* Steps that hand nothing over: a message may only leave its handler once *)
(* the sink has seen it.                                                   *)
LEMMA MessagesKept ==
    ASSUME MessagesInv, handed' = handed, acked' = acked, exited' = exited,
           NEW c \in Conns, \A d \in Conns \ {c} : conn'[d] = conn[d],
           \/ conn'[c].msg = conn[c].msg /\ (conn[c].msg # 0 => conn'[c].env = conn[c].env /\ conn'[c].todo = conn[c].todo)
           \/ conn'[c].msg = 0 /\ \E h \in handed : h.msg = conn[c].msg
    PROVE  MessagesInv'
<1>1. Msgs' = Msgs
  <2>1. \A m : m # 0 => ((\E d \in Conns : conn'[d].msg = m) => (\E d \in Conns : conn[d].msg = m))
    OBVIOUS
  <2>2. \A m : (m # 0 /\ \E d \in Conns : conn[d].msg = m) =>
                  ((\E h \in handed : h.msg = m) \/ \E d \in Conns : conn'[d].msg = m)
    OBVIOUS
  <2>3. \A m : m \in Msgs' <=> (m # 0 /\ ((\E h \in handed : h.msg = m) \/ \E d \in Conns : conn'[d].msg = m))
    BY DEF Msgs
  <2>4. \A m : m \in Msgs <=> (m # 0 /\ ((\E h \in handed : h.msg = m) \/ \E d \in Conns : conn[d].msg = m))
    BY DEF Msgs
  <2> QED BY <2>1, <2>2, <2>3, <2>4
<1>2. \A d \in Conns : conn'[d].msg \in {0, conn[d].msg} OBVIOUS
<1>3. \A m : HandedTo(m)' = HandedTo(m) BY DEF HandedTo
<1>4. Numbered' BY <1>1 DEF MessagesInv, Numbered
<1>5. OwnMessage' BY <1>2 DEF MessagesInv, OwnMessage
<1>6. HandedSoFar' BY <1>2, <1>3 DEF MessagesInv, HandedSoFar
<1>7. AckedAll' BY <1>2, <1>3 DEF MessagesInv, AckedAll
<1>8. HandedNumbered' BY DEF MessagesInv, HandedNumbered
<1> QED BY <1>4, <1>5, <1>6, <1>7, <1>8 DEF MessagesInv

(* Steps that draw no number and write no file.                            *)
LEMMA SpoolKept ==
    ASSUME SpoolInv, handed' = handed, spool' = spool, spool_seq' = spool_seq,
           \A d \in Conns : Writing(d)' => Writing(d) /\ conn'[d].n = conn[d].n
    PROVE  SpoolInv'
<1>1. NumbersDrawn' BY DEF SpoolInv, NumbersDrawn
<1>2. SpoolKeepsAll' BY DEF SpoolInv, SpoolKeepsAll
<1> QED BY <1>1, <1>2 DEF SpoolInv

(* Steps that start or end no handler.                                     *)
LEMMA SlotsKept ==
    ASSUME SlotsInv, active' = active,
           \A d \in Conns : (Live(d)' <=> Live(d)) /\ (Live(d) => conn'[d].surface = conn[d].surface)
    PROVE  SlotsInv'
<1>1. \A s : On(s)' = On(s) BY DEF On
<1> QED BY <1>1 DEF SlotsInv

(* A handler that starts or ends moves one slot of its surface.            *)
LEMMA OnFinite ==
    ASSUME NEW s
    PROVE  IsFiniteSet(On(s)) /\ Cardinality(On(s)) \in Nat
<1>1. IsFiniteSet(Conns) BY AccessAssumption
<1>2. On(s) \subseteq Conns BY DEF On
<1> QED BY <1>1, <1>2, FS_Subset, FS_CardinalityType

LEMMA ReturnSlots ==
    ASSUME HandlersInv, SlotsInv, NEW c \in Conns, Live(c), Return(c)
    PROVE  SlotsInv' /\ active' \in [Surfaces -> Nat]
<1> PICK f : f = conn[c].surface OBVIOUS
<1>0. /\ f \in Surfaces /\ active \in [Surfaces -> Nat] /\ conn \in [Conns -> Handlers]
  BY DEF HandlersInv, AccTyped, HandlerOK, Live
<1>1. conn'[c] = Closed /\ \A d \in Conns \ {c} : conn'[d] = conn[d] BY <1>0 DEF Return
<1>2. ~Live(c)' BY <1>1, IdleOK DEF Live
<1>3. \A s : s # f => On(s)' = On(s) BY <1>1, <1>2 DEF On, Live
<1>4. c \in On(f) /\ On(f)' = On(f) \ {c} BY <1>1, <1>2 DEF On, Live
<1>5. Cardinality(On(f))' = Cardinality(On(f)) - 1 /\ Cardinality(On(f)) >= 1
  BY <1>4, OnFinite, FS_RemoveElement, FS_EmptySet
<1>6. active' = [active EXCEPT ![f] = @ - 1] BY DEF Return
<1>7. active[f] = Cardinality(On(f)) /\ active[f] \in Nat /\ active[f] >= 1
  BY <1>0, <1>5 DEF SlotsInv
<1>8. active'[f] = active[f] - 1 /\ (\A s \in Surfaces \ {f} : active'[s] = active[s])
      /\ active' \in [Surfaces -> Nat]
  BY <1>0, <1>6, <1>7
<1>9. MaxConns[f] \in Nat BY <1>0, AccessAssumption
<1>10. active'[f] = Cardinality(On(f))' /\ active'[f] <= MaxConns[f]
  BY <1>0, <1>5, <1>7, <1>8, <1>9 DEF SlotsInv
<1> QED BY <1>3, <1>8, <1>10 DEF SlotsInv

(* A handler returns: what it held is in the sink or was never a message.  *)
LEMMA ReturnKeeps ==
    ASSUME AccInv, ~exited, NEW c \in Conns, Live(c), Return(c), ~Writing(c),
           conn[c].msg # 0 => \E h \in handed : h.msg = conn[c].msg
    PROVE  AccInv'
<1>1. /\ SlotsInv' /\ active' \in [Surfaces -> Nat] BY ReturnSlots DEF AccInv
<1>2. wire' \in [Conns -> Seq(Item)] BY DEF Return, AccInv, HandlersInv, AccTyped
<1>3. /\ HandlersInv' /\ conn'[c] = Closed /\ \A d \in Conns \ {c} : conn'[d] = conn[d]
  BY <1>1, <1>2, IdleOK, HandlerMoves DEF Return, Become, AccInv, HandlersInv, AccTyped
<1>4. MessagesInv' BY <1>3, IdleOK, MessagesKept DEF AccInv, Return
<1>5. SpoolInv'
  <2>1. \A d \in Conns : Writing(d)' => Writing(d) /\ conn'[d].n = conn[d].n
    BY <1>3, IdleOK DEF Writing
  <2> QED BY <2>1, SpoolKept DEF AccInv, Return
<1> QED BY <1>1, <1>3, <1>4, <1>5 DEF AccInv

(* A live handler moves to another stage, keeping its message if it has    *)
(* one, and reads from the wire.                                           *)
LEMMA MoveKeeps ==
    ASSUME AccInv, NEW c \in Conns, Live(c), NEW r \in Handlers, HandlerOK(r), Become(c, r),
           r.surface = conn[c].surface, r.stage \notin {"none", "closed", "write"},
           \/ r.msg = conn[c].msg /\ (r.msg # 0 => r.env = conn[c].env /\ r.todo = conn[c].todo)
           \/ r.msg = 0 /\ \E h \in handed : h.msg = conn[c].msg,
           wire' \in [Conns -> Seq(Item)],
           UNCHANGED <<client, active, spool_seq, spool, handed, acked, exited>>
    PROVE  AccInv'
<1>1. /\ HandlersInv' /\ conn'[c] = r /\ \A d \in Conns \ {c} : conn'[d] = conn[d]
  BY HandlerMoves DEF AccInv, HandlersInv, AccTyped
<1>2. MessagesInv' BY <1>1, MessagesKept DEF AccInv
<1>3. SpoolInv'
  <2>1. \A d \in Conns : Writing(d)' => Writing(d) /\ conn'[d].n = conn[d].n BY <1>1 DEF Writing
  <2> QED BY <2>1, SpoolKept DEF AccInv
<1>4. \A d \in Conns : (Live(d)' <=> Live(d)) /\ (Live(d) => conn'[d].surface = conn[d].surface)
  BY <1>1 DEF Live
<1>5. SlotsInv' BY <1>4, SlotsKept DEF AccInv
<1> QED BY <1>1, <1>2, <1>3, <1>5 DEF AccInv

LEMMA SendKeeps ==
    ASSUME AccInv, NEW c \in Conns, Send(c)
    PROVE  AccInv'
<1>1. PICK i \in Head(client[c].script) : wire' = [wire EXCEPT ![c] = Append(@, i)] BY DEF Send
<1>2. client[c].script \in Seq(SUBSET Item) /\ client[c].script # <<>> /\ client \in ClientKinds
  BY DEF Send, AccInv, HandlersInv, AccTyped, ClientKinds
<1>3. i \in Item /\ Tail(client[c].script) \in Seq(SUBSET Item) BY <1>2
<1>4. wire' \in [Conns -> Seq(Item)] BY <1>1, <1>3 DEF AccInv, HandlersInv, AccTyped
<1>5. client' \in ClientKinds
  <2>1. client' = [client EXCEPT ![c] = [client[c] EXCEPT !.script = Tail(client[c].script)]]
    BY DEF Send
  <2> QED BY <1>2, <1>3, <2>1 DEF ClientKinds
<1>6. conn' = conn /\ UNCHANGED <<active, spool_seq, spool, handed, acked, exited>> BY DEF Send
<1>7. HandlersInv' BY <1>4, <1>5, <1>6 DEF AccInv, HandlersInv, AccTyped
<1>8. MessagesInv' BY <1>6, MessagesKept DEF AccInv
<1>9. SpoolInv' BY <1>6, SpoolKept DEF AccInv, Writing
<1>10. SlotsInv' BY <1>6, SlotsKept DEF AccInv, Live
<1> QED BY <1>7, <1>8, <1>9, <1>10 DEF AccInv

LEMMA AcceptKeeps ==
    ASSUME AccInv, NEW c \in Conns, NEW s \in Surfaces, accept(c, s)
    PROVE  AccInv'
<1>0. /\ conn[c].stage = "none" /\ conn[c].msg = 0 /\ ~Live(c) /\ ~Writing(c)
      /\ conn \in [Conns -> Handlers] /\ active \in [Surfaces -> Nat]
      /\ UNCHANGED <<client, wire, spool_seq, spool, handed, acked, exited>>
  BY DEF accept, AccInv, HandlersInv, AccTyped, HandlerOK, MessageOK, Live, Writing
<1>1. PICK r \in {Opened(s), Closed} :
        Become(c, r) /\ (r = Opened(s) => try_acquire(s) /\ active' = [active EXCEPT ![s] = @ + 1])
                     /\ (r = Closed => active' = active)
  <2>1. Opened(s) # Closed
    <3>1. Opened(s).stage \in {"handshake", "read"} BY DEF Opened, Idle
    <3> QED BY <3>1, IdleOK
  <2> QED BY <2>1 DEF accept, Become
<1>2. /\ Opened(s) \in Handlers /\ HandlerOK(Opened(s)) /\ Opened(s).surface = s /\ Opened(s).msg = 0
      /\ Opened(s).stage \in {"handshake", "read"}
  <2>1. /\ Opened(s).surface = s /\ Opened(s).msg = 0 /\ Opened(s).sess = NewSession(s)
        /\ Opened(s).stage = (IF s \in Implicit THEN "handshake" ELSE "read")
        /\ Opened(s).transport = "plain" /\ ~Opened(s).secured /\ Opened(s).buf = <<>>
    BY DEF Opened, Idle
  <2>2. Opened(s) \in Handlers
    <3>1. PICK b \in BOOLEAN : b = (s \in Implicit)
      <4>1. (s \in Implicit) \in BOOLEAN OBVIOUS
      <4> WITNESS (s \in Implicit) \in BOOLEAN
      <4> QED OBVIOUS
    <3>2. PICK st \in HandlerStages : st = (IF s \in Implicit THEN "handshake" ELSE "read") BY DEF HandlerStages
    <3>3. PICK z \in Sessions : z = NewSession(s) BY NewSessionOK
    <3>4. Opened(s) = [Idle EXCEPT !.surface = s, !.sess = z, !.stage = st, !.upgrade = b]
      BY <3>1, <3>2, <3>3 DEF Opened
    <3>5. Idle \in Handlers BY IdleOK
    <3> QED BY <3>4, <3>5 DEF Handlers
  <2>3. HandlerOK(Opened(s)) BY <2>1, NewSessionOK DEF HandlerOK, TransportOK, MessageOK
  <2> QED BY <2>1, <2>2, <2>3
<1>3. active' \in [Surfaces -> Nat] BY <1>0, <1>1
<1>4. r \in Handlers /\ HandlerOK(r) /\ r.msg = 0 /\ r.stage # "write" BY <1>2, IdleOK
<1>5. HandlersInv' /\ conn'[c] = r /\ \A d \in Conns \ {c} : conn'[d] = conn[d]
  BY <1>0, <1>1, <1>3, <1>4, HandlerMoves DEF AccInv, HandlersInv, AccTyped
<1>6. MessagesInv' BY <1>0, <1>4, <1>5, MessagesKept DEF AccInv
<1>7. SpoolInv'
  <2>1. \A d \in Conns : Writing(d)' => Writing(d) /\ conn'[d].n = conn[d].n BY <1>4, <1>5 DEF Writing
  <2> QED BY <1>0, <2>1, SpoolKept DEF AccInv
<1>8. SlotsInv'
  <2>1. CASE r = Closed
    <3>1. \A d \in Conns : (Live(d)' <=> Live(d)) /\ (Live(d) => conn'[d].surface = conn[d].surface)
      BY <1>0, <1>5, <2>1, IdleOK DEF Live
    <3> QED BY <1>1, <2>1, <3>1, SlotsKept DEF AccInv
  <2>2. CASE r = Opened(s)
    <3>1. Live(c)' /\ conn'[c].surface = s BY <1>2, <1>5, <2>2 DEF Live
    <3>2. c \notin On(s) /\ On(s)' = On(s) \cup {c} BY <1>0, <1>5, <3>1 DEF On, Live
    <3>3. \A f : f # s => On(f)' = On(f) BY <1>0, <1>5, <3>1 DEF On, Live
    <3>4. Cardinality(On(s))' = Cardinality(On(s)) + 1 BY <3>2, OnFinite, FS_AddElement
    <3>5. active'[s] = active[s] + 1 /\ \A f \in Surfaces \ {s} : active'[f] = active[f]
      BY <1>0, <1>1, <2>2
    <3>6. active[s] < MaxConns[s] /\ MaxConns[s] \in Nat /\ active[s] \in Nat /\ active[s] = Cardinality(On(s))
      BY <1>0, <1>1, <2>2, AccessAssumption DEF try_acquire, AccInv, SlotsInv
    <3>7. active'[s] = Cardinality(On(s))' /\ active'[s] <= MaxConns[s] BY <3>4, <3>5, <3>6
    <3> QED BY <3>3, <3>5, <3>7 DEF AccInv, SlotsInv
  <2> QED BY <1>1, <2>1, <2>2
<1> QED BY <1>5, <1>6, <1>7, <1>8 DEF AccInv

(* A live handler, seen field by field.                                    *)
LEMMA HandlerFacts ==
    ASSUME AccInv, NEW c \in Conns
    PROVE  /\ conn[c] \in Handlers /\ HandlerOK(conn[c]) /\ conn \in [Conns -> Handlers]
           /\ wire[c] \in Seq(Item) /\ wire \in [Conns -> Seq(Item)]
BY DEF AccInv, HandlersInv, AccTyped

LEMMA HandshakeKeeps ==
    ASSUME AccInv, NEW c \in Conns, handshake(c)
    PROVE  AccInv'
<1>0. /\ ~exited /\ conn[c].stage = "handshake" /\ wire[c] # <<>> /\ Live(c) /\ ~Writing(c) /\ conn[c].msg = 0
  BY HandlerFacts DEF handshake, Live, Writing, HandlerOK, MessageOK
<1>1. CASE Return(c) BY <1>0, <1>1, ReturnKeeps
<1>2. CASE /\ Become(c, [conn[c] EXCEPT !.stage = "read", !.transport = "tls",
                                       !.secured = TRUE, !.upgrade = FALSE])
           /\ wire' = [wire EXCEPT ![c] = Tail(@)]
           /\ UNCHANGED <<client, active, spool_seq, spool, handed, acked, exited>>
  <2>1. PICK r : r = [conn[c] EXCEPT !.stage = "read", !.transport = "tls", !.secured = TRUE, !.upgrade = FALSE]
    OBVIOUS
  <2>2. /\ r \in Handlers /\ r.stage = "read" /\ r.transport = "tls" /\ r.secured = TRUE
        /\ r.surface = conn[c].surface /\ r.sess = conn[c].sess /\ r.buf = conn[c].buf
        /\ r.msg = conn[c].msg /\ r.env = conn[c].env /\ r.todo = conn[c].todo
    BY <2>1, HandlerFacts DEF Handlers, HandlerStages
  <2>3. conn[c].sess.tls /\ conn[c].buf = <<>> /\ conn[c].surface \in Surfaces /\ SessionOK(conn[c].sess)
    BY <1>0, HandlerFacts DEF HandlerOK, TransportOK
  <2>4. OverTls(r) BY <2>2, <2>3 DEF OverTls
  <2>5. HandlerOK(r) BY <1>0, <2>2, <2>3, <2>4 DEF HandlerOK, TransportOK, MessageOK
  <2>6. wire' \in [Conns -> Seq(Item)] BY <1>0, <1>2, HandlerFacts
  <2> QED BY <1>0, <1>2, <2>1, <2>2, <2>5, <2>6, MoveKeeps
<1> QED BY <1>1, <1>2 DEF handshake

LEMMA FillKeeps ==
    ASSUME AccInv, NEW c \in Conns, fill_buf(c)
    PROVE  AccInv'
<1>0. /\ ~exited /\ conn[c].stage = "read" /\ Live(c) /\ ~Writing(c) /\ conn[c].msg = 0
  BY HandlerFacts DEF fill_buf, Live, Writing, HandlerOK, MessageOK
<1>1. CASE Return(c) BY <1>0, <1>1, ReturnKeeps
<1>2. CASE \E k \in 1..Len(wire[c]) :
            /\ Readable(c, k)
            /\ Become(c, [conn[c] EXCEPT !.buf = SubSeq(wire[c], 1, k)])
            /\ wire' = [wire EXCEPT ![c] = SubSeq(@, k + 1, Len(@))]
            /\ UNCHANGED <<client, active, spool_seq, spool, handed, acked, exited>>
  <2>0. PICK k \in 1..Len(wire[c]) :
            /\ Readable(c, k)
            /\ Become(c, [conn[c] EXCEPT !.buf = SubSeq(wire[c], 1, k)])
            /\ wire' = [wire EXCEPT ![c] = SubSeq(@, k + 1, Len(@))]
            /\ UNCHANGED <<client, active, spool_seq, spool, handed, acked, exited>>
    BY <1>2
  <2> DEFINE b == SubSeq(wire[c], 1, k)
  <2>1. /\ b \in Seq(Item) /\ b = SubSeq(wire[c], 1, k) /\ Len(b) = k
        /\ \A i \in 1..k : b[i] = wire[c][i]
    <3>1. wire[c] \in Seq(Item) /\ k \in 1..Len(wire[c]) /\ Len(wire[c]) \in Nat BY HandlerFacts
    <3>2. 1 \in 1..(Len(wire[c]) + 1) /\ k \in (1 - 1)..Len(wire[c]) BY <3>1
    <3>3. /\ SubSeq(wire[c], 1, k) \in Seq(Item) /\ Len(SubSeq(wire[c], 1, k)) = k - 1 + 1
          /\ \A i \in 1..(k - 1 + 1) : SubSeq(wire[c], 1, k)[i] = wire[c][1 + i - 1]
      BY <3>1, <3>2, SubSeqProperties
    <3>4. k - 1 + 1 = k /\ \A i \in 1..k : 1 + i - 1 = i BY <3>1
    <3>5. Len(SubSeq(wire[c], 1, k)) = k /\ \A i \in 1..k : SubSeq(wire[c], 1, k)[i] = wire[c][i]
      BY <3>3, <3>4
    <3> QED BY <3>3, <3>5
  <2> HIDE DEF b
  <2>2. PICK r : r = [conn[c] EXCEPT !.buf = b] OBVIOUS
  <2>3. /\ r \in Handlers /\ r.stage = "read" /\ r.transport = conn[c].transport
        /\ r.secured = conn[c].secured
        /\ r.surface = conn[c].surface /\ r.sess = conn[c].sess /\ r.buf = b
        /\ r.msg = conn[c].msg /\ r.env = conn[c].env /\ r.todo = conn[c].todo
    BY <1>0, <2>1, <2>2, HandlerFacts DEF Handlers
  <2>4. r.transport = "tls" \/ r.secured => OverTls(r) /\ r.sess.tls
    BY <2>0, <2>1, <2>3, HandlerFacts DEF HandlerOK, TransportOK, OverTls, Readable
  <2>5. HandlerOK(r) BY <1>0, <2>3, <2>4, HandlerFacts DEF HandlerOK, TransportOK, MessageOK
  <2>6. SubSeq(wire[c], k + 1, Len(wire[c])) \in Seq(Item) BY HandlerFacts
  <2>7. wire' \in [Conns -> Seq(Item)] BY <2>0, <2>6, HandlerFacts
  <2> QED BY <1>0, <2>0, <2>1, <2>2, <2>3, <2>5, <2>7, MoveKeeps
<1> QED BY <1>1, <1>2 DEF fill_buf

LEMMA UpgradeKeeps ==
    ASSUME AccInv, NEW c \in Conns, NEW S, Upgrade(c, S)
    PROVE  AccInv'
<1>0. /\ ~exited /\ conn[c].stage = "upgrade" /\ Live(c) /\ ~Writing(c) /\ conn[c].msg = 0
  BY HandlerFacts DEF Upgrade, Live, Writing, HandlerOK, MessageOK
<1>1. CASE Return(c) BY <1>0, <1>1, ReturnKeeps
<1>2. CASE /\ ~Pipelined(c)
           /\ Become(c, [conn[c] EXCEPT !.stage = "handshake", !.transport = "taken"])
           /\ UNCHANGED <<client, wire, active, spool_seq, spool, handed, acked, exited>>
  <2>1. PICK r : r = [conn[c] EXCEPT !.stage = "handshake", !.transport = "taken"] OBVIOUS
  <2>2. /\ r \in Handlers /\ r.stage = "handshake" /\ r.transport = "taken" /\ r.secured = conn[c].secured
        /\ r.surface = conn[c].surface /\ r.sess = conn[c].sess /\ r.buf = conn[c].buf
        /\ r.msg = conn[c].msg
    BY <2>1, HandlerFacts DEF Handlers, HandlerStages
  <2>3. conn[c].buf = <<>> BY <1>2 DEF Pipelined
  <2>4. HandlerOK(r) BY <1>0, <2>2, <2>3, HandlerFacts DEF HandlerOK, TransportOK, MessageOK
  <2>5. wire' \in [Conns -> Seq(Item)] BY <1>2, HandlerFacts
  <2> QED BY <1>0, <1>2, <2>1, <2>2, <2>4, <2>5, MoveKeeps
<1> QED BY <1>1, <1>2 DEF Upgrade

(* The first numbers, and the next one.                                    *)
LEMMA NextNumber ==
    ASSUME MessagesInv, ~exited
    PROVE  /\ Cardinality(Msgs) + 1 \in Nat \ {0} /\ Cardinality(Msgs) + 1 \notin Msgs
           /\ \E k \in Nat : Msgs \cup {Cardinality(Msgs) + 1} = 1..k
<1>1. PICK k \in Nat : Msgs = 1..k BY DEF MessagesInv, Numbered
<1>2. Cardinality(1..k) = k
  <2>1. Cardinality(1..k) = IF 1 > k THEN 0 ELSE k - 1 + 1 BY FS_Interval
  <2> QED BY <2>1
<1>3. Cardinality(Msgs) = k BY <1>1, <1>2
<1>4. 1..k \cup {k + 1} = 1..(k + 1) OBVIOUS
<1> QED BY <1>1, <1>3, <1>4

(* A message that is complete gets the next number.                        *)
LEMMA CompletesKeeps ==
    ASSUME AccInv, ~exited, NEW c \in Conns, Live(c), conn[c].msg = 0, NEW r \in Handlers, HandlerOK(r),
           Become(c, r), r.surface = conn[c].surface, r.stage = "route",
           r.msg = Cardinality(Msgs) + 1, r.env = r.todo,
           UNCHANGED <<client, wire, active, spool_seq, spool, handed, acked, exited>>
    PROVE  AccInv'
<1>0. MessagesInv BY DEF AccInv
<1>1. /\ HandlersInv' /\ conn'[c] = r /\ \A d \in Conns \ {c} : conn'[d] = conn[d]
  BY HandlerMoves DEF AccInv, HandlersInv, AccTyped
<1>2. r.msg \in Nat \ {0} /\ r.msg \notin Msgs /\ \E k \in Nat : Msgs \cup {r.msg} = 1..k
  BY <1>0, NextNumber
<1>3. Msgs' = Msgs \cup {r.msg}
  <2>1. \A m : m \in Msgs' <=> (m # 0 /\ ((\E h \in handed : h.msg = m) \/ \E d \in Conns : conn'[d].msg = m))
    BY DEF Msgs
  <2>2. \A m : m \in Msgs <=> (m # 0 /\ ((\E h \in handed : h.msg = m) \/ \E d \in Conns : conn[d].msg = m))
    BY DEF Msgs
  <2>3. \A m : (m # 0 /\ \E d \in Conns : conn'[d].msg = m) <=>
               (m = r.msg \/ (m # 0 /\ \E d \in Conns : conn[d].msg = m))
    BY <1>1, <1>2
  <2> QED BY <1>2, <2>1, <2>2, <2>3
<1>4. (\A h \in handed : h.msg # r.msg) /\ (\A d \in Conns : conn[d].msg # r.msg)
  BY <1>2 DEF Msgs
<1>5. \A m : HandedTo(m)' = HandedTo(m) BY DEF HandedTo
<1>6. HandedTo(r.msg) = {} BY <1>4 DEF HandedTo
<1>7. Numbered' BY <1>2, <1>3 DEF Numbered
<1>8. OwnMessage' BY <1>0, <1>1, <1>4 DEF MessagesInv, OwnMessage
<1>9. HandedSoFar' BY <1>0, <1>1, <1>5, <1>6 DEF MessagesInv, HandedSoFar
<1>10. \A m \in acked : m.msg # r.msg BY <1>0, <1>6 DEF MessagesInv, AckedAll
<1>11. AckedAll' BY <1>0, <1>1, <1>5, <1>10 DEF MessagesInv, AckedAll
<1>12. MessagesInv' BY <1>0, <1>7, <1>8, <1>9, <1>11 DEF MessagesInv, HandedNumbered
<1>13. SpoolInv'
  <2>1. \A d \in Conns : Writing(d)' => Writing(d) /\ conn'[d].n = conn[d].n BY <1>1 DEF Writing
  <2> QED BY <2>1, SpoolKept DEF AccInv
<1>14. \A d \in Conns : (Live(d)' <=> Live(d)) /\ (Live(d) => conn'[d].surface = conn[d].surface)
  BY <1>1 DEF Live
<1>15. SlotsInv' BY <1>14, SlotsKept DEF AccInv
<1> QED BY <1>1, <1>12, <1>13, <1>15 DEF AccInv

(* One line is fed to the session.                                         *)
LEMMA FeedKeeps ==
    ASSUME AccInv, ~exited, NEW c \in Conns, conn[c].stage = "read", conn[c].buf # <<>>,
           NEW l, l = Head(conn[c].buf), NEW quit \in BOOLEAN, Feed(c, l, quit)
    PROVE  AccInv'
<1> DEFINE v == conn[c]
           done == Completes(c, l)
<1>0. /\ v \in Handlers /\ HandlerOK(v) /\ Live(c) /\ v.msg = 0 /\ v.surface \in Surfaces
      /\ conn \in [Conns -> Handlers]
  BY HandlerFacts DEF HandlerOK, MessageOK, Live
<1>1. PICK z : z = Session(v.surface, v.sess, l) OBVIOUS
<1>2. PICK rcpts : rcpts = IF done THEN v.sess.rcpts ELSE {} OBVIOUS
<1>3. PICK s : s = IF done THEN [z.s EXCEPT !.rcpts = {}] ELSE z.s OBVIOUS
<1>4. PICK m : m = IF done THEN Cardinality(Msgs) + 1 ELSE 0 OBVIOUS
<1>5. PICK st : st = IF done THEN "route" ELSE "reply" OBVIOUS
<1>6. PICK b : b = Tail(v.buf) OBVIOUS
<1>7. PICK u \in BOOLEAN : u <=> (~v.secured /\ l.verb = "STARTTLS") BY Zenon
<1>8. PICK r : r = [v EXCEPT !.buf = b, !.ok = z.ok, !.quit = quit, !.sess = s,
                             !.upgrade = (~v.secured /\ l.verb = "STARTTLS"),
                             !.todo = rcpts, !.env = rcpts, !.msg = m, !.stage = st]
  OBVIOUS
<1>9. Become(c, r) /\ UNCHANGED <<client, wire, active, spool_seq, spool, handed, acked, exited>>
  BY <1>1, <1>2, <1>3, <1>4, <1>5, <1>6, <1>8 DEF Feed
<1>10. /\ l \in Item /\ b \in Seq(Item) /\ l = v.buf[1] /\ Len(v.buf) \in Nat \ {0}
       /\ Len(b) = Len(v.buf) - 1 /\ \A i \in 1..Len(b) : b[i] = v.buf[i + 1]
  <2>1. v.buf \in Seq(Item) BY <1>0 DEF Handlers
  <2> QED BY <1>6, <2>1
<1>11. v.sess \in Sessions /\ SessionOK(v.sess) /\ v.secured \in BOOLEAN
       /\ (v.sess.tls => v.transport = "tls") /\ (v.transport = "tls" \/ v.secured => OverTls(v) /\ v.sess.tls)
  BY <1>0 DEF Handlers, HandlerOK, TransportOK
<1>12. v.sess.tls => l.layer = "tls"
  <2>1. v.transport = "tls" => v.buf[1].layer = "tls" BY <1>10, <1>11 DEF OverTls
  <2> QED BY <1>10, <1>11, <2>1
<1>13. /\ z.ok \in BOOLEAN /\ z.s \in Sessions /\ SessionOK(z.s)
       /\ v.sess.tls => z.s.tls
       /\ z.s.tls /\ ~v.sess.tls => l.verb = "STARTTLS" /\ z.ok
       /\ l.verb = "STARTTLS" /\ z.ok => z.s.tls /\ ~v.sess.tls
       /\ v.sess.data /\ l.verb = "." => z.s = [v.sess EXCEPT !.data = FALSE]
  BY <1>1, <1>10, <1>11, <1>12, SessionKeeps
<1>14. /\ s \in Sessions /\ SessionOK(s) /\ s.tls = z.s.tls
  <2>1. CASE ~done BY <1>3, <1>13, <2>1
  <2>2. CASE done
    <3>1. s = [z.s EXCEPT !.rcpts = {}] /\ z.s = [v.sess EXCEPT !.data = FALSE]
      BY <1>3, <1>13, <2>2 DEF Completes
    <3>2. ~z.s.data BY <3>1, <1>11 DEF Sessions
    <3>3. s \in Sessions /\ s.tls = z.s.tls /\ s.user = z.s.user /\ s.data = z.s.data
      BY <3>1, <1>13 DEF Sessions
    <3> QED BY <1>13, <3>2, <3>3 DEF SessionOK
  <2> QED BY <2>1, <2>2
<1>15. /\ rcpts \in SUBSET Rcpts /\ (done => rcpts # {}) /\ (done => l.verb = ".")
  BY <1>2, <1>11 DEF Completes, Sessions, SessionOK
<1>16. m \in Nat /\ (done => m # 0) /\ (~done => m = 0) BY <1>4, NextNumber DEF AccInv
<1>17. st \in HandlerStages /\ (done => st = "route") /\ (~done => st = "reply") BY <1>5 DEF HandlerStages
<1> HIDE DEF v, done
<1>18. /\ r \in Handlers /\ r.buf = b /\ r.ok = z.ok /\ r.sess = s /\ r.todo = rcpts /\ r.env = rcpts
       /\ r.msg = m /\ r.stage = st /\ r.surface = v.surface /\ r.transport = v.transport
       /\ r.secured = v.secured
  BY <1>0, <1>8, <1>10, <1>13, <1>14, <1>15, <1>16, <1>17 DEF Handlers
<1>19. r.upgrade <=> u BY <1>0, <1>7, <1>8 DEF Handlers
<1>20. OverTls(v) => OverTls(r) BY <1>10, <1>18 DEF OverTls
<1>21. TransportOK(r)
  <2>1. r.transport = "tls" \/ r.secured => OverTls(r) /\ r.sess.tls
    BY <1>11, <1>13, <1>14, <1>18, <1>20
  <2>2. r.stage = "route" => ~r.upgrade BY <1>7, <1>15, <1>17, <1>18, <1>19
  <2>3. r.stage = "route" /\ r.sess.tls => r.transport = "tls"
    BY <1>11, <1>13, <1>14, <1>15, <1>17, <1>18
  <2>4. r.stage = "reply" /\ r.sess.tls => r.transport = "tls" \/ (r.upgrade /\ r.ok)
    BY <1>7, <1>11, <1>13, <1>14, <1>18, <1>19
  <2>5. r.stage = "reply" /\ r.upgrade => ~r.secured /\ (r.ok => r.sess.tls)
    BY <1>7, <1>13, <1>14, <1>18, <1>19
  <2> QED BY <1>17, <1>18, <2>1, <2>2, <2>3, <2>4, <2>5 DEF TransportOK
<1>22. HandlerOK(r) BY <1>0, <1>14, <1>15, <1>16, <1>17, <1>18, <1>21 DEF HandlerOK, MessageOK
<1>23. CASE done
  <2>1. r.msg = Cardinality(Msgs) + 1 BY <1>4, <1>18, <1>23
  <2> QED BY <1>0, <1>9, <1>17, <1>18, <1>22, <1>23, <2>1, CompletesKeeps DEF v
<1>24. CASE ~done
  <2>1. wire' \in [Conns -> Seq(Item)] BY <1>9, HandlerFacts
  <2> QED BY <1>0, <1>9, <1>16, <1>17, <1>18, <1>22, <1>24, <2>1, MoveKeeps DEF v
<1> QED BY <1>23, <1>24

LEMMA ReadingKeeps ==
    ASSUME AccInv, NEW c \in Conns,
           serve_line_session(c) \/ imap_command(c) \/ read_ends(c) \/ handle_request(c)
    PROVE  AccInv'
<1>1. CASE serve_line_session(c) \/ imap_command(c)
  <2>1. PICK quit \in BOOLEAN : quit = (Head(conn[c].buf).verb = "QUIT")
    <3>1. (Head(conn[c].buf).verb = "QUIT") \in BOOLEAN OBVIOUS
    <3> WITNESS (Head(conn[c].buf).verb = "QUIT") \in BOOLEAN
    <3> QED OBVIOUS
  <2>2. Feed(c, Head(conn[c].buf), quit) BY <1>1, <2>1 DEF serve_line_session, imap_command
  <2>3. ~exited /\ conn[c].stage = "read" /\ conn[c].buf # <<>>
    BY <1>1 DEF serve_line_session, imap_command, Reading
  <2> QED BY <2>2, <2>3, FeedKeeps
<1>2. CASE read_ends(c) \/ handle_request(c)
  <2>1. ~exited /\ Return(c) /\ conn[c].stage \in {"read", "handshake"}
    BY <1>2 DEF read_ends, handle_request, Reading
  <2>2. Live(c) /\ ~Writing(c) /\ conn[c].msg = 0
    BY <2>1, HandlerFacts DEF Live, Writing, HandlerOK, MessageOK
  <2> QED BY <2>1, <2>2, ReturnKeeps
<1> QED BY <1>1, <1>2

(* fetch_add: the number drawn is new, and the counter moves past it.      *)
LEMMA RouteOneKeeps ==
    ASSUME AccInv, NEW c \in Conns, route_one(c)
    PROVE  AccInv'
<1>0. /\ ~exited /\ conn[c].stage = "route" /\ spool_seq \in Nat /\ spool_seq' = spool_seq + 1 /\ Live(c) /\ ~Writing(c)
      /\ UNCHANGED <<client, wire, active, spool, handed, acked, exited>>
  BY DEF route_one, fetch_add, AccInv, HandlersInv, AccTyped, Live, Writing
<1>1. PICK r : r = [conn[c] EXCEPT !.stage = "write", !.n = spool_seq] OBVIOUS
<1>2. Become(c, r) BY <1>1 DEF route_one, fetch_add
<1>3. /\ r \in Handlers /\ r.stage = "write" /\ r.n = spool_seq /\ r.surface = conn[c].surface
      /\ r.transport = conn[c].transport /\ r.secured = conn[c].secured /\ r.buf = conn[c].buf
      /\ r.sess = conn[c].sess /\ r.upgrade = conn[c].upgrade
      /\ r.msg = conn[c].msg /\ r.env = conn[c].env /\ r.todo = conn[c].todo
  BY <1>0, <1>1, HandlerFacts DEF Handlers, HandlerStages
<1>4. HandlerOK(r)
  <2>1. OverTls(conn[c]) => OverTls(r) BY <1>3 DEF OverTls
  <2> QED BY <1>0, <1>3, <2>1, HandlerFacts DEF HandlerOK, TransportOK, MessageOK
<1>5. HandlersInv' /\ conn'[c] = r /\ \A d \in Conns \ {c} : conn'[d] = conn[d]
  BY <1>0, <1>2, <1>3, <1>4, HandlerMoves DEF AccInv, HandlersInv, AccTyped
<1>6. MessagesInv' BY <1>0, <1>3, <1>5, MessagesKept DEF AccInv
<1>7. \A d \in Conns : (Live(d)' <=> Live(d)) /\ (Live(d) => conn'[d].surface = conn[d].surface)
  BY <1>0, <1>3, <1>5 DEF Live
<1>8. SlotsInv' BY <1>0, <1>7, SlotsKept DEF AccInv
<1>9. SpoolKeepsAll' BY <1>0 DEF AccInv, SpoolInv, SpoolKeepsAll
<1>10. \A d \in Conns : conn[d].n \in Nat BY HandlerFacts DEF Handlers
<1>11. NumbersDrawn'
  <2>0. NumbersDrawn BY DEF AccInv, SpoolInv
  <2>1. \A x \in DOMAIN spool' : x[1] \in Nat /\ x[1] < spool_seq' BY <1>0, <2>0 DEF NumbersDrawn
  <2>2. \A d \in Conns : Writing(d)' => conn'[d].n < spool_seq'
    BY <1>0, <1>3, <1>5, <1>10, <2>0 DEF NumbersDrawn, Writing
  <2>3. \A d, e \in Conns : Writing(d)' /\ Writing(e)' /\ conn'[d].n = conn'[e].n => d = e
    BY <1>0, <1>3, <1>5, <1>10, <2>0 DEF NumbersDrawn, Writing
  <2>4. \A d \in Conns, x \in DOMAIN spool' : Writing(d)' => x[1] # conn'[d].n
    BY <1>0, <1>3, <1>5, <2>0 DEF NumbersDrawn, Writing
  <2> QED BY <2>1, <2>2, <2>3, <2>4 DEF NumbersDrawn
<1> QED BY <1>5, <1>6, <1>8, <1>9, <1>11 DEF AccInv, SpoolInv

(* deliver: one more recipient handed over, in a file of its own.          *)
LEMMA DeliverKeeps ==
    ASSUME AccInv, NEW c \in Conns, deliver(c)
    PROVE  AccInv'
<1>0. /\ ~exited /\ conn[c].stage = "write" /\ Live(c) /\ Writing(c) /\ conn[c].msg # 0
      /\ conn[c].msg \in Nat /\ conn[c].todo \subseteq conn[c].env
      /\ UNCHANGED <<client, wire, active, spool_seq, acked, exited>>
  BY HandlerFacts DEF deliver, Live, Writing, HandlerOK, MessageOK, Handlers
<1>1. PICK p \in conn[c].todo, ok \in BOOLEAN :
         LET name == <<conn[c].n, Destination(p)>>
             file == [msg |-> conn[c].msg, rcpt |-> p, destination |-> Destination(p)]
         IN  /\ spool' = IF ok THEN [x \in DOMAIN spool \cup {name} |->
                                       IF x = name THEN file ELSE spool[x]]
                         ELSE spool
             /\ handed' = handed \cup {[msg |-> conn[c].msg, rcpt |-> p,
                                        destination |-> Destination(p), ok |-> ok]}
             /\ Become(c, [conn[c] EXCEPT !.stage = "route", !.todo = @ \ {p}])
  BY DEF deliver
<1>2. PICK name : name = <<conn[c].n, Destination(p)>> OBVIOUS
<1>3. PICK m : m = conn[c].msg OBVIOUS
<1>4. PICK file : file = [msg |-> m, rcpt |-> p, destination |-> Destination(p)] OBVIOUS
<1>5. PICK g : g = [msg |-> m, rcpt |-> p, destination |-> Destination(p), ok |-> ok] OBVIOUS
<1>6. /\ spool' = IF ok THEN [x \in DOMAIN spool \cup {name} |-> IF x = name THEN file ELSE spool[x]]
                  ELSE spool
      /\ handed' = handed \cup {g}
  BY <1>1, <1>2, <1>3, <1>4, <1>5
<1>7. PICK r : r = [conn[c] EXCEPT !.stage = "route", !.todo = conn[c].todo \ {p}] OBVIOUS
<1>8. Become(c, r) BY <1>1, <1>7
<1>9. /\ r \in Handlers /\ r.stage = "route" /\ r.todo = conn[c].todo \ {p} /\ r.surface = conn[c].surface
      /\ r.transport = conn[c].transport /\ r.secured = conn[c].secured /\ r.buf = conn[c].buf
      /\ r.sess = conn[c].sess /\ r.upgrade = conn[c].upgrade
      /\ r.msg = conn[c].msg /\ r.env = conn[c].env
  BY <1>0, <1>7, HandlerFacts DEF Handlers, HandlerStages
<1>10. HandlerOK(r)
  <2>1. OverTls(conn[c]) => OverTls(r) BY <1>9 DEF OverTls
  <2> QED BY <1>0, <1>9, <2>1, HandlerFacts DEF HandlerOK, TransportOK, MessageOK
<1>11. HandlersInv' /\ conn'[c] = r /\ \A d \in Conns \ {c} : conn'[d] = conn[d]
  BY <1>0, <1>8, <1>9, <1>10, HandlerMoves DEF AccInv, HandlersInv, AccTyped
<1>12. \A d \in Conns : (Live(d)' <=> Live(d)) /\ (Live(d) => conn'[d].surface = conn[d].surface)
  BY <1>0, <1>9, <1>11 DEF Live
<1>13. SlotsInv' BY <1>0, <1>12, SlotsKept DEF AccInv
<1>14. g.msg = m /\ g.rcpt = p /\ (g.ok <=> ok) /\ file.msg = m /\ file.rcpt = p /\ name[1] = conn[c].n
  BY <1>2, <1>4, <1>5
<1>15. MessagesInv'
  <2>0. MessagesInv BY DEF AccInv
  <2>1. Msgs' = Msgs
    <3>1. \A k : k \in Msgs' <=> (k # 0 /\ ((\E h \in handed' : h.msg = k) \/ \E d \in Conns : conn'[d].msg = k))
      BY DEF Msgs
    <3>2. \A k : k \in Msgs <=> (k # 0 /\ ((\E h \in handed : h.msg = k) \/ \E d \in Conns : conn[d].msg = k))
      BY DEF Msgs
    <3>3. \A d \in Conns : conn'[d].msg = conn[d].msg BY <1>9, <1>11
    <3>4. \A k : (\E h \in handed' : h.msg = k) <=> ((\E h \in handed : h.msg = k) \/ k = m)
      BY <1>6, <1>14
    <3>5. conn[c].msg = m BY <1>3
    <3>6. \A k : k \in Msgs' <=> k \in Msgs BY <3>1, <3>2, <3>3, <3>4, <3>5
    <3> QED BY <3>6
  <2>2. HandedTo(m)' = HandedTo(m) \cup {p} BY <1>6, <1>14 DEF HandedTo
  <2>3. \A k : k # m => HandedTo(k)' = HandedTo(k) BY <1>6, <1>14 DEF HandedTo
  <2>4. Numbered' BY <1>0, <2>0, <2>1 DEF MessagesInv, Numbered
  <2>5. \A d \in Conns : conn'[d].msg = conn[d].msg BY <1>9, <1>11
  <2>6. OwnMessage' BY <2>0, <2>5 DEF MessagesInv, OwnMessage
  <2>7. HandedSoFar'
    <3>1. conn'[c].msg = m /\ HandedTo(m)' = conn'[c].env \ conn'[c].todo
      <4>1. HandedTo(m) = conn[c].env \ conn[c].todo BY <1>0, <1>3, <2>0 DEF MessagesInv, HandedSoFar
      <4>2. conn'[c].env = conn[c].env /\ conn'[c].todo = conn[c].todo \ {p} /\ conn'[c].msg = m
        BY <1>3, <1>9, <1>11
      <4>3. p \in conn[c].env BY <1>0
      <4> QED BY <2>2, <4>1, <4>2, <4>3
    <3>2. ASSUME NEW d \in Conns \ {c}, NEW k, k = conn'[d].msg, k # 0
          PROVE  HandedTo(k)' = conn'[d].env \ conn'[d].todo
      <4>1. conn'[d] = conn[d] /\ conn[d].msg # m
        BY <1>0, <1>3, <1>11, <2>0, <3>2 DEF MessagesInv, OwnMessage
      <4> QED BY <2>0, <2>3, <3>2, <4>1 DEF MessagesInv, HandedSoFar
    <3> QED BY <3>1, <3>2 DEF HandedSoFar
  <2>8. AckedAll' BY <1>0, <1>3, <2>0, <2>3, <2>5 DEF MessagesInv, AckedAll
  <2>9. HandedNumbered' BY <1>0, <1>3, <1>6, <1>14, <2>0 DEF MessagesInv, HandedNumbered
  <2> QED BY <2>4, <2>6, <2>7, <2>8, <2>9 DEF MessagesInv
<1>16. SpoolInv'
  <2>0. NumbersDrawn /\ SpoolKeepsAll BY DEF AccInv, SpoolInv
  <2>1. name \notin DOMAIN spool BY <1>0, <1>14, <2>0 DEF NumbersDrawn
  <2>2. /\ DOMAIN spool' \subseteq DOMAIN spool \cup {name} /\ DOMAIN spool \subseteq DOMAIN spool'
        /\ \A x \in DOMAIN spool : spool'[x] = spool[x]
        /\ ok => name \in DOMAIN spool' /\ spool'[name] = file
    BY <1>6, <2>1
  <2>3. SpoolKeepsAll'
    <3>1. SUFFICES ASSUME NEW h \in handed', h.ok
                   PROVE  \E x \in DOMAIN spool' : spool'[x].msg = h.msg /\ spool'[x].rcpt = h.rcpt
      BY DEF SpoolKeepsAll
    <3>2. CASE h \in handed BY <2>0, <2>2, <3>1, <3>2 DEF SpoolKeepsAll
    <3>3. CASE h = g BY <1>14, <2>2, <3>1, <3>3
    <3> QED BY <1>6, <3>2, <3>3
  <2>4. conn[c].n \in Nat /\ conn[c].n < spool_seq /\ spool_seq \in Nat
    BY <1>0, <2>0, HandlerFacts DEF NumbersDrawn, Handlers, AccInv, HandlersInv, AccTyped
  <2>5. \A d \in Conns : Writing(d)' => d # c /\ conn'[d] = conn[d] /\ Writing(d) BY <1>9, <1>11 DEF Writing
  <2>6. \A x \in DOMAIN spool' : x[1] \in Nat /\ x[1] < spool_seq' BY <1>0, <1>14, <2>0, <2>2, <2>4 DEF NumbersDrawn
  <2>7. \A d \in Conns : Writing(d)' => conn'[d].n < spool_seq' BY <1>0, <2>0, <2>5 DEF NumbersDrawn
  <2>8. \A d, e \in Conns : Writing(d)' /\ Writing(e)' /\ conn'[d].n = conn'[e].n => d = e
    BY <2>0, <2>5 DEF NumbersDrawn
  <2>9. \A d \in Conns, x \in DOMAIN spool' : Writing(d)' => x[1] # conn'[d].n
    BY <1>0, <1>14, <2>0, <2>2, <2>5 DEF NumbersDrawn
  <2> QED BY <2>3, <2>6, <2>7, <2>8, <2>9 DEF SpoolInv, NumbersDrawn
<1> QED BY <1>11, <1>13, <1>15, <1>16 DEF AccInv

(* The reply: an acknowledgement leaves the handler without the message.   *)
LEMMA ReplyKeeps ==
    ASSUME AccInv, NEW c \in Conns, reply(c)
    PROVE  AccInv'
<1> DEFINE v == conn[c]
<1>0. /\ ~exited /\ v.stage \in {"reply", "route"} /\ Live(c) /\ ~Writing(c) /\ v \in Handlers /\ HandlerOK(v)
      /\ v.stage = "route" => v.todo = {}
  BY HandlerFacts DEF reply, route_pending, Live, Writing
<1>1. v.msg # 0 => v.stage = "route" /\ v.env # {} /\ HandedTo(v.msg) = v.env
  BY <1>0 DEF AccInv, MessagesInv, HandedSoFar, HandlerOK, MessageOK
<1>2. v.msg # 0 => \E h \in handed : h.msg = v.msg BY <1>1 DEF HandedTo
<1>3. CASE Return(c) BY <1>0, <1>2, <1>3, ReturnKeeps
<1>4. CASE /\ acked' = acked \cup {m \in {[msg |-> conn[c].msg, rcpts |-> conn[c].env]} : m.msg # 0}
           /\ Become(c, [conn[c] EXCEPT !.msg = 0, !.env = {}, !.n = 0, !.ok = FALSE,
                         !.stage = IF conn[c].upgrade /\ conn[c].ok THEN "upgrade" ELSE "read",
                         !.upgrade = @ /\ conn[c].ok])
           /\ UNCHANGED <<client, wire, active, spool_seq, spool, handed, exited>>
  <2>1. PICK st \in {"upgrade", "read"} : st = IF v.upgrade /\ v.ok THEN "upgrade" ELSE "read" OBVIOUS
  <2>2. PICK r : r = [v EXCEPT !.msg = 0, !.env = {}, !.n = 0, !.ok = FALSE, !.stage = st,
                               !.upgrade = v.upgrade /\ v.ok]
    OBVIOUS
  <2>3. Become(c, r) BY <1>4, <2>1, <2>2
  <2>4. v.upgrade \in BOOLEAN /\ v.ok \in BOOLEAN /\ st \in HandlerStages
    BY <1>0, <2>1 DEF Handlers, HandlerStages
  <2>5. /\ r \in Handlers /\ r.stage = st /\ r.surface = v.surface /\ r.msg = 0
        /\ r.transport = v.transport /\ r.secured = v.secured /\ r.buf = v.buf /\ r.sess = v.sess
    BY <1>0, <2>2, <2>4 DEF Handlers
  <2>6. HandlerOK(r)
    <3>1. OverTls(v) => OverTls(r) BY <2>5 DEF OverTls
    <3>2. TransportOK(r)
      BY <1>0, <2>1, <2>5, <3>1 DEF HandlerOK, TransportOK
    <3> QED BY <1>0, <2>1, <2>5, <3>2 DEF HandlerOK, MessageOK
  <2> HIDE DEF v
  <2>7. HandlersInv' /\ conn'[c] = r /\ \A d \in Conns \ {c} : conn'[d] = conn[d]
    BY <1>4, <2>3, <2>5, <2>6, HandlerMoves DEF AccInv, HandlersInv, AccTyped
  <2>8. MessagesInv'
    <3>0. MessagesInv BY DEF AccInv
    <3>1. Msgs' = Msgs
      <4>1. \A k : k \in Msgs' <=> (k # 0 /\ ((\E h \in handed : h.msg = k) \/ \E d \in Conns : conn'[d].msg = k))
        BY <1>4 DEF Msgs
      <4>2. \A k : k \in Msgs <=> (k # 0 /\ ((\E h \in handed : h.msg = k) \/ \E d \in Conns : conn[d].msg = k))
        BY DEF Msgs
      <4>3. conn'[c].msg = 0 BY <2>5, <2>7
      <4>4. \A k : k \in Msgs' <=> k \in Msgs BY <1>2, <2>7, <4>1, <4>2, <4>3 DEF v
      <4> QED BY <4>4
    <3>2. \A d \in Conns : conn'[d].msg \in {0, conn[d].msg} BY <2>5, <2>7
    <3>3. \A m : HandedTo(m)' = HandedTo(m) BY <1>4 DEF HandedTo
    <3>4. Numbered' BY <1>4, <3>0, <3>1 DEF MessagesInv, Numbered
    <3>5. OwnMessage' BY <3>0, <3>2 DEF MessagesInv, OwnMessage
    <3>6. HandedSoFar' BY <2>5, <2>7, <3>0, <3>3 DEF MessagesInv, HandedSoFar
    <3>7. AckedAll'
      <4>1. SUFFICES ASSUME NEW m \in acked'
                     PROVE  /\ HandedTo(m.msg) = m.rcpts /\ m.rcpts # {} /\ m.msg # 0
                            /\ \A d \in Conns : conn'[d].msg # m.msg
        BY <3>3 DEF AckedAll
      <4>2. CASE m \in acked BY <3>0, <3>2, <4>2 DEF MessagesInv, AckedAll
      <4>3. CASE m \notin acked
        <5>1. m = [msg |-> v.msg, rcpts |-> v.env] /\ m.msg # 0 BY <1>4, <4>3 DEF v
        <5>2. m.msg = v.msg /\ m.rcpts = v.env BY <5>1
        <5>3. \A d \in Conns : conn'[d].msg # v.msg
          BY <2>5, <2>7, <3>0, <5>1, <5>2 DEF MessagesInv, OwnMessage, v
        <5> QED BY <1>1, <5>1, <5>2, <5>3
      <4> QED BY <4>2, <4>3
    <3>8. HandedNumbered' BY <1>4, <3>0 DEF MessagesInv, HandedNumbered
    <3> QED BY <3>4, <3>5, <3>6, <3>7, <3>8 DEF MessagesInv
  <2>9. SpoolInv'
    <3>1. \A d \in Conns : Writing(d)' => Writing(d) /\ conn'[d].n = conn[d].n BY <2>1, <2>5, <2>7 DEF Writing
    <3> QED BY <1>4, <3>1, SpoolKept DEF AccInv
  <2>10. \A d \in Conns : (Live(d)' <=> Live(d)) /\ (Live(d) => conn'[d].surface = conn[d].surface)
    BY <1>0, <2>1, <2>5, <2>7 DEF Live, v
  <2>11. SlotsInv' BY <1>4, <2>10, SlotsKept DEF AccInv
  <2> QED BY <2>7, <2>8, <2>9, <2>11 DEF AccInv
<1> QED BY <1>3, <1>4 DEF reply

(* The process ends: no handler is left, and what was acknowledged stays.  *)
LEMMA ExitKeeps ==
    ASSUME AccInv, exit
    PROVE  AccInv'
<1>1. /\ exited' = TRUE /\ (\A c \in Conns : conn'[c] = Closed) /\ conn' = [c \in Conns |-> Closed]
      /\ wire' = [c \in Conns |-> <<>>] /\ active' = [s \in Surfaces |-> 0]
      /\ UNCHANGED <<client, spool_seq, spool, handed, acked>>
  BY DEF exit
<1>2. HandlersInv' BY <1>1, IdleOK DEF AccInv, HandlersInv, AccTyped
<1>3. MessagesInv'
  <2>1. \A m : HandedTo(m)' = HandedTo(m) BY <1>1 DEF HandedTo
  <2>2. Numbered' /\ OwnMessage' /\ HandedSoFar' BY <1>1, IdleOK DEF Numbered, OwnMessage, HandedSoFar
  <2>3. AckedAll' BY <1>1, <2>1, IdleOK DEF AccInv, MessagesInv, AckedAll
  <2>4. HandedNumbered' BY <1>1 DEF AccInv, MessagesInv, HandedNumbered
  <2> QED BY <2>2, <2>3, <2>4 DEF MessagesInv
<1>4. SpoolInv'
  <2>1. \A d \in Conns : ~Writing(d)' BY <1>1, IdleOK DEF Writing
  <2> QED BY <1>1, <2>1, SpoolKept DEF AccInv
<1>5. SlotsInv'
  <2>1. \A d \in Conns : ~Live(d)' BY <1>1, IdleOK DEF Live
  <2>2. \A s : On(s)' = {} BY <2>1 DEF On
  <2>3. \A s \in Surfaces : MaxConns[s] \in Nat BY AccessAssumption
  <2>4. Cardinality({}) = 0 BY FS_EmptySet
  <2>5. ASSUME NEW s \in Surfaces PROVE active'[s] = Cardinality(On(s))' /\ active'[s] <= MaxConns[s]
    <3>1. active'[s] = 0 BY <1>1
    <3>2. Cardinality(On(s))' = 0 BY <2>2, <2>4
    <3> QED BY <2>3, <3>1, <3>2
  <2> QED BY <2>5 DEF SlotsInv
<1> QED BY <1>2, <1>3, <1>4, <1>5 DEF AccInv

LEMMA AccInitInv == AccInit => AccInv
<1> SUFFICES ASSUME AccInit PROVE AccInv OBVIOUS
<1>1. /\ (\A c \in Conns : conn[c] = Idle) /\ conn = [c \in Conns |-> Idle] /\ handed = {} /\ acked = {}
      /\ DOMAIN spool = {} /\ spool_seq = 0
  BY DEF AccInit
<1>2. client \in ClientKinds BY AccessAssumption DEF AccInit, ClientKinds
<1>3. AccTyped
  <2>1. conn \in [Conns -> Handlers] BY <1>1, IdleOK
  <2>2. wire \in [Conns -> Seq(Item)]
    <3>1. wire = [c \in Conns |-> <<>>] BY DEF AccInit
    <3>2. <<>> \in Seq(Item) OBVIOUS
    <3> QED BY <3>1, <3>2
  <2>3. active \in [Surfaces -> Nat]
    <3>1. active = [s \in Surfaces |-> 0] BY DEF AccInit
    <3> QED BY <3>1
  <2>4. spool_seq \in Nat BY <1>1
  <2>5. exited \in BOOLEAN
    <3>1. exited = FALSE BY DEF AccInit
    <3> QED BY <3>1
  <2> QED BY <1>2, <2>1, <2>2, <2>3, <2>4, <2>5 DEF AccTyped
<1>4. HandlersInv BY <1>1, <1>3, IdleOK DEF HandlersInv
<1>5. MessagesInv
  <2>1. \A c \in Conns : conn[c].msg = 0 BY <1>1, IdleOK
  <2>2. Msgs = {} BY <1>1, <2>1 DEF Msgs
  <2>3. Msgs = 1..0 BY <2>2
  <2>4. Numbered BY <2>3 DEF Numbered
  <2> QED BY <1>1, <2>1, <2>4 DEF MessagesInv, OwnMessage, HandedSoFar, AckedAll, HandedNumbered
<1>6. SpoolInv BY <1>1, IdleOK DEF SpoolInv, NumbersDrawn, SpoolKeepsAll, Writing
<1>7. SlotsInv
  <2>1. \A s : On(s) = {} BY <1>1, IdleOK DEF On, Live
  <2>2. \A s \in Surfaces : MaxConns[s] \in Nat BY AccessAssumption
  <2>3. Cardinality({}) = 0 BY FS_EmptySet
  <2>4. active = [s \in Surfaces |-> 0] BY DEF AccInit
  <2>5. ASSUME NEW s \in Surfaces PROVE active[s] = Cardinality(On(s)) /\ active[s] <= MaxConns[s]
    <3>1. active[s] = 0 BY <2>4
    <3>2. Cardinality(On(s)) = 0 BY <2>1, <2>3
    <3> QED BY <2>2, <3>1, <3>2
  <2> QED BY <2>5 DEF SlotsInv
<1> QED BY <1>4, <1>5, <1>6, <1>7 DEF AccInv

LEMMA AccStepKeeps ==
    ASSUME AccInv, [AccNext]_accVars
    PROVE  AccInv'
<1>1. CASE UNCHANGED accVars
  <2>1. UNCHANGED <<client, conn, wire, active, spool_seq, spool, handed, acked, exited>> BY <1>1 DEF accVars
  <2>2. HandlersInv' BY <2>1 DEF AccInv, HandlersInv, AccTyped
  <2>3. MessagesInv' BY <2>1
        DEF AccInv, MessagesInv, Numbered, Msgs, OwnMessage, HandedSoFar, AckedAll, HandedNumbered, HandedTo
  <2>4. SpoolInv' BY <2>1, SpoolKept DEF AccInv, Writing
  <2>5. SlotsInv' BY <2>1, SlotsKept DEF AccInv, Live
  <2> QED BY <2>2, <2>3, <2>4, <2>5 DEF AccInv
<1>2. ASSUME NEW c \in Conns, Accept(c) PROVE AccInv'
  <2>1. PICK s \in Surfaces : accept(c, s)
    BY <1>2 DEF Accept, imap_serve_until, pop3_serve_until, submission_serve_until, admin_serve_until, Surfaces
  <2> QED BY <2>1, AcceptKeeps
<1>3. ASSUME NEW c \in Conns, Handler(c) PROVE AccInv'
  <2>1. CASE upgrade(c) \/ imap_upgrade(c) BY <2>1, UpgradeKeeps DEF upgrade, imap_upgrade
  <2> QED BY <1>3, <2>1, HandshakeKeeps, FillKeeps, ReadingKeeps, RouteOneKeeps, DeliverKeeps, ReplyKeeps
          DEF Handler
<1> QED BY <1>1, <1>2, <1>3, SendKeeps, ExitKeeps DEF AccNext

(* Nothing from the clear in a session that believes in TLS, every         *)
(* acknowledged submission handed to the spool and kept there, the slots   *)
(* accounted for, whatever clients do (legacy_net.rs, smtp_submission.rs,  *)
(* imap_access.rs, net.rs).                                                *)
THEOREM SessionsAreKept == AccSpec => []SessionsKept
<1>1. AccInv => SessionsKept
  <2> SUFFICES ASSUME AccInv PROVE SessionsKept OBVIOUS
  <2> USE DEF AccInv
  <2>1. \A s \in Surfaces : active[s] \in 0..MaxConns[s]
    BY AccessAssumption DEF SlotsInv, HandlersInv, AccTyped
  <2>2. AccTypeOK
    BY <2>1 DEF HandlersInv, AccTyped, Handlers, HandlerStages, AccTypeOK
  <2>3. NothingFromTheClear
    <3>1. SUFFICES ASSUME NEW c \in Conns
                   PROVE  /\ conn[c].sess.user # "plain"
                          /\ conn[c].stage = "read" /\ conn[c].sess.tls =>
                               /\ conn[c].transport = "tls" /\ conn[c].secured
                               /\ \A i \in DOMAIN conn[c].buf : conn[c].buf[i].layer = "tls"
      BY DEF NothingFromTheClear
    <3>2. conn[c] \in Handlers /\ HandlerOK(conn[c]) BY HandlerFacts
    <3>3. conn[c].sess.user # "plain" BY <3>2 DEF Handlers, Sessions
    <3>4. DOMAIN conn[c].buf = 1..Len(conn[c].buf) BY <3>2 DEF Handlers
    <3>5. conn[c].stage = "read" /\ conn[c].sess.tls => OverTls(conn[c]) BY <3>2 DEF HandlerOK, TransportOK
    <3> QED BY <3>3, <3>4, <3>5 DEF OverTls
  <2>4. AckedWasHanded BY DEF MessagesInv, AckedAll, HandedTo, AckedWasHanded
  <2>5. SpoolKeepsAll BY DEF SpoolInv
  <2>6. SlotsBalanced BY DEF SlotsInv, On, SlotsBalanced
  <2> QED BY <2>2, <2>3, <2>4, <2>5, <2>6 DEF SessionsKept
<1> QED BY <1>1, AccInitInv, AccStepKeeps, PTL DEF AccSpec
=============================================================================
