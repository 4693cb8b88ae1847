---------------------------- MODULE PrepaidLedger ----------------------------
(***************************************************************************)
(* pier-billing's PrepaidLedger (prepaid.rs), called from several threads. *)
(* Its maps and lists have a mutex each.  top_up holds credited_refs       *)
(* throughout; debit and refund release balances before they number and    *)
(* record what they did, so records may be late and out of order.          *)
(***************************************************************************)
EXTENDS Naturals, FiniteSets, Functions

CONSTANTS Threads, Payers, Refs, Amounts, Nobody,
          MaxU,       \* u64::MAX
          MaxSeq      \* bound: operations that reach a sequence number

ASSUME PrepaidAssumption == /\ MaxU \in Nat /\ Amounts \subseteq 0..MaxU
                            /\ Nobody \notin Threads /\ IsFiniteSet(Threads)

VARIABLES balances,   \* the mutexes' contents ...
          credited_refs, top_ups, debits, refunds, next_tx_seq,
          holder,     \* ... and who holds credited_refs
          pc, op      \* where each thread is, and what it is doing

ledgerVars == <<balances, credited_refs, top_ups, debits, refunds, next_tx_seq, holder, pc, op>>

(* An operation under way, and the record it leaves.  Debits and refunds   *)
(* have no funding reference.                                              *)
NoRef == "none"
New(p, a, r) == [payer |-> p, amount |-> a, ref |-> r, seq |-> 0]
NoOp == New("none", 0, NoRef)
Record == [payer : Payers, amount : Amounts, ref : Refs \cup {NoRef}, seq : Nat]

LedgerInit == /\ balances = [p \in Payers |-> 0]
              /\ credited_refs = {} /\ top_ups = {} /\ debits = {} /\ refunds = {}
              /\ next_tx_seq = 0 /\ holder = Nobody
              /\ pc = [t \in Threads |-> "idle"]
              /\ op = [t \in Threads |-> NoOp]

saturating_add(a, b) == IF a + b > MaxU THEN MaxU ELSE a + b

Goto(t, l) == pc' = [pc EXCEPT ![t] = l]
Return(t) == Goto(t, "idle") /\ op' = [op EXCEPT ![t] = NoOp]

-----------------------------------------------------------------------------
(* top_up: under credited_refs, a known reference returns the record it    *)
(* already has; a new one is credited, numbered, recorded and then marked. *)
Unlocked_Any == TRUE
Unlocked == holder = Nobody

top_up(t, o) ==
    /\ pc[t] = "idle" /\ Unlocked
    /\ op' = [op EXCEPT ![t] = o]
    /\ IF o.ref \in credited_refs THEN Goto(t, "find") /\ UNCHANGED holder
       ELSE Goto(t, "credit") /\ holder' = t
    /\ UNCHANGED <<balances, credited_refs, top_ups, debits, refunds, next_tx_seq>>

find(t) == /\ pc[t] = "find" /\ Return(t)
           /\ UNCHANGED <<balances, credited_refs, top_ups, debits, refunds, next_tx_seq, holder>>

credit(t) == /\ pc[t] = "credit" /\ Goto(t, "number")
             /\ balances' = [balances EXCEPT ![op[t].payer] = saturating_add(@, op[t].amount)]
             /\ UNCHANGED <<credited_refs, top_ups, debits, refunds, next_tx_seq, holder, op>>

(* next_seq, for the top-up, the debit or the refund under way.            *)
After == [number |-> "push", number_debit |-> "push_debit", number_refund |-> "push_refund"]
next_seq_Same(t) ==
               /\ pc[t] \in DOMAIN After /\ Goto(t, After[pc[t]])
               /\ op' = [op EXCEPT ![t].seq = next_tx_seq]
               /\ UNCHANGED <<balances, credited_refs, top_ups, debits, refunds, next_tx_seq, holder>>
next_seq(t) == /\ pc[t] \in DOMAIN After /\ Goto(t, After[pc[t]])
               /\ op' = [op EXCEPT ![t].seq = next_tx_seq]
               /\ next_tx_seq' = next_tx_seq + 1
               /\ UNCHANGED <<balances, credited_refs, top_ups, debits, refunds, holder>>

push(t) == /\ pc[t] = "push" /\ Goto(t, "mark")
           /\ top_ups' = top_ups \cup {op[t]}
           /\ UNCHANGED <<balances, credited_refs, debits, refunds, next_tx_seq, holder, op>>

mark(t) == /\ pc[t] = "mark" /\ Return(t)
           /\ credited_refs' = credited_refs \cup {op[t].ref}
           /\ holder' = Nobody
           /\ UNCHANGED <<balances, top_ups, debits, refunds, next_tx_seq>>

-----------------------------------------------------------------------------
(* debit and refund: check and take under the lock of balances, then the   *)
(* number and the record.  A bill in another currency, or more than the    *)
(* balance, is refused and changes nothing.                                *)
Covered(p, a) == a <= balances[p]

Take(t, o, next) ==
    /\ pc[t] = "idle"
    /\ Covered(o.payer, o.amount)
    /\ Goto(t, next) /\ op' = [op EXCEPT ![t] = o]
    /\ balances' = [balances EXCEPT ![o.payer] = @ - o.amount]
    /\ UNCHANGED <<credited_refs, top_ups, debits, refunds, next_tx_seq, holder>>

debit(t, o) == Take(t, o, "number_debit")
refund(t, o) == Take(t, o, "number_refund")

push_debit(t) == /\ pc[t] = "push_debit" /\ Return(t)
                 /\ debits' = debits \cup {op[t]}
                 /\ UNCHANGED <<balances, credited_refs, top_ups, refunds, next_tx_seq, holder>>

push_refund(t) == /\ pc[t] = "push_refund" /\ Return(t)
                  /\ refunds' = refunds \cup {op[t]}
                  /\ UNCHANGED <<balances, credited_refs, top_ups, debits, next_tx_seq, holder>>

Unnumbered == {t \in Threads : pc[t] \in {"credit"} \cup DOMAIN After}
Begin(t) == /\ next_tx_seq + Cardinality(Unnumbered) < MaxSeq
            /\ \E p \in Payers, a \in Amounts :
                 \/ \E r \in Refs : top_up(t, New(p, a, r))
                 \/ debit(t, New(p, a, NoRef)) \/ refund(t, New(p, a, NoRef))

LedgerNext == \E t \in Threads :
    \/ Begin(t)
    \/ find(t) \/ credit(t) \/ next_seq(t) \/ push(t) \/ mark(t) \/ push_debit(t) \/ push_refund(t)

LedgerSpec == LedgerInit /\ [][LedgerNext]_ledgerVars

-----------------------------------------------------------------------------
(* Type correctness of the ledger.                                         *)
LedgerTypeOK ==
    /\ balances \in [Payers -> 0..MaxU]
    /\ credited_refs \subseteq Refs
    /\ top_ups \subseteq Record /\ debits \subseteq Record /\ refunds \subseteq Record
    /\ next_tx_seq \in Nat /\ holder \in Threads \cup {Nobody}
    /\ pc \in [Threads -> {"idle", "find", "credit", "number", "push", "mark",
                          "number_debit", "push_debit", "number_refund", "push_refund"}]
    /\ op \in [Threads -> Record \cup {NoOp}]

(* A reference counts as credited from the moment the balance rises.       *)
Crediting == {t \in Threads : pc[t] \in {"number", "push", "mark"}}
Account == INSTANCE CreditAccount
             WITH bal <- balances, applied <- credited_refs \cup {op[t].ref : t \in Crediting}

(* However its callers interleave between the locks, the ledger implements *)
(* the account: each funding reference raises a balance once, and a debit  *)
(* or a refund takes only what is there (PrepaidLedger::top_up, debit,     *)
(* refund).                                                                *)
IsAnAccount == Account!Spec

Records == top_ups \cup debits \cup refunds
(* A replayed top-up finds the one record of its reference, as top_up      *)
(* expects, and sequence numbers are given once (TopUpRecord, next_seq).   *)
RecordsSound ==
    /\ \A r \in credited_refs : Cardinality({x \in top_ups : x.ref = r}) = 1
    /\ \A x, y \in Records : x.seq = y.seq => x = y
    /\ Cardinality(Records) = Cardinality(top_ups) + Cardinality(debits) + Cardinality(refunds)
    /\ \A x \in Records : x.seq < next_tx_seq

Total(S, p) == SumFunction([x \in S |-> IF x.payer = p THEN x.amount ELSE 0])
InFlight(labels, p) ==
    SumFunction([t \in Threads |-> IF pc[t] \in labels /\ op[t].payer = p THEN op[t].amount ELSE 0])

(* The records explain the balance: with what is still to be recorded, a   *)
(* payer's credit is its top-ups less its debits and refunds, exactly      *)
(* until a balance has saturated.                                          *)
BalanceExplained ==
    \A p \in Payers :
        LET in == Total(top_ups, p) + InFlight({"number", "push"}, p)
            out == Total(debits, p) + Total(refunds, p)
                   + InFlight({"number_debit", "push_debit", "number_refund", "push_refund"}, p)
        IN  /\ balances[p] + out <= in
            /\ in <= MaxU => balances[p] + out = in
=============================================================================
