---------------------------- MODULE BillingProofs ----------------------------
(***************************************************************************)
(* pier-billing: the prepaid ledger, the settlement rails, the engine, the *)
(* signed objects and the arithmetic of tariffs; and pier-admin, which     *)
(* signs and bills with them.  For every instance.                         *)
(***************************************************************************)
EXTENDS MCBilling, SequenceTheorems, FiniteSums

-----------------------------------------------------------------------------
(***************************************************************************)
(* The prepaid ledger implements the credit account, for every number of   *)
(* threads, payers, references and amounts.                                *)
(*                                                                         *)
(* The account credits a reference in one step; the ledger raises the      *)
(* balance first and marks the reference three steps later.  What carries  *)
(* the argument is the mutex of credited_refs: the thread that holds it is *)
(* the only one between the look-up and the mark, so the reference it      *)
(* looked up is still unknown when the balance rises.                      *)
(***************************************************************************)

Locked == {"credit", "number", "push", "mark"}

\* The thread on its way to the mark holds the mutex, and nobody else is on that way.
LockInv == \A t \in Threads : pc[t] \in Locked <=> holder = t

\* Every operation under way has its payer and its amount, and a top-up one of
\* the references, one that is not credited yet.
OpInv == \A t \in Threads :
            /\ pc[t] # "idle" => op[t] \in Record
            /\ pc[t] \in Locked => op[t].ref \in Refs /\ op[t].ref \notin credited_refs

LedgerInv == LedgerTypeOK /\ LockInv /\ OpInv

\* The references the account has applied, as the ledger's state shows them.
Applied == credited_refs \cup {op[t].ref : t \in Crediting}

-----------------------------------------------------------------------------
LEMMA LedgerInitInv == LedgerInit => LedgerInv
BY PrepaidAssumption
   DEF LedgerInit, LedgerInv, LedgerTypeOK, LockInv, OpInv, Locked

\* A balance that is raised stays within u64.
LEMMA SaturatingAdd ==
    ASSUME NEW a \in 0..MaxU, NEW b \in Amounts
    PROVE  saturating_add(a, b) \in 0..MaxU
BY PrepaidAssumption DEF saturating_add

\* What a caller hands in is a record without a number.
LEMMA NewIsRecord ==
    ASSUME NEW p \in Payers, NEW a \in Amounts, NEW r \in Refs \cup {NoRef}
    PROVE  New(p, a, r) \in Record /\ New(p, a, r).ref = r
           /\ New(p, a, r).payer = p /\ New(p, a, r).amount = a
BY DEF New, Record

LEMMA TopUpInv ==
    ASSUME LedgerInv, NEW t \in Threads, NEW p \in Payers, NEW a \in Amounts, NEW r \in Refs,
           top_up(t, New(p, a, r))
    PROVE  LedgerInv'
<1>1. New(p, a, r) \in Record /\ New(p, a, r).ref = r  BY NewIsRecord
<1> DEFINE o == New(p, a, r)
<1> HIDE DEF o
<1>2. LedgerTypeOK'
  BY <1>1 DEF o, LedgerInv, LedgerTypeOK, top_up, Goto
<1>3. LockInv'
  BY PrepaidAssumption DEF LedgerInv, LedgerTypeOK, LockInv, Locked, top_up, Goto, Unlocked
<1>4. OpInv'
  BY <1>1 DEF o, LedgerInv, LedgerTypeOK, OpInv, Locked, top_up, Goto
<1> QED  BY <1>2, <1>3, <1>4 DEF LedgerInv

LEMMA TakeInv ==
    ASSUME LedgerInv, NEW t \in Threads, NEW p \in Payers, NEW a \in Amounts,
           NEW next \in {"number_debit", "number_refund"}, Take(t, New(p, a, NoRef), next)
    PROVE  LedgerInv'
<1> DEFINE o == New(p, a, NoRef)
<1>1. o \in Record /\ o.payer = p /\ o.amount = a  BY NewIsRecord
<1> HIDE DEF o
<1>2. balances[p] - a \in 0..MaxU
  BY <1>1, PrepaidAssumption DEF o, LedgerInv, LedgerTypeOK, Take, Covered
<1>3. LedgerTypeOK'
  BY <1>1, <1>2 DEF o, LedgerInv, LedgerTypeOK, Take, Goto
<1>4. LockInv'
  BY DEF LedgerInv, LedgerTypeOK, LockInv, Locked, Take, Goto
<1>5. OpInv'
  BY <1>1 DEF o, LedgerInv, LedgerTypeOK, OpInv, Locked, Take, Goto
<1> QED  BY <1>3, <1>4, <1>5 DEF LedgerInv

LEMMA CreditInv ==
    ASSUME LedgerInv, NEW t \in Threads, credit(t)  PROVE  LedgerInv'
<1>1. op[t] \in Record  BY DEF LedgerInv, OpInv, credit
<1>2. saturating_add(balances[op[t].payer], op[t].amount) \in 0..MaxU
  BY <1>1, SaturatingAdd DEF LedgerInv, LedgerTypeOK, Record
<1>3. LedgerTypeOK'
  BY <1>1, <1>2 DEF LedgerInv, LedgerTypeOK, credit, Goto
<1>4. LockInv' /\ OpInv'
  BY DEF LedgerInv, LedgerTypeOK, LockInv, OpInv, Locked, credit, Goto
<1> QED  BY <1>3, <1>4 DEF LedgerInv

LEMMA NextSeqInv ==
    ASSUME LedgerInv, NEW t \in Threads, next_seq(t)  PROVE  LedgerInv'
<1>1. pc[t] \in {"number", "number_debit", "number_refund"} /\ op[t] \in Record
  BY DEF LedgerInv, OpInv, next_seq, After
<1>2. After[pc[t]] \in {"push", "push_debit", "push_refund"}
      /\ (After[pc[t]] = "push" <=> pc[t] = "number")
  BY <1>1 DEF After
<1>3. [op[t] EXCEPT !.seq = next_tx_seq] \in Record
      /\ [op[t] EXCEPT !.seq = next_tx_seq].ref = op[t].ref
  BY <1>1 DEF Record, LedgerInv, LedgerTypeOK
<1>4. op' = [op EXCEPT ![t] = [op[t] EXCEPT !.seq = next_tx_seq]]
  BY DEF next_seq, LedgerInv, LedgerTypeOK
<1>5. LedgerTypeOK'
  BY <1>2, <1>3, <1>4 DEF LedgerInv, LedgerTypeOK, next_seq, Goto
<1>6. LockInv'
  BY <1>1, <1>2 DEF LedgerInv, LedgerTypeOK, LockInv, Locked, next_seq, Goto
<1>7. OpInv'
  BY <1>1, <1>2, <1>3, <1>4 DEF LedgerInv, LedgerTypeOK, OpInv, Locked, next_seq, Goto
<1> QED  BY <1>5, <1>6, <1>7 DEF LedgerInv

LEMMA PushInv ==
    ASSUME LedgerInv, NEW t \in Threads, push(t)  PROVE  LedgerInv'
<1>1. op[t] \in Record  BY DEF LedgerInv, OpInv, push
<1> QED  BY <1>1 DEF LedgerInv, LedgerTypeOK, LockInv, OpInv, Locked, push, Goto

LEMMA MarkInv ==
    ASSUME LedgerInv, NEW t \in Threads, mark(t)  PROVE  LedgerInv'
<1>1. op[t] \in Record /\ op[t].ref \in Refs  BY DEF LedgerInv, OpInv, mark, Locked
<1>2. LedgerTypeOK'
  BY <1>1 DEF LedgerInv, LedgerTypeOK, mark, Goto, Return
<1>3. LockInv'
  BY PrepaidAssumption DEF LedgerInv, LedgerTypeOK, LockInv, Locked, mark, Goto, Return
<1>4. \A k \in Threads : pc[k] \in Locked => k = t
  BY DEF LedgerInv, LockInv, mark, Locked
<1>5. OpInv'
  BY <1>4 DEF LedgerInv, LedgerTypeOK, OpInv, Locked, mark, Goto, Return
<1> QED  BY <1>2, <1>3, <1>5 DEF LedgerInv

\* The steps that end an operation without the mutex.
LEMMA EndInv ==
    ASSUME LedgerInv, NEW t \in Threads, find(t) \/ push_debit(t) \/ push_refund(t)
    PROVE  LedgerInv'
<1>1. op[t] \in Record  BY DEF LedgerInv, OpInv, find, push_debit, push_refund
<1>2. pc[t] \notin Locked  BY DEF find, push_debit, push_refund, Locked
<1>3. LedgerTypeOK'
  BY <1>1 DEF LedgerInv, LedgerTypeOK, find, push_debit, push_refund, Goto, Return
<1>4. LockInv'
  BY <1>2 DEF LedgerInv, LedgerTypeOK, LockInv, Locked, find, push_debit, push_refund, Goto, Return
<1>5. OpInv'
  BY <1>2 DEF LedgerInv, LedgerTypeOK, OpInv, Locked, find, push_debit, push_refund, Goto, Return
<1> QED  BY <1>3, <1>4, <1>5 DEF LedgerInv

LEMMA LedgerNextInv == ASSUME LedgerInv, [LedgerNext]_ledgerVars  PROVE LedgerInv'
<1>1. CASE UNCHANGED ledgerVars
  BY <1>1 DEF ledgerVars, LedgerInv, LedgerTypeOK, LockInv, OpInv
<1>2. ASSUME NEW t \in Threads, Begin(t)  PROVE LedgerInv'
  BY <1>2, TopUpInv, TakeInv DEF Begin, debit, refund
<1>3. ASSUME NEW t \in Threads,
             find(t) \/ credit(t) \/ next_seq(t) \/ push(t) \/ mark(t)
               \/ push_debit(t) \/ push_refund(t)
      PROVE  LedgerInv'
  BY <1>3, EndInv, CreditInv, NextSeqInv, PushInv, MarkInv
<1> QED  BY <1>1, <1>2, <1>3 DEF LedgerNext

\* Every variable of the ledger keeps its type: no balance leaves u64, however
\* top_up, debit and refund interleave.
THEOREM LedgerTypes == LedgerSpec => []LedgerTypeOK
<1>1. LedgerInv => LedgerTypeOK  BY DEF LedgerInv
<1> QED  BY <1>1, LedgerInitInv, LedgerNextInv, PTL DEF LedgerSpec

-----------------------------------------------------------------------------
(* The refinement: Applied and balances are the account's variables. *)

\* Between the locks nothing changes for the account.
LEMMA SilentSteps ==
    ASSUME LedgerInv, NEW t \in Threads,
           \/ \E p \in Payers, a \in Amounts, r \in Refs : top_up(t, New(p, a, r))
           \/ find(t) \/ push_debit(t) \/ push_refund(t)
    PROVE  balances' = balances /\ Applied' = Applied
<1>1. pc[t] \notin {"number", "push", "mark"} /\ pc'[t] \notin {"number", "push", "mark"}
  BY DEF LedgerInv, LedgerTypeOK, top_up, find, push_debit, push_refund, Goto, Return
<1>2. \A k \in Threads \ {t} : pc'[k] = pc[k] /\ op'[k] = op[k]
  BY DEF LedgerInv, LedgerTypeOK, top_up, find, push_debit, push_refund, Goto, Return
<1>3. balances' = balances /\ credited_refs' = credited_refs
  BY DEF top_up, find, push_debit, push_refund
<1>4. Crediting' = Crediting /\ t \notin Crediting  BY <1>1, <1>2 DEF Crediting
<1> QED  BY <1>2, <1>3, <1>4 DEF Applied, Crediting

\* The number and the record of an operation change nothing for the account either.
LEMMA NumberSteps ==
    ASSUME LedgerInv, NEW t \in Threads, next_seq(t) \/ push(t)
    PROVE  balances' = balances /\ Applied' = Applied
<1>1. op[t] \in Record  BY DEF LedgerInv, OpInv, next_seq, push, After
<1>2. op'[t].ref = op[t].ref
  <2>1. CASE next_seq(t)
    <3>1. op' = [op EXCEPT ![t] = [op[t] EXCEPT !.seq = next_tx_seq]]
      BY <2>1 DEF next_seq, LedgerInv, LedgerTypeOK
    <3> QED  BY <1>1, <3>1 DEF LedgerInv, LedgerTypeOK, Record
  <2>2. CASE push(t)  BY <2>2 DEF push
  <2> QED  BY <2>1, <2>2
<1>3. pc[t] \in {"number", "push"} <=> pc'[t] \in {"push", "mark"}
      /\ pc[t] # "mark" /\ pc'[t] # "number"
  BY DEF next_seq, push, After, Goto, LedgerInv, LedgerTypeOK
<1>4. \A k \in Threads \ {t} : pc'[k] = pc[k] /\ op'[k] = op[k]
  BY DEF LedgerInv, LedgerTypeOK, next_seq, push, Goto
<1>5. balances' = balances /\ credited_refs' = credited_refs  BY DEF next_seq, push
<1>6. Crediting' = Crediting
  BY <1>3, <1>4 DEF Crediting, LedgerInv, LedgerTypeOK, next_seq, push, Goto, After
<1>7. \A k \in Threads : op'[k].ref = op[k].ref  BY <1>2, <1>4
<1> QED  BY <1>5, <1>6, <1>7 DEF Applied, Crediting

\* The balance rises: the account credits a reference that is new to it.
LEMMA CreditStep ==
    ASSUME LedgerInv, NEW t \in Threads, credit(t)
    PROVE  /\ op[t] \in Record /\ op[t].ref \in Refs /\ op[t].ref \notin Applied
           /\ Applied' = Applied \cup {op[t].ref}
<1>1. op[t] \in Record /\ op[t].ref \in Refs /\ op[t].ref \notin credited_refs
  BY DEF LedgerInv, OpInv, credit, Locked
<1>2. \A k \in Threads : pc[k] \in Locked => k = t
  BY DEF LedgerInv, LockInv, credit, Locked
<1>3. Crediting = {}  BY <1>2 DEF Crediting, Locked, credit
<1>4. Crediting' = {t}
  BY <1>2 DEF Crediting, Locked, credit, Goto, LedgerInv, LedgerTypeOK
<1>5. op' = op /\ credited_refs' = credited_refs  BY DEF credit
<1> QED  BY <1>1, <1>3, <1>4, <1>5 DEF Applied

\* The mark hands the reference over from the thread to the set.
LEMMA MarkStep ==
    ASSUME LedgerInv, NEW t \in Threads, mark(t)
    PROVE  balances' = balances /\ Applied' = Applied
<1>1. \A k \in Threads : pc[k] \in Locked => k = t
  BY DEF LedgerInv, LockInv, mark, Locked
<1>2. Crediting = {t}  BY <1>1 DEF Crediting, Locked, mark
<1>3. Crediting' = {}
  BY <1>1 DEF Crediting, Locked, mark, Goto, Return, LedgerInv, LedgerTypeOK
<1>4. credited_refs' = credited_refs \cup {op[t].ref} /\ balances' = balances  BY DEF mark
<1> QED  BY <1>2, <1>3, <1>4 DEF Applied

\* A debit or a refund takes what the balance covers.
LEMMA TakeStep ==
    ASSUME LedgerInv, NEW t \in Threads, NEW p \in Payers, NEW a \in Amounts,
           NEW next \in {"number_debit", "number_refund"}, Take(t, New(p, a, NoRef), next)
    PROVE  Applied' = Applied /\ balances[p] >= a
           /\ balances' = [balances EXCEPT ![p] = @ - a]
<1>1. New(p, a, NoRef).payer = p /\ New(p, a, NoRef).amount = a  BY NewIsRecord
<1>2. balances[p] >= a /\ balances' = [balances EXCEPT ![p] = @ - a]
  BY <1>1, PrepaidAssumption DEF Take, Covered, LedgerInv, LedgerTypeOK
<1>3. pc[t] \notin {"number", "push", "mark"} /\ pc'[t] \notin {"number", "push", "mark"}
  BY DEF LedgerInv, LedgerTypeOK, Take, Goto
<1>4. \A k \in Threads \ {t} : pc'[k] = pc[k] /\ op'[k] = op[k]
  BY DEF LedgerInv, LedgerTypeOK, Take, Goto
<1>5. Crediting' = Crediting /\ t \notin Crediting  BY <1>3, <1>4 DEF Crediting
<1>6. Applied' = Applied  BY <1>4, <1>5 DEF Applied, Crediting, Take
<1> QED  BY <1>2, <1>6

LEMMA AccountStep ==
    ASSUME LedgerInv, [LedgerNext]_ledgerVars
    PROVE  [Account!Next]_<<balances, Applied>>
<1>1. CASE UNCHANGED ledgerVars
  BY <1>1 DEF ledgerVars, Applied, Crediting
<1>2. ASSUME NEW t \in Threads, credit(t)  PROVE Account!Next
  <2>1. op[t] \in Record /\ op[t].ref \in Refs  BY <1>2, CreditStep
  <2>2. PICK p \in Payers, a \in Amounts, r \in Refs :
          p = op[t].payer /\ a = op[t].amount /\ r = op[t].ref
    BY <2>1 DEF Record
  <2>3. Account!Credit(p, a, r)
    BY <1>2, <2>2, CreditStep
       DEF Account!Credit, Account!saturating_add, saturating_add, Applied, credit
  <2> QED  BY <2>3 DEF Account!Next
<1>3. ASSUME NEW t \in Threads, NEW p \in Payers, NEW a \in Amounts,
             NEW next \in {"number_debit", "number_refund"}, Take(t, New(p, a, NoRef), next)
      PROVE  Account!Next
  <2>1. Account!Spend(p, a)  BY <1>3, TakeStep DEF Account!Spend, Applied
  <2> QED  BY <2>1 DEF Account!Next
<1>4. ASSUME NEW t \in Threads, Begin(t)  PROVE [Account!Next]_<<balances, Applied>>
  BY <1>4, <1>3, SilentSteps DEF Begin, debit, refund
<1>5. ASSUME NEW t \in Threads, find(t) \/ next_seq(t) \/ push(t) \/ mark(t)
                                   \/ push_debit(t) \/ push_refund(t)
      PROVE  UNCHANGED <<balances, Applied>>
  BY <1>5, SilentSteps, NumberSteps, MarkStep
<1> QED  BY <1>1, <1>2, <1>4, <1>5 DEF LedgerNext

\* However its callers interleave between the locks, the ledger implements the
\* account: each funding reference raises a balance once, and a debit or a refund
\* takes only what is there.
THEOREM LedgerIsAnAccount == LedgerSpec => IsAnAccount
<1>1. LedgerInit => Account!Init
  BY DEF LedgerInit, Account!Init, Crediting
<1>2. ASSUME LedgerInv, [LedgerNext]_ledgerVars
      PROVE  [Account!Next]_<<balances, credited_refs \cup {op[t].ref : t \in Crediting}>>
  BY <1>2, AccountStep DEF Applied
<1> QED
  BY <1>1, <1>2, LedgerInitInv, LedgerNextInv, PTL
     DEF LedgerSpec, IsAnAccount, Account!Spec, Account!accountVars

-----------------------------------------------------------------------------
(***************************************************************************)
(* The records of the ledger.  debit and refund let the balances go before *)
(* they are numbered, and are recorded later still, so the records are     *)
(* neither in order nor complete.  What holds is that a number that was    *)
(* drawn belongs to one record or to one operation on its way to it, and   *)
(* that a reference has a record once it is credited, or the operation     *)
(* that holds the mutex is about to credit it.                             *)
(***************************************************************************)

\* Numbered, and not on record yet.
Unrecorded(t) == pc[t] \in {"push", "push_debit", "push_refund"}

NumbersInv ==
    /\ \A t \in Threads : Unrecorded(t) => /\ op[t].seq < next_tx_seq
                                           /\ \A x \in Records : x.seq # op[t].seq
    /\ \A t, u \in Threads : Unrecorded(t) /\ Unrecorded(u) /\ op[t].seq = op[u].seq => t = u
    /\ \A x, y \in Records : x.seq = y.seq => x = y
    /\ \A x \in Records : x.seq < next_tx_seq

\* The three lists are finite and share no record.
ListsInv ==
    /\ IsFiniteSet(top_ups) /\ IsFiniteSet(debits) /\ IsFiniteSet(refunds)
    /\ top_ups \cap debits = {} /\ top_ups \cap refunds = {} /\ debits \cap refunds = {}

RefsInv ==
    /\ \A x, y \in top_ups : x.ref = y.ref => x = y
    /\ \A r \in credited_refs : \E x \in top_ups : x.ref = r
    /\ \A x \in top_ups : x.ref \in credited_refs \/ \E t \in Threads : pc[t] = "mark" /\ op[t].ref = x.ref
    /\ \A t \in Threads : pc[t] = "mark" => op[t] \in top_ups

RecordsInv == NumbersInv /\ ListsInv /\ RefsInv

LEMMA RecordsInitInv == LedgerInit => RecordsInv
BY FS_EmptySet DEF LedgerInit, RecordsInv, NumbersInv, ListsInv, RefsInv, Records, Unrecorded

\* A thread that has no number and gets none.
LEMMA UnnumberedStep ==
    ASSUME LedgerInv, RecordsInv, NEW t \in Threads,
           ~Unrecorded(t), pc[t] # "mark", ~Unrecorded(t)', pc'[t] # "mark",
           \A u \in Threads \ {t} : pc'[u] = pc[u] /\ op'[u] = op[u],
           UNCHANGED <<credited_refs, top_ups, debits, refunds, next_tx_seq>>
    PROVE  RecordsInv'
<1>1. \A u \in Threads : Unrecorded(u)' => Unrecorded(u) /\ op'[u] = op[u] BY DEF Unrecorded
<1>2. \A u \in Threads : (pc'[u] = "mark" <=> pc[u] = "mark") /\ (pc[u] = "mark" => op'[u] = op[u])
  OBVIOUS
<1>3. Records' = Records BY DEF Records
<1>4. NumbersInv' BY <1>1, <1>3 DEF RecordsInv, NumbersInv
<1>5. ListsInv' BY DEF RecordsInv, ListsInv
<1>6. RefsInv' BY <1>2 DEF RecordsInv, RefsInv
<1> QED BY <1>4, <1>5, <1>6 DEF RecordsInv

LEMMA NumberedStep == ASSUME LedgerInv, RecordsInv, NEW t \in Threads, next_seq(t)  PROVE RecordsInv'
<1>1. op[t] \in Record /\ pc[t] \in {"number", "number_debit", "number_refund"}
  BY DEF LedgerInv, OpInv, next_seq, After
<1>2. pc'[t] \in {"push", "push_debit", "push_refund"}
  BY <1>1 DEF next_seq, After, Goto, LedgerInv, LedgerTypeOK
<1>3. op' = [op EXCEPT ![t] = [op[t] EXCEPT !.seq = next_tx_seq]]
  BY DEF next_seq, LedgerInv, LedgerTypeOK
<1>4. op'[t].seq = next_tx_seq
  <2>1. op'[t] = [op[t] EXCEPT !.seq = next_tx_seq] BY <1>3 DEF LedgerInv, LedgerTypeOK
  <2> QED BY <1>1, <2>1 DEF Record
<1>5. \A u \in Threads \ {t} : pc'[u] = pc[u] /\ op'[u] = op[u]
  BY <1>3 DEF next_seq, Goto, LedgerInv, LedgerTypeOK
<1>6. next_tx_seq' = next_tx_seq + 1 /\ next_tx_seq \in Nat
      /\ UNCHANGED <<credited_refs, top_ups, debits, refunds>>
  BY DEF next_seq, LedgerInv, LedgerTypeOK
<1>7. Records' = Records /\ \A x \in Records : x.seq \in Nat
  BY <1>6 DEF Records, LedgerInv, LedgerTypeOK, Record
<1>8. \A u \in Threads \ {t} : Unrecorded(u)' <=> Unrecorded(u) BY <1>5 DEF Unrecorded
<1>9. \A u \in Threads : Unrecorded(u) => op[u].seq \in Nat BY DEF Unrecorded, LedgerInv, OpInv, Record
<1>10. NumbersInv'
  <2>1. \A u \in Threads : Unrecorded(u)' => /\ op'[u].seq < next_tx_seq'
                                             /\ \A x \in Records' : x.seq # op'[u].seq
    BY <1>4, <1>5, <1>6, <1>7, <1>8, <1>9 DEF RecordsInv, NumbersInv
  <2>2. \A u, v \in Threads : Unrecorded(u)' /\ Unrecorded(v)' /\ op'[u].seq = op'[v].seq => u = v
    BY <1>4, <1>5, <1>6, <1>8, <1>9 DEF RecordsInv, NumbersInv
  <2>3. \A x \in Records' : x.seq < next_tx_seq' BY <1>6, <1>7 DEF RecordsInv, NumbersInv
  <2>4. \A x, y \in Records' : x.seq = y.seq => x = y BY <1>7 DEF RecordsInv, NumbersInv
  <2> QED BY <2>1, <2>2, <2>3, <2>4 DEF NumbersInv
<1>11. ListsInv' BY <1>6 DEF RecordsInv, ListsInv
<1>12. RefsInv'
  <2>1. \A u \in Threads : (pc'[u] = "mark" <=> pc[u] = "mark") /\ (pc[u] = "mark" => op'[u] = op[u])
    BY <1>1, <1>2, <1>5
  <2> QED BY <1>6, <2>1 DEF RecordsInv, RefsInv
<1> QED BY <1>10, <1>11, <1>12 DEF RecordsInv

\* What is put on record is new there.
LEMMA RecordedNumbers ==
    ASSUME LedgerInv, RecordsInv, NEW t \in Threads, Unrecorded(t), ~Unrecorded(t)',
           \A u \in Threads \ {t} : pc'[u] = pc[u] /\ op'[u] = op[u],
           Records' = Records \cup {op[t]}, next_tx_seq' = next_tx_seq
    PROVE  NumbersInv' /\ op[t] \notin Records
<1>1. op[t] \notin Records BY DEF RecordsInv, NumbersInv
<1>2. \A u \in Threads : Unrecorded(u)' => u # t /\ Unrecorded(u) /\ op'[u] = op[u] BY DEF Unrecorded
<1>3. \A u \in Threads : Unrecorded(u)' => /\ op'[u].seq < next_tx_seq'
                                           /\ \A x \in Records' : x.seq # op'[u].seq
  BY <1>2 DEF RecordsInv, NumbersInv
<1>4. \A u, v \in Threads : Unrecorded(u)' /\ Unrecorded(v)' /\ op'[u].seq = op'[v].seq => u = v
  BY <1>2 DEF RecordsInv, NumbersInv
<1>5. \A x, y \in Records' : x.seq = y.seq => x = y BY DEF RecordsInv, NumbersInv
<1>6. \A x \in Records' : x.seq < next_tx_seq' BY DEF RecordsInv, NumbersInv
<1> QED BY <1>1, <1>3, <1>4, <1>5, <1>6 DEF NumbersInv

LEMMA PushedStep == ASSUME LedgerInv, RecordsInv, NEW t \in Threads, push(t)  PROVE RecordsInv'
<1>1. /\ Unrecorded(t) /\ pc[t] = "push" /\ pc'[t] = "mark" /\ op' = op
      /\ \A u \in Threads \ {t} : pc'[u] = pc[u]
      /\ top_ups' = top_ups \cup {op[t]} /\ UNCHANGED <<credited_refs, debits, refunds, next_tx_seq>>
  BY DEF push, Goto, LedgerInv, LedgerTypeOK, Unrecorded
<1>2. Records' = Records \cup {op[t]} BY <1>1 DEF Records
<1>3. ~Unrecorded(t)' BY <1>1 DEF Unrecorded
<1>4. NumbersInv' /\ op[t] \notin Records BY <1>1, <1>2, <1>3, RecordedNumbers
<1>5. ListsInv' BY <1>1, <1>4, FS_AddElement DEF RecordsInv, ListsInv, Records
<1>6. \A u \in Threads : pc[u] \in Locked => u = t BY <1>1 DEF LedgerInv, LockInv, Locked
<1>7. \A x \in top_ups : x.ref \in credited_refs
  BY <1>1, <1>6 DEF RecordsInv, RefsInv, Locked
<1>8. op[t].ref \notin credited_refs BY <1>1 DEF LedgerInv, OpInv, Locked
<1>9. RefsInv'
  <2>1. \A x, y \in top_ups' : x.ref = y.ref => x = y BY <1>1, <1>7, <1>8 DEF RecordsInv, RefsInv
  <2>2. \A r \in credited_refs' : \E x \in top_ups' : x.ref = r BY <1>1 DEF RecordsInv, RefsInv
  <2>3. \A x \in top_ups' : x.ref \in credited_refs' \/ \E u \in Threads : pc'[u] = "mark" /\ op'[u].ref = x.ref
    BY <1>1, <1>7
  <2>4. \A u \in Threads : pc'[u] = "mark" => op'[u] \in top_ups'
    BY <1>1, <1>6 DEF Locked
  <2> QED BY <2>1, <2>2, <2>3, <2>4 DEF RefsInv
<1> QED BY <1>4, <1>5, <1>9 DEF RecordsInv

LEMMA TakenStep ==
    ASSUME LedgerInv, RecordsInv, NEW t \in Threads, push_debit(t) \/ push_refund(t)  PROVE RecordsInv'
<1>1. /\ Unrecorded(t) /\ pc[t] # "mark" /\ pc'[t] = "idle"
      /\ \A u \in Threads \ {t} : pc'[u] = pc[u] /\ op'[u] = op[u]
      /\ UNCHANGED <<credited_refs, top_ups, next_tx_seq>>
      /\ \/ debits' = debits \cup {op[t]} /\ refunds' = refunds
         \/ refunds' = refunds \cup {op[t]} /\ debits' = debits
  BY DEF push_debit, push_refund, Return, Goto, LedgerInv, LedgerTypeOK, Unrecorded
<1>2. Records' = Records \cup {op[t]} BY <1>1 DEF Records
<1>3. ~Unrecorded(t)' BY <1>1 DEF Unrecorded
<1>4. NumbersInv' /\ op[t] \notin Records BY <1>1, <1>2, <1>3, RecordedNumbers
<1>5. ListsInv' BY <1>1, <1>4, FS_AddElement DEF RecordsInv, ListsInv, Records
<1>6. \A u \in Threads : (pc'[u] = "mark" <=> pc[u] = "mark") /\ (pc[u] = "mark" => op'[u] = op[u])
  BY <1>1
<1>7. RefsInv' BY <1>1, <1>6 DEF RecordsInv, RefsInv
<1> QED BY <1>4, <1>5, <1>7 DEF RecordsInv

LEMMA MarkedStep == ASSUME LedgerInv, RecordsInv, NEW t \in Threads, mark(t)  PROVE RecordsInv'
<1>1. /\ pc[t] = "mark" /\ pc'[t] = "idle"
      /\ \A u \in Threads \ {t} : pc'[u] = pc[u] /\ op'[u] = op[u]
      /\ credited_refs' = credited_refs \cup {op[t].ref}
      /\ UNCHANGED <<top_ups, debits, refunds, next_tx_seq>>
  BY DEF mark, Return, Goto, LedgerInv, LedgerTypeOK
<1>2. Records' = Records BY <1>1 DEF Records
<1>3. \A u \in Threads : Unrecorded(u)' => Unrecorded(u) /\ op'[u] = op[u] BY <1>1 DEF Unrecorded
<1>4. NumbersInv' BY <1>1, <1>2, <1>3 DEF RecordsInv, NumbersInv
<1>5. ListsInv' BY <1>1 DEF RecordsInv, ListsInv
<1>6. \A u \in Threads : pc[u] \in Locked => u = t BY <1>1 DEF LedgerInv, LockInv, Locked
<1>7. \A u \in Threads : pc[u] = "mark" => u = t BY <1>6 DEF Locked
<1>8. op[t] \in top_ups BY <1>1 DEF RecordsInv, RefsInv
<1>9. RefsInv' BY <1>1, <1>7, <1>8 DEF RecordsInv, RefsInv
<1> QED BY <1>4, <1>5, <1>9 DEF RecordsInv

LEMMA BeginsUnnumbered ==
    ASSUME LedgerInv, RecordsInv, NEW t \in Threads, Begin(t) \/ find(t) \/ credit(t)  PROVE RecordsInv'
<1>1. /\ ~Unrecorded(t) /\ pc[t] # "mark"
      /\ UNCHANGED <<credited_refs, top_ups, debits, refunds, next_tx_seq>>
  BY DEF Unrecorded, Begin, top_up, debit, refund, Take, find, credit
<1>2. \A u \in Threads \ {t} : pc'[u] = pc[u] /\ op'[u] = op[u]
  BY DEF Begin, top_up, debit, refund, Take, find, credit, Goto, Return, LedgerInv, LedgerTypeOK
<1>3. pc'[t] \in {"find", "credit", "number_debit", "number_refund", "idle", "number"}
  BY DEF Begin, top_up, debit, refund, Take, find, credit, Goto, Return, LedgerInv, LedgerTypeOK
<1>4. ~Unrecorded(t)' /\ pc'[t] # "mark" BY <1>3 DEF Unrecorded
<1> QED BY <1>1, <1>2, <1>4, UnnumberedStep

LEMMA RecordsNextInv == ASSUME LedgerInv, RecordsInv, [LedgerNext]_ledgerVars  PROVE RecordsInv'
<1>1. CASE UNCHANGED ledgerVars
  BY <1>1 DEF ledgerVars, RecordsInv, NumbersInv, ListsInv, RefsInv, Records, Unrecorded
<1> QED BY <1>1, BeginsUnnumbered, NumberedStep, PushedStep, TakenStep, MarkedStep DEF LedgerNext

LEMMA RecordsAreSound == ASSUME RecordsInv PROVE RecordsSound
<1>1. ASSUME NEW r \in credited_refs PROVE Cardinality({x \in top_ups : x.ref = r}) = 1
  <2>1. PICK x \in top_ups : x.ref = r BY DEF RecordsInv, RefsInv
  <2>2. {y \in top_ups : y.ref = r} = {x} BY <2>1 DEF RecordsInv, RefsInv
  <2> QED BY <2>2, FS_Singleton
<1>2. Cardinality(Records) = Cardinality(top_ups) + Cardinality(debits) + Cardinality(refunds)
  <2>1. top_ups \cap debits = {} /\ (top_ups \cup debits) \cap refunds = {} BY DEF RecordsInv, ListsInv
  <2>2. IsFiniteSet(top_ups \cup debits)
        /\ Cardinality(top_ups \cup debits) = Cardinality(top_ups) + Cardinality(debits)
    BY <2>1, CardinalityParts DEF RecordsInv, ListsInv
  <2>3. Cardinality(top_ups \cup debits \cup refunds) = Cardinality(top_ups \cup debits) + Cardinality(refunds)
    BY <2>1, <2>2, CardinalityParts DEF RecordsInv, ListsInv
  <2> QED BY <2>2, <2>3, Zenon DEF Records
<1> QED BY <1>1, <1>2 DEF RecordsSound, RecordsInv, NumbersInv

-----------------------------------------------------------------------------
(***************************************************************************)
(* The records explain the balances.  An operation is counted from the     *)
(* moment it changes a balance: until it is recorded its share is in       *)
(* flight, and the record takes the share over.                            *)
(***************************************************************************)

In == {"number", "push"}
Out == {"number_debit", "push_debit", "number_refund", "push_refund"}

\* The share of payer p in operation o of a thread at l.
Share(o, l, labels, p) == IF l \in labels /\ o.payer = p THEN o.amount ELSE 0
Owed(x, p) == IF x.payer = p THEN x.amount ELSE 0

LEMMA AmountsCount == \A x \in Record \cup {NoOp} : x.amount \in Nat
<1>1. Amounts \subseteq Nat BY PrepaidAssumption
<1>2. \A x \in Record : x.amount \in Nat BY <1>1 DEF Record
<1>3. NoOp.amount = 0 BY DEF NoOp, New
<1> QED BY <1>2, <1>3

LEMMA Shares ==
    ASSUME LedgerTypeOK, NEW labels, NEW p
    PROVE  /\ \A t \in Threads : Share(op[t], pc[t], labels, p) \in Nat
           /\ \A x \in Record : Owed(x, p) \in Nat
<1>1. \A t \in Threads : op[t].amount \in Nat BY AmountsCount DEF LedgerTypeOK
<1>2. \A x \in Record : x.amount \in Nat BY AmountsCount
<1> QED BY <1>1, <1>2 DEF Share, Owed

\* One thread moves, and what is in flight changes by its share.
LEMMA Flight ==
    ASSUME LedgerTypeOK, LedgerTypeOK', NEW t \in Threads, NEW labels, NEW p,
           \A u \in Threads \ {t} : pc'[u] = pc[u] /\ op'[u] = op[u]
    PROVE  /\ InFlight(labels, p)' + Share(op[t], pc[t], labels, p)
                = InFlight(labels, p) + Share(op'[t], pc'[t], labels, p)
           /\ InFlight(labels, p) \in Nat /\ InFlight(labels, p)' \in Nat
<1> DEFINE w == [u \in Threads |-> Share(op[u], pc[u], labels, p)]
           v == [u \in Threads |-> Share(op'[u], pc'[u], labels, p)]
<1>1. InFlight(labels, p) = SumFunction(w) /\ InFlight(labels, p)' = SumFunction(v)
  BY DEF InFlight, Share
<1>2. DOMAIN w = Threads /\ DOMAIN v = Threads OBVIOUS
<1>3. \A u \in Threads : w[u] \in Nat BY Shares
<1>4. \A u \in Threads : v[u] \in Nat
  <2>1. \A u \in Threads : op'[u].amount \in Nat BY AmountsCount DEF LedgerTypeOK
  <2> QED BY <2>1 DEF Share
<1>5. \A u \in Threads \ {t} : v[u] = w[u] OBVIOUS
<1>6. w[t] = Share(op[t], pc[t], labels, p) /\ v[t] = Share(op'[t], pc'[t], labels, p) OBVIOUS
<1> HIDE DEF w, v
<1>7. SumFunction(w) = SumOver(w, Threads) /\ SumFunction(v) = SumOver(v, Threads) BY <1>2, SumAll
<1>8. SumOver(v, Threads) + w[t] = SumOver(w, Threads) + v[t]
      /\ SumOver(v, Threads) \in Nat /\ SumOver(w, Threads) \in Nat
  BY <1>3, <1>4, <1>5, PrepaidAssumption, SumChange
<1> QED BY <1>1, <1>6, <1>7, <1>8

LEMMA TotalType ==
    ASSUME NEW S, S \subseteq Record, IsFiniteSet(S), NEW p
    PROVE  Total(S, p) \in Nat
<1> DEFINE w == [x \in S |-> Owed(x, p)]
<1>1. Total(S, p) = SumFunction(w) BY DEF Total, Owed
<1>2. DOMAIN w = S /\ \A x \in S : w[x] \in Nat BY AmountsCount DEF Owed
<1> HIDE DEF w
<1> QED BY <1>1, <1>2, SumAll, SumType

\* A record more, and the total of its payer rises by its amount.
LEMMA TotalAdd ==
    ASSUME NEW S, S \subseteq Record, IsFiniteSet(S), NEW y \in Record, y \notin S, NEW p
    PROVE  Total(S \cup {y}, p) = Total(S, p) + Owed(y, p)
<1> DEFINE U == S \cup {y}
           w == [x \in S |-> Owed(x, p)]
           v == [x \in U |-> Owed(x, p)]
<1>1. Total(S, p) = SumFunction(w) /\ Total(U, p) = SumFunction(v) BY DEF Total, Owed
<1>2. DOMAIN w = S /\ DOMAIN v = U OBVIOUS
<1>3. \A x \in S : w[x] \in Nat BY AmountsCount DEF Owed
<1>4. \A x \in U : v[x] \in Nat BY AmountsCount DEF Owed
<1>5. v[y] = Owed(y, p) /\ \A x \in S : v[x] = w[x] OBVIOUS
<1>6. IsFiniteSet(U) BY FS_AddElement
<1> HIDE DEF w, v
<1>7. SumFunction(w) = SumOver(w, S) BY <1>2, SumAll
<1>8. SumFunction(v) = SumOver(v, U) BY <1>2, SumAll
<1>9. SumOver(v, S) = SumOver(w, S) BY <1>3, <1>5, SumSame
<1>10. SumOver(v, S \cup {y}) = SumOver(v, S) + v[y] BY <1>4, SumAdd
<1> QED BY <1>1, <1>5, <1>7, <1>8, <1>9, <1>10

LEMMA ExplainedInit == LedgerInit => BalanceExplained
<1> SUFFICES ASSUME LedgerInit, NEW p \in Payers
             PROVE  /\ balances[p] = 0 /\ Total({}, p) = 0
                    /\ InFlight(In, p) = 0 /\ InFlight(Out, p) = 0
  BY PrepaidAssumption DEF BalanceExplained, In, Out, LedgerInit
<1>1. balances[p] = 0 BY DEF LedgerInit
<1>2. Total({}, p) = 0
  <2> DEFINE w == [x \in {} |-> Owed(x, p)]
  <2>1. Total({}, p) = SumFunction(w) /\ DOMAIN w = {} BY DEF Total, Owed
  <2> HIDE DEF w
  <2> QED BY <2>1, SumAll, SumEmpty
<1>3. ASSUME NEW labels, "idle" \notin labels PROVE InFlight(labels, p) = 0
  <2> DEFINE w == [u \in Threads |-> Share(op[u], pc[u], labels, p)]
  <2>1. InFlight(labels, p) = SumFunction(w) /\ DOMAIN w = Threads BY DEF InFlight, Share
  <2>2. \A u \in Threads : w[u] = 0 BY <1>3 DEF LedgerInit, Share
  <2> HIDE DEF w
  <2> QED BY <2>1, <2>2, PrepaidAssumption, SumAll, SumZero
<1>4. "idle" \notin In /\ "idle" \notin Out BY DEF In, Out
<1> QED BY <1>1, <1>2, <1>3, <1>4

\* The account of one payer over a step, put together from its parts.
Explained(b, i, o) == b + o <= i /\ (i <= MaxU => b + o = i)

LEMMA ExplainedIs ==
    BalanceExplained <=>
      \A p \in Payers : Explained(balances[p], Total(top_ups, p) + InFlight(In, p),
                                  Total(debits, p) + Total(refunds, p) + InFlight(Out, p))
BY DEF BalanceExplained, Explained, In, Out

\* Nothing is taken, given or recorded.
LEMMA ExplainedQuiet ==
    ASSUME LedgerInv, LedgerInv', BalanceExplained, NEW t \in Threads,
           \A u \in Threads \ {t} : pc'[u] = pc[u] /\ op'[u] = op[u],
           \A p \in Payers : /\ Share(op'[t], pc'[t], In, p) = Share(op[t], pc[t], In, p)
                             /\ Share(op'[t], pc'[t], Out, p) = Share(op[t], pc[t], Out, p),
           UNCHANGED <<balances, top_ups, debits, refunds>>
    PROVE  BalanceExplained'
<1>1. ASSUME NEW p \in Payers
      PROVE  InFlight(In, p)' = InFlight(In, p) /\ InFlight(Out, p)' = InFlight(Out, p)
  <2>1. ASSUME NEW labels \in {In, Out} PROVE InFlight(labels, p)' = InFlight(labels, p)
    <3>1. /\ InFlight(labels, p)' + Share(op[t], pc[t], labels, p)
               = InFlight(labels, p) + Share(op'[t], pc'[t], labels, p)
          /\ InFlight(labels, p) \in Nat /\ InFlight(labels, p)' \in Nat
      BY Flight DEF LedgerInv
    <3>2. Share(op[t], pc[t], labels, p) \in Nat BY Shares DEF LedgerInv
    <3>3. Share(op'[t], pc'[t], labels, p) = Share(op[t], pc[t], labels, p) BY <2>1
    <3> QED BY <3>1, <3>2, <3>3
  <2> QED BY <2>1
<1>2. \A p \in Payers : Total(top_ups, p)' = Total(top_ups, p) /\ Total(debits, p)' = Total(debits, p)
                        /\ Total(refunds, p)' = Total(refunds, p)
  BY DEF Total
<1> QED BY <1>1, <1>2 DEF BalanceExplained, In, Out

\* A share that was in flight is on record, on one of the lists.
LEMMA ExplainedPush ==
    ASSUME LedgerInv, LedgerInv', RecordsInv, BalanceExplained, NEW t \in Threads,
           push(t) \/ push_debit(t) \/ push_refund(t)
    PROVE  BalanceExplained'
<1>1. op[t] \in Record /\ Unrecorded(t)
  BY DEF LedgerInv, OpInv, push, push_debit, push_refund, Unrecorded
<1>2. op[t] \notin top_ups /\ op[t] \notin debits /\ op[t] \notin refunds
  BY <1>1 DEF RecordsInv, NumbersInv, Records
<1>3. \A u \in Threads \ {t} : pc'[u] = pc[u] /\ op'[u] = op[u]
  BY DEF push, push_debit, push_refund, Return, Goto, LedgerInv, LedgerTypeOK
<1>4. pc'[t] \in {"mark", "idle"} /\ balances' = balances
  BY DEF push, push_debit, push_refund, Return, Goto, LedgerInv, LedgerTypeOK
<1>5. ASSUME NEW p \in Payers
      PROVE  Explained(balances'[p], Total(top_ups, p)' + InFlight(In, p)',
                       Total(debits, p)' + Total(refunds, p)' + InFlight(Out, p)')
  <2>1. PICK q \in Nat : q = Owed(op[t], p) BY <1>1, Shares DEF LedgerInv
  <2>2. Share(op'[t], pc'[t], In, p) = 0 /\ Share(op'[t], pc'[t], Out, p) = 0
    BY <1>4 DEF Share, In, Out
  <2>3. /\ InFlight(In, p)' + Share(op[t], pc[t], In, p) = InFlight(In, p) + 0
        /\ InFlight(In, p) \in Nat /\ InFlight(In, p)' \in Nat
        /\ InFlight(Out, p)' + Share(op[t], pc[t], Out, p) = InFlight(Out, p) + 0
        /\ InFlight(Out, p) \in Nat /\ InFlight(Out, p)' \in Nat
    BY <1>3, <2>2, Flight DEF LedgerInv
  <2>4. Total(top_ups, p) \in Nat /\ Total(debits, p) \in Nat /\ Total(refunds, p) \in Nat
    BY TotalType DEF LedgerInv, LedgerTypeOK, RecordsInv, ListsInv
  <2>5. Explained(balances[p], Total(top_ups, p) + InFlight(In, p),
                  Total(debits, p) + Total(refunds, p) + InFlight(Out, p))
    BY ExplainedIs
  <2>6. balances[p] \in Nat BY PrepaidAssumption DEF LedgerInv, LedgerTypeOK
  <2>7. CASE push(t)
    <3>1. Share(op[t], pc[t], In, p) = q /\ Share(op[t], pc[t], Out, p) = 0
      BY <2>1, <2>7 DEF push, Share, Owed, In, Out
    <3>2. top_ups' = top_ups \cup {op[t]} /\ debits' = debits /\ refunds' = refunds BY <2>7 DEF push
    <3>3. Total(top_ups \cup {op[t]}, p) = Total(top_ups, p) + q
      BY <1>1, <1>2, <2>1, TotalAdd DEF LedgerInv, LedgerTypeOK, RecordsInv, ListsInv
    <3>4. Total(top_ups, p)' = Total(top_ups, p) + q /\ Total(debits, p)' = Total(debits, p)
          /\ Total(refunds, p)' = Total(refunds, p)
      BY <3>2, <3>3 DEF Total
    <3> QED BY <1>4, <2>3, <2>4, <2>5, <2>6, <3>1, <3>4, PrepaidAssumption DEF Explained
  <2>8. CASE push_debit(t)
    <3>1. Share(op[t], pc[t], In, p) = 0 /\ Share(op[t], pc[t], Out, p) = q
      BY <2>1, <2>8 DEF push_debit, Share, Owed, In, Out
    <3>2. debits' = debits \cup {op[t]} /\ top_ups' = top_ups /\ refunds' = refunds BY <2>8 DEF push_debit
    <3>3. Total(debits \cup {op[t]}, p) = Total(debits, p) + q
      BY <1>1, <1>2, <2>1, TotalAdd DEF LedgerInv, LedgerTypeOK, RecordsInv, ListsInv
    <3>4. Total(debits, p)' = Total(debits, p) + q /\ Total(top_ups, p)' = Total(top_ups, p)
          /\ Total(refunds, p)' = Total(refunds, p)
      BY <3>2, <3>3 DEF Total
    <3> QED BY <1>4, <2>3, <2>4, <2>5, <2>6, <3>1, <3>4, PrepaidAssumption DEF Explained
  <2>9. CASE push_refund(t)
    <3>1. Share(op[t], pc[t], In, p) = 0 /\ Share(op[t], pc[t], Out, p) = q
      BY <2>1, <2>9 DEF push_refund, Share, Owed, In, Out
    <3>2. refunds' = refunds \cup {op[t]} /\ top_ups' = top_ups /\ debits' = debits BY <2>9 DEF push_refund
    <3>3. Total(refunds \cup {op[t]}, p) = Total(refunds, p) + q
      BY <1>1, <1>2, <2>1, TotalAdd DEF LedgerInv, LedgerTypeOK, RecordsInv, ListsInv
    <3>4. Total(refunds, p)' = Total(refunds, p) + q /\ Total(top_ups, p)' = Total(top_ups, p)
          /\ Total(debits, p)' = Total(debits, p)
      BY <3>2, <3>3 DEF Total
    <3> QED BY <1>4, <2>3, <2>4, <2>5, <2>6, <3>1, <3>4, PrepaidAssumption DEF Explained
  <2> QED BY <2>7, <2>8, <2>9
<1> QED BY <1>5 DEF BalanceExplained, Explained, In, Out

\* A balance changes, and the share of it that is in flight with it.
LEMMA ExplainedMoves ==
    ASSUME LedgerInv, LedgerInv', RecordsInv, BalanceExplained, NEW t \in Threads, NEW p \in Payers,
           \A u \in Threads \ {t} : pc'[u] = pc[u] /\ op'[u] = op[u],
           Share(op[t], pc[t], In, p) = 0, Share(op[t], pc[t], Out, p) = 0,
           UNCHANGED <<top_ups, debits, refunds>>, NEW q \in Nat,
           \/ /\ Share(op'[t], pc'[t], In, p) = q /\ Share(op'[t], pc'[t], Out, p) = 0
              /\ balances'[p] = saturating_add(balances[p], q)
           \/ /\ Share(op'[t], pc'[t], In, p) = 0 /\ Share(op'[t], pc'[t], Out, p) = q
              /\ balances'[p] = balances[p] - q
    PROVE  Explained(balances'[p], Total(top_ups, p)' + InFlight(In, p)',
                     Total(debits, p)' + Total(refunds, p)' + InFlight(Out, p)')
<1>1. /\ InFlight(In, p)' + 0 = InFlight(In, p) + Share(op'[t], pc'[t], In, p)
      /\ InFlight(In, p) \in Nat /\ InFlight(In, p)' \in Nat
      /\ InFlight(Out, p)' + 0 = InFlight(Out, p) + Share(op'[t], pc'[t], Out, p)
      /\ InFlight(Out, p) \in Nat /\ InFlight(Out, p)' \in Nat
  BY Flight DEF LedgerInv
<1>2. Total(top_ups, p) \in Nat /\ Total(debits, p) \in Nat /\ Total(refunds, p) \in Nat
  BY TotalType DEF LedgerInv, LedgerTypeOK, RecordsInv, ListsInv
<1>3. Total(top_ups, p)' = Total(top_ups, p) /\ Total(debits, p)' = Total(debits, p)
      /\ Total(refunds, p)' = Total(refunds, p)
  BY DEF Total
<1>4. Explained(balances[p], Total(top_ups, p) + InFlight(In, p),
                Total(debits, p) + Total(refunds, p) + InFlight(Out, p))
  BY ExplainedIs
<1>5. balances[p] \in Nat /\ MaxU \in Nat BY PrepaidAssumption DEF LedgerInv, LedgerTypeOK
<1> QED BY <1>1, <1>2, <1>3, <1>4, <1>5 DEF Explained, saturating_add

LEMMA ExplainedCredit ==
    ASSUME LedgerInv, LedgerInv', RecordsInv, BalanceExplained, NEW t \in Threads, credit(t)
    PROVE  BalanceExplained'
<1>1. op[t] \in Record BY DEF LedgerInv, OpInv, credit
<1>2. /\ pc[t] = "credit" /\ pc'[t] = "number" /\ op' = op /\ UNCHANGED <<top_ups, debits, refunds>>
      /\ \A u \in Threads \ {t} : pc'[u] = pc[u] /\ op'[u] = op[u]
      /\ balances' = [balances EXCEPT ![op[t].payer] = saturating_add(@, op[t].amount)]
  BY DEF credit, Goto, LedgerInv, LedgerTypeOK
<1>3. op[t].payer \in Payers BY <1>1 DEF Record
<1>4. \A p \in Payers : Owed(op[t], p) \in Nat BY <1>1, Shares DEF LedgerInv
<1>5. \A p \in Payers : /\ Share(op[t], pc[t], In, p) = 0 /\ Share(op[t], pc[t], Out, p) = 0
                        /\ Share(op'[t], pc'[t], In, p) = Owed(op[t], p)
                        /\ Share(op'[t], pc'[t], Out, p) = 0
  BY <1>2 DEF Share, Owed, In, Out
<1>6. \A p \in Payers : balances'[p] = saturating_add(balances[p], Owed(op[t], p))
  <2>1. \A p \in Payers : balances[p] \in 0..MaxU /\ saturating_add(balances[p], 0) = balances[p]
    BY PrepaidAssumption DEF LedgerInv, LedgerTypeOK, saturating_add
  <2> QED BY <1>2, <1>3, <2>1 DEF LedgerInv, LedgerTypeOK, Owed
<1>7. \A p \in Payers : Explained(balances'[p], Total(top_ups, p)' + InFlight(In, p)',
                                  Total(debits, p)' + Total(refunds, p)' + InFlight(Out, p)')
  BY <1>2, <1>4, <1>5, <1>6, ExplainedMoves
<1> QED BY <1>7 DEF BalanceExplained, Explained, In, Out

LEMMA ExplainedTake ==
    ASSUME LedgerInv, LedgerInv', RecordsInv, BalanceExplained, NEW t \in Threads,
           NEW payer \in Payers, NEW a \in Amounts,
           NEW next \in {"number_debit", "number_refund"}, Take(t, New(payer, a, NoRef), next)
    PROVE  BalanceExplained'
<1> DEFINE o == New(payer, a, NoRef)
<1>1. o \in Record /\ o.payer = payer /\ o.amount = a BY NewIsRecord
<1> HIDE DEF o
<1>2. /\ pc[t] = "idle" /\ pc'[t] = next /\ op'[t] = o /\ UNCHANGED <<top_ups, debits, refunds>>
      /\ \A u \in Threads \ {t} : pc'[u] = pc[u] /\ op'[u] = op[u]
      /\ balances' = [balances EXCEPT ![payer] = @ - a]
  BY <1>1 DEF o, Take, Goto, LedgerInv, LedgerTypeOK
<1>4. \A p \in Payers : Owed(o, p) \in Nat BY <1>1, Shares DEF LedgerInv
<1>5. \A p \in Payers : /\ Share(op[t], pc[t], In, p) = 0 /\ Share(op[t], pc[t], Out, p) = 0
                        /\ Share(op'[t], pc'[t], In, p) = 0
                        /\ Share(op'[t], pc'[t], Out, p) = Owed(o, p)
  BY <1>2 DEF Share, Owed, In, Out
<1>6. \A p \in Payers : balances'[p] = balances[p] - Owed(o, p)
  <2>1. \A p \in Payers : balances[p] \in 0..MaxU /\ balances[p] - 0 = balances[p]
    BY PrepaidAssumption DEF LedgerInv, LedgerTypeOK
  <2> QED BY <1>1, <1>2, <2>1 DEF LedgerInv, LedgerTypeOK, Owed
<1>7. \A p \in Payers : Explained(balances'[p], Total(top_ups, p)' + InFlight(In, p)',
                                  Total(debits, p)' + Total(refunds, p)' + InFlight(Out, p)')
  BY <1>2, <1>4, <1>5, <1>6, ExplainedMoves
<1> QED BY <1>7 DEF BalanceExplained, Explained, In, Out

LEMMA ExplainedSilent ==
    ASSUME LedgerInv, LedgerInv', BalanceExplained, NEW t \in Threads,
           \/ \E p \in Payers, a \in Amounts, r \in Refs : top_up(t, New(p, a, r))
           \/ find(t) \/ mark(t) \/ next_seq(t)
    PROVE  BalanceExplained'
<1>1. /\ \A u \in Threads \ {t} : pc'[u] = pc[u] /\ op'[u] = op[u]
      /\ UNCHANGED <<balances, top_ups, debits, refunds>>
  BY DEF top_up, find, mark, next_seq, Return, Goto, LedgerInv, LedgerTypeOK
<1>2. CASE next_seq(t)
  <2>1. op[t] \in Record /\ pc[t] \in {"number", "number_debit", "number_refund"}
    BY <1>2 DEF LedgerInv, OpInv, next_seq, After
  <2>2. pc'[t] = After[pc[t]] /\ op'[t] = [op[t] EXCEPT !.seq = next_tx_seq]
    BY <1>2 DEF next_seq, Goto, LedgerInv, LedgerTypeOK
  <2>3. op'[t].payer = op[t].payer /\ op'[t].amount = op[t].amount BY <2>1, <2>2 DEF Record
  <2>4. (pc'[t] \in In <=> pc[t] \in In) /\ (pc'[t] \in Out <=> pc[t] \in Out)
    BY <2>1, <2>2 DEF After, In, Out
  <2>5. \A p \in Payers : /\ Share(op'[t], pc'[t], In, p) = Share(op[t], pc[t], In, p)
                          /\ Share(op'[t], pc'[t], Out, p) = Share(op[t], pc[t], Out, p)
    BY <2>3, <2>4 DEF Share
  <2> QED BY <1>1, <2>5, ExplainedQuiet
<1>3. CASE ~next_seq(t)
  <2>1. pc[t] \in {"idle", "find", "mark"} /\ pc'[t] \in {"idle", "find", "credit"}
    BY <1>3 DEF top_up, find, mark, Return, Goto, LedgerInv, LedgerTypeOK
  <2>2. \A p \in Payers : /\ Share(op'[t], pc'[t], In, p) = Share(op[t], pc[t], In, p)
                          /\ Share(op'[t], pc'[t], Out, p) = Share(op[t], pc[t], Out, p)
    BY <2>1 DEF Share, In, Out
  <2> QED BY <1>1, <2>2, ExplainedQuiet
<1> QED BY <1>2, <1>3

LEMMA ExplainedNext ==
    ASSUME LedgerInv, LedgerInv', RecordsInv, BalanceExplained, [LedgerNext]_ledgerVars
    PROVE  BalanceExplained'
<1>1. CASE UNCHANGED ledgerVars
  BY <1>1 DEF ledgerVars, BalanceExplained, Total, InFlight
<1>2. ASSUME NEW t \in Threads, Begin(t) PROVE BalanceExplained'
  BY <1>2, ExplainedSilent, ExplainedTake DEF Begin, debit, refund
<1> QED BY <1>1, <1>2, ExplainedSilent, ExplainedPush, ExplainedCredit DEF LedgerNext

\* The records of the ledger explain its balances, whatever its callers do between
\* two of its locks: references have one record, numbers are given once, and a
\* balance is what the records and the operations on their way to one leave.
THEOREM LedgerIsExplained == LedgerSpec => [](LedgerTypeOK /\ RecordsSound /\ BalanceExplained)
<1> DEFINE I == LedgerInv /\ RecordsInv /\ BalanceExplained
<1>1. LedgerInit => I BY LedgerInitInv, RecordsInitInv, ExplainedInit
<1>2. I /\ [LedgerNext]_ledgerVars => I' BY LedgerNextInv, RecordsNextInv, ExplainedNext
<1>3. I => LedgerTypeOK /\ RecordsSound /\ BalanceExplained BY RecordsAreSound DEF LedgerInv
<1> QED BY <1>1, <1>2, <1>3, PTL DEF LedgerSpec

-----------------------------------------------------------------------------
(***************************************************************************)
(* The settlement rails.  A charge of the in-memory ledger lets the        *)
(* accounts go before it books the house; what it carries between the two  *)
(* is the third column of the books.                                       *)
(***************************************************************************)

Carrying == [who : Accounts \cup {"none"}, amount : Nat]
Carried == [c \in Callers |-> charging[c].amount]

MemoryInv == /\ account \in [Accounts -> Nat] /\ house \in Int
             /\ charging \in [Callers -> Carrying] /\ BooksBalance

LEMMA MemoryInit == SettleInit => MemoryInv
<1> SUFFICES ASSUME SettleInit PROVE MemoryInv OBVIOUS
<1>1. account \in [Accounts -> Nat] /\ house = 0 /\ charging \in [Callers -> Carrying]
  BY DEF SettleInit, None, Carrying
<1>2. SumFunction(account) = 0
  <2>1. DOMAIN account = Accounts /\ \A a \in Accounts : account[a] = 0 BY DEF SettleInit
  <2> QED BY <2>1, SettleAssumption, SumFunctionZero
<1>3. SumFunction(Carried) = 0
  <2>1. DOMAIN Carried = Callers BY DEF Carried
  <2>2. \A c \in Callers : Carried[c] = 0 BY DEF SettleInit, None, Carried
  <2> QED BY <2>1, <2>2, SettleAssumption, SumFunctionZero
<1> QED BY <1>1, <1>2, <1>3 DEF MemoryInv, BooksBalance, Carried

\* The sums before and after one account and one caller changed.
LEMMA AccountMoves ==
    ASSUME MemoryInv, NEW a \in Accounts, NEW v \in Nat, account' = [account EXCEPT ![a] = v]
    PROVE  /\ SumFunction(account)' + account[a] = SumFunction(account) + v
           /\ SumFunction(account)' \in Nat /\ SumFunction(account) \in Nat
           /\ account' \in [Accounts -> Nat] /\ account[a] \in Nat
<1>1. account \in [Accounts -> Nat] /\ account' \in [Accounts -> Nat] /\ account'[a] = v
      /\ \A b \in Accounts \ {a} : account'[b] = account[b]
  BY DEF MemoryInv
<1>2. PICK f \in [Accounts -> Nat], g \in [Accounts -> Nat] : f = account /\ g = account' BY <1>1
<1>3. f[a] = account[a] /\ g[a] = v /\ \A b \in Accounts \ {a} : g[b] = f[b] BY <1>1, <1>2
<1>4. /\ SumFunction(g) + f[a] = SumFunction(f) + g[a]
      /\ SumFunction(g) \in Nat /\ SumFunction(f) \in Nat
  BY <1>3, SettleAssumption, SumFunctionChange
<1> QED BY <1>1, <1>2, <1>3, <1>4

LEMMA CarriedMoves ==
    ASSUME MemoryInv, NEW c \in Callers, NEW r \in Carrying, charging' = [charging EXCEPT ![c] = r]
    PROVE  /\ SumFunction(Carried)' + charging[c].amount = SumFunction(Carried) + r.amount
           /\ SumFunction(Carried)' \in Nat /\ SumFunction(Carried) \in Nat
           /\ charging' \in [Callers -> Carrying] /\ charging[c].amount \in Nat /\ r.amount \in Nat
<1>1. charging \in [Callers -> Carrying] /\ charging' \in [Callers -> Carrying] /\ charging'[c] = r
      /\ \A d \in Callers \ {c} : charging'[d] = charging[d]
  BY DEF MemoryInv
<1>2. \A d \in Callers : charging[d].amount \in Nat /\ charging'[d].amount \in Nat BY <1>1 DEF Carrying
<1>3. PICK f \in [Callers -> Nat], g \in [Callers -> Nat] : f = Carried /\ g = Carried' BY <1>2 DEF Carried
<1>4. f[c] = charging[c].amount /\ g[c] = r.amount /\ \A d \in Callers \ {c} : g[d] = f[d]
  BY <1>1, <1>3 DEF Carried
<1>5. /\ SumFunction(g) + f[c] = SumFunction(f) + g[c]
      /\ SumFunction(g) \in Nat /\ SumFunction(f) \in Nat
  BY <1>4, SettleAssumption, SumFunctionChange
<1> QED BY <1>1, <1>2, <1>3, <1>4, <1>5

LEMMA MemoryStep == ASSUME MemoryInv, InMemoryNext PROVE MemoryInv'
<1>0. BooksBalance <=> SumFunction(account) + house + SumFunction(Carried) = 0
  BY DEF BooksBalance, Carried
<1>1. ASSUME NEW a \in Accounts, NEW n \in Charges, deposit(a, n) PROVE MemoryInv'
  <2>1. n \in Nat BY SettleAssumption
  <2>2. account' = [account EXCEPT ![a] = account[a] + n] /\ house' = house - n /\ charging' = charging
    BY <1>1 DEF deposit, MemoryInv
  <2>3. account[a] + n \in Nat BY <2>1 DEF MemoryInv
  <2>4. /\ SumFunction(account)' + account[a] = SumFunction(account) + (account[a] + n)
        /\ SumFunction(account)' \in Nat /\ SumFunction(account) \in Nat
        /\ account' \in [Accounts -> Nat] /\ account[a] \in Nat
    BY <2>2, <2>3, AccountMoves
  <2>5. SumFunction(Carried)' = SumFunction(Carried) BY <2>2 DEF Carried
  <2>6. SumFunction(Carried) \in Nat
    <3>1. Carried \in [Callers -> Nat] BY DEF MemoryInv, Carrying, Carried
    <3> QED BY <3>1, SettleAssumption, SumFunctionType
  <2>7. SumFunction(account)' + house' + SumFunction(Carried)' = 0
    BY <1>0, <2>1, <2>2, <2>4, <2>5, <2>6 DEF MemoryInv
  <2> QED BY <2>1, <2>2, <2>4, <2>7 DEF MemoryInv, BooksBalance, Carried
<1>2. ASSUME NEW a \in Accounts, NEW n \in Charges, NEW c \in Callers, charge(c, a, n) PROVE MemoryInv'
  <2> DEFINE r == [who |-> a, amount |-> n]
  <2>1. n \in Nat /\ r \in Carrying /\ r.amount = n BY SettleAssumption DEF Carrying
  <2> HIDE DEF r
  <2>2. account' = [account EXCEPT ![a] = account[a] - n] /\ house' = house
        /\ charging' = [charging EXCEPT ![c] = r] /\ charging[c].amount = 0 /\ account[a] >= n
    BY <1>2 DEF charge, MemoryInv, Enough, None, r
  <2>3. account[a] - n \in Nat BY <2>1, <2>2 DEF MemoryInv
  <2>4. /\ SumFunction(account)' + account[a] = SumFunction(account) + (account[a] - n)
        /\ SumFunction(account)' \in Nat /\ SumFunction(account) \in Nat
        /\ account' \in [Accounts -> Nat] /\ account[a] \in Nat
    BY <2>2, <2>3, AccountMoves
  <2>5. /\ SumFunction(Carried)' + 0 = SumFunction(Carried) + n
        /\ SumFunction(Carried)' \in Nat /\ SumFunction(Carried) \in Nat
        /\ charging' \in [Callers -> Carrying]
    BY <2>1, <2>2, CarriedMoves
  <2>6. SumFunction(account)' + house' + SumFunction(Carried)' = 0
    BY <1>0, <2>1, <2>2, <2>4, <2>5 DEF MemoryInv
  <2> QED BY <2>2, <2>4, <2>5, <2>6 DEF MemoryInv, BooksBalance, Carried
<1>3. ASSUME NEW c \in Callers, charge_house(c) PROVE MemoryInv'
  <2>1. None \in Carrying /\ None.amount = 0 BY DEF None, Carrying
  <2>2. charging' = [charging EXCEPT ![c] = None] /\ house' = house + charging[c].amount /\ account' = account
    BY <1>3 DEF charge_house
  <2>3. /\ SumFunction(Carried)' + charging[c].amount = SumFunction(Carried) + 0
        /\ SumFunction(Carried)' \in Nat /\ SumFunction(Carried) \in Nat
        /\ charging' \in [Callers -> Carrying] /\ charging[c].amount \in Nat
    BY <2>1, <2>2, CarriedMoves
  <2>4. SumFunction(account) \in Nat BY SettleAssumption, SumFunctionType DEF MemoryInv
  <2>5. SumFunction(account)' = SumFunction(account) BY <2>2
  <2>6. SumFunction(account)' + house' + SumFunction(Carried)' = 0
    BY <1>0, <2>2, <2>3, <2>4, <2>5 DEF MemoryInv
  <2>7. house' \in Int BY <2>2, <2>3 DEF MemoryInv
  <2> QED BY <2>2, <2>3, <2>6, <2>7 DEF MemoryInv, BooksBalance, Carried
<1> QED BY <1>1, <1>2, <1>3 DEF InMemoryNext

LEMMA MemoryStill == ASSUME MemoryInv, UNCHANGED <<account, house, charging>> PROVE MemoryInv'
BY DEF MemoryInv, BooksBalance

-----------------------------------------------------------------------------
(***************************************************************************)
(* The patala rail.  The reference of a receipt is looked up before the    *)
(* rail is asked and recorded after the balance rose.  As long as no two   *)
(* callers present one payment that is enough: whoever is between the two  *)
(* presents a reference that has raised nothing yet.  Credit is backed by  *)
(* payments without that condition.                                        *)
(***************************************************************************)

\* No payment is presented by two callers.
OwnReceipts == \A c, d \in Callers : \A x \in Presents[c], y \in Presents[d] :
                   x.reference = y.reference => c = d

Presentation == [stage : {"idle", "verify", "credit", "mark"}, who : Accounts \cup {"none"},
                 receipt : Receipts \cup {NoReceipt}]
Ref(c) == presenting[c].receipt.reference

RailTypes == /\ local \in [Accounts -> Nat] /\ spent \in [Accounts -> Nat]
             /\ raised \in [References -> Nat] /\ credited \subseteq References
             /\ presenting \in [Callers -> Presentation]
             /\ \A c \in Callers : presenting[c].stage # "idle" =>
                  /\ presenting[c].who \in Accounts /\ presenting[c].receipt \in Receipts
                  /\ presenting[c].receipt \in Presents[c]

\* What was raised is marked or about to be, and nothing twice.
OnceRaised ==
    /\ \A r \in References : raised[r] <= 1
    /\ \A r \in References : raised[r] = 1 =>
         r \in credited \/ \E c \in Callers : presenting[c].stage = "mark" /\ Ref(c) = r
    /\ \A c \in Callers : presenting[c].stage \in {"verify", "credit"} => raised[Ref(c)] = 0

RailInv == RailTypes /\ CreditBacked

Funds == [a \in Accounts |-> local[a] + spent[a]]
Paid == [r \in References |-> raised[r] * Payment(r).amount]

LEMMA ReferencesFinite == IsFiniteSet(References)
<1> DEFINE f == [r \in Receipts |-> r.reference]
<1>1. f \in Surjection(Receipts, References) BY DEF Surjection, References
<1> QED BY <1>1, SettleAssumption, FS_Surjection

LEMMA PaymentIs == ASSUME NEW x \in Receipts PROVE Payment(x.reference) = x /\ x.reference \in References
BY SettleAssumption DEF Payment, References

LEMMA PaymentAmount == \A r \in References : Payment(r).amount \in Nat
<1> SUFFICES ASSUME NEW r \in References PROVE Payment(r).amount \in Nat OBVIOUS
<1>1. PICK x \in Receipts : r = x.reference BY DEF References
<1> QED BY <1>1, PaymentIs, SettleAssumption

LEMMA PaidType == ASSUME RailTypes PROVE Paid \in [References -> Nat]
<1>1. \A r \in References : raised[r] \in Nat BY DEF RailTypes
<1>2. \A m, n \in Nat : m * n \in Nat OBVIOUS
<1>3. \A r \in References : raised[r] * Payment(r).amount \in Nat BY <1>1, <1>2, PaymentAmount
<1> QED BY <1>3 DEF Paid

LEMMA RailInit == SettleInit => RailInv /\ OnceRaised
<1> SUFFICES ASSUME SettleInit PROVE RailInv /\ OnceRaised OBVIOUS
<1>1. RailTypes BY DEF SettleInit, RailTypes, Quiet, Presentation
<1>2. OnceRaised BY DEF SettleInit, OnceRaised, Quiet
<1>3. SumFunction(Funds) = 0
  <2>1. DOMAIN Funds = Accounts BY DEF Funds
  <2>2. \A a \in Accounts : Funds[a] = 0 BY DEF SettleInit, Funds
  <2> QED BY <2>1, <2>2, SettleAssumption, SumFunctionZero
<1>4. SumFunction(Paid) = 0
  <2>1. DOMAIN Paid = References BY DEF Paid
  <2>2. \A n \in Nat : 0 * n = 0 OBVIOUS
  <2>3. \A r \in References : Paid[r] = 0 BY <2>2, PaymentAmount DEF SettleInit, Paid
  <2> QED BY <2>1, <2>3, ReferencesFinite, SumFunctionZero
<1>5. CreditBacked BY <1>3, <1>4 DEF CreditBacked, Funds, Paid
<1> QED BY <1>1, <1>2, <1>5 DEF RailInv

\* The steps that raise nothing.
LEMMA RailQuiet ==
    ASSUME RailInv, NEW c \in Callers,
           \/ \E a \in Accounts, r \in Receipts : credit_from_receipt(c, a, r)
           \/ verify(c) \/ mark_credited(c)
    PROVE  RailInv'
<1>1. UNCHANGED <<local, spent, raised>> BY DEF credit_from_receipt, verify, mark_credited
<1>2. CreditBacked' BY <1>1 DEF RailInv, CreditBacked
<1>3. ASSUME NEW a \in Accounts, NEW r \in Receipts, credit_from_receipt(c, a, r) PROVE RailTypes'
  <2> DEFINE v == [stage |-> "verify", who |-> a, receipt |-> r]
  <2>1. v \in Presentation /\ v.who = a /\ v.receipt = r BY DEF Presentation
  <2> HIDE DEF v
  <2>2. presenting' = [presenting EXCEPT ![c] = v] /\ credited' = credited /\ r \in Presents[c]
    BY <1>3 DEF credit_from_receipt, v
  <2> QED BY <1>1, <2>1, <2>2 DEF RailInv, RailTypes
<1>4. ASSUME verify(c) PROVE RailTypes'
  <2>1. presenting[c] \in Presentation /\ presenting[c].stage = "verify" /\ credited' = credited
    BY <1>4 DEF RailInv, RailTypes, verify
  <2>2. Quiet \in Presentation /\ Quiet.stage = "idle" BY DEF Quiet, Presentation
  <2>3. CASE presenting' = [presenting EXCEPT ![c] = Quiet]
    BY <1>1, <2>1, <2>2, <2>3 DEF RailInv, RailTypes
  <2>4. CASE To(c, "credit")
    <3>1. PICK v : v = [presenting[c] EXCEPT !.stage = "credit"] OBVIOUS
    <3>2. v \in Presentation /\ v.who = presenting[c].who /\ v.receipt = presenting[c].receipt
      BY <2>1, <3>1 DEF Presentation
    <3>3. presenting' = [presenting EXCEPT ![c] = v] BY <2>4, <3>1 DEF To, RailInv, RailTypes
    <3> QED BY <1>1, <2>1, <3>2, <3>3 DEF RailInv, RailTypes
  <2> QED BY <1>4, <2>3, <2>4 DEF verify
<1>5. ASSUME mark_credited(c) PROVE RailTypes'
  <2>1. Quiet \in Presentation /\ Quiet.stage = "idle" BY DEF Quiet, Presentation
  <2>2. presenting[c].receipt \in Receipts BY <1>5 DEF RailInv, RailTypes, mark_credited
  <2>3. Ref(c) \in References BY <2>2, PaymentIs DEF Ref
  <2>4. presenting' = [presenting EXCEPT ![c] = Quiet] /\ credited' = credited \cup {Ref(c)}
    BY <1>5 DEF mark_credited, Ref
  <2> QED BY <1>1, <2>1, <2>3, <2>4 DEF RailInv, RailTypes
<1> QED BY <1>2, <1>3, <1>4, <1>5 DEF RailInv

\* A balance rises by a payment.
LEMMA RailRaise == ASSUME RailInv, NEW c \in Callers, raise(c) PROVE RailInv'
<1> DEFINE a == presenting[c].who
           r == Ref(c)
           m == presenting[c].receipt.amount
<1>1. presenting[c] \in Presentation /\ presenting[c].stage = "credit"
      /\ a \in Accounts /\ presenting[c].receipt \in Receipts /\ presenting[c].receipt \in Presents[c]
  BY DEF RailInv, RailTypes, raise
<1>2. r \in References /\ Payment(r).amount = m /\ m \in Nat
  BY <1>1, PaymentIs, SettleAssumption DEF Ref
<1>3. /\ local' = [local EXCEPT ![a] = local[a] + m] /\ raised' = [raised EXCEPT ![r] = raised[r] + 1]
      /\ credited' = credited /\ spent' = spent /\ To(c, "mark")
  BY DEF raise, Ref, RailInv, RailTypes
<1>4. local[a] \in Nat /\ spent[a] \in Nat /\ raised[r] \in Nat BY <1>1, <1>2 DEF RailInv, RailTypes
<1> HIDE DEF a, r, m
<1>5. local' \in [Accounts -> Nat] /\ raised' \in [References -> Nat]
  BY <1>1, <1>2, <1>3, <1>4 DEF RailInv, RailTypes
<1>6. RailTypes'
  <2>1. PICK v : v = [presenting[c] EXCEPT !.stage = "mark"] OBVIOUS
  <2>2. v \in Presentation /\ v.who = presenting[c].who /\ v.receipt = presenting[c].receipt
    BY <1>1, <2>1 DEF Presentation
  <2>3. presenting' = [presenting EXCEPT ![c] = v] BY <1>3, <2>1 DEF To, RailInv, RailTypes
  <2> QED BY <1>1, <1>3, <1>5, <2>2, <2>3 DEF RailInv, RailTypes, a
<1>7. SumFunction(Funds)' = SumFunction(Funds) + m /\ SumFunction(Funds) \in Nat
  <2>1. Funds \in [Accounts -> Nat] /\ Funds' \in [Accounts -> Nat]
    BY <1>3, <1>5 DEF Funds, RailInv, RailTypes
  <2>2. PICK f \in [Accounts -> Nat], g \in [Accounts -> Nat] : f = Funds /\ g = Funds' BY <2>1
  <2>3. f[a] \in Nat /\ g[a] = f[a] + m
    <3>1. f[a] = local[a] + spent[a] /\ g[a] = local'[a] + spent'[a] BY <1>1, <2>2 DEF Funds
    <3>2. local'[a] = local[a] + m /\ spent'[a] = spent[a] BY <1>1, <1>3 DEF RailInv, RailTypes
    <3> QED BY <1>2, <1>4, <3>1, <3>2
  <2>4. \A b \in Accounts \ {a} : g[b] = f[b] BY <1>3, <2>2 DEF Funds, RailInv, RailTypes
  <2>5. /\ SumFunction(g) + f[a] = SumFunction(f) + g[a]
        /\ SumFunction(g) \in Nat /\ SumFunction(f) \in Nat
    BY <1>1, <2>4, SettleAssumption, SumFunctionChange
  <2> QED BY <1>2, <2>2, <2>3, <2>5
<1>8. SumFunction(Paid)' = SumFunction(Paid) + m /\ SumFunction(Paid) \in Nat
  <2>1. Paid \in [References -> Nat] /\ Paid' \in [References -> Nat]
    <3>1. Paid \in [References -> Nat] BY PaidType DEF RailInv
    <3>2. \A i, n \in Nat : i * n \in Nat OBVIOUS
    <3>3. \A s \in References : raised'[s] * Payment(s).amount \in Nat BY <1>5, <3>2, PaymentAmount
    <3> QED BY <3>1, <3>3 DEF Paid, Payment
  <2>2. PICK f \in [References -> Nat], g \in [References -> Nat] : f = Paid /\ g = Paid' BY <2>1
  <2>3. f[r] \in Nat /\ g[r] = f[r] + m
    <3>1. f[r] = raised[r] * m /\ g[r] = raised'[r] * m BY <1>2, <2>2 DEF Paid, Payment
    <3>2. raised'[r] = raised[r] + 1 BY <1>2, <1>3 DEF RailInv, RailTypes
    <3>3. \A i, n \in Nat : (i + 1) * n = i * n + n OBVIOUS
    <3> QED BY <1>2, <1>4, <3>1, <3>2, <3>3
  <2>4. \A s \in References \ {r} : g[s] = f[s] BY <1>3, <2>2 DEF Paid, Payment, RailInv, RailTypes
  <2>5. /\ SumFunction(g) + f[r] = SumFunction(f) + g[r]
        /\ SumFunction(g) \in Nat /\ SumFunction(f) \in Nat
    BY <1>2, <2>4, ReferencesFinite, SumFunctionChange
  <2> QED BY <1>2, <2>2, <2>3, <2>5
<1>9. SumFunction(Funds) = SumFunction(Paid) BY DEF RailInv, CreditBacked, Funds, Paid
<1>10. SumFunction(Funds)' = SumFunction(Paid)' BY <1>7, <1>8, <1>9
<1>11. CreditBacked' BY <1>10 DEF CreditBacked, Funds, Paid
<1> QED BY <1>6, <1>11 DEF RailInv

\* What is charged moves from one column to the other.
LEMMA RailCharge ==
    ASSUME RailInv, NEW a \in Accounts, NEW n \in Charges, patala_charge(a, n) PROVE RailInv'
<1>1. n \in Nat /\ local[a] \in Nat /\ spent[a] \in Nat /\ local[a] >= n
  BY SettleAssumption DEF RailInv, RailTypes, patala_charge, Sufficient
<1>2. /\ local' = [local EXCEPT ![a] = local[a] - n] /\ spent' = [spent EXCEPT ![a] = spent[a] + n]
      /\ UNCHANGED <<credited, presenting, raised>>
  BY DEF patala_charge, RailInv, RailTypes
<1>3. local[a] - n \in Nat /\ spent[a] + n \in Nat /\ (local[a] - n) + (spent[a] + n) = local[a] + spent[a]
  BY <1>1
<1>4. RailTypes' BY <1>2, <1>3 DEF RailInv, RailTypes
<1>5. Funds' = Funds
  <2>1. \A b \in Accounts : local'[b] + spent'[b] = local[b] + spent[b]
    BY <1>2, <1>3 DEF RailInv, RailTypes
  <2> QED BY <2>1 DEF Funds
<1>6. SumFunction(Funds)' = SumFunction(Funds) BY <1>5
<1>7. CreditBacked' BY <1>2, <1>6 DEF RailInv, CreditBacked, Funds
<1> QED BY <1>4, <1>7 DEF RailInv

LEMMA RailStep == ASSUME RailInv, PatalaNext PROVE RailInv'
BY RailQuiet, RailRaise, RailCharge DEF PatalaNext

LEMMA RailStill == ASSUME RailInv, UNCHANGED Patala PROVE RailInv'
BY DEF RailInv, RailTypes, CreditBacked, Patala

LEMMA OnceStep == ASSUME OwnReceipts, RailInv, OnceRaised, PatalaNext PROVE OnceRaised'
<1>1. ASSUME NEW c \in Callers, NEW d \in Callers, presenting[c].stage # "idle",
             presenting[d].stage # "idle", Ref(c) = Ref(d)
      PROVE  c = d
  BY <1>1 DEF OwnReceipts, RailInv, RailTypes, Ref
<1>2. \A r \in References : raised[r] \in Nat BY DEF RailInv, RailTypes
<1>3. \A c \in Callers : presenting[c].stage # "idle" => Ref(c) \in References
  BY PaymentIs DEF RailInv, RailTypes, Ref
<1>4. ASSUME NEW c \in Callers, NEW a \in Accounts, NEW r \in Receipts, credit_from_receipt(c, a, r)
      PROVE  OnceRaised'
  <2>1. /\ presenting[c].stage = "idle" /\ r \in Presents[c] /\ r.reference \notin credited
        /\ UNCHANGED <<credited, raised>>
    BY <1>4 DEF credit_from_receipt
  <2>2. r.reference \in References BY PaymentIs
  <2>3. presenting'[c].stage = "verify" /\ Ref(c)' = r.reference
        /\ \A d \in Callers \ {c} : presenting'[d] = presenting[d] /\ Ref(d)' = Ref(d)
    BY <1>4 DEF credit_from_receipt, Ref, RailInv, RailTypes
  <2>4. ASSUME NEW d \in Callers, presenting[d].stage = "mark" PROVE Ref(d) # r.reference
    BY <2>1, <2>4 DEF OwnReceipts, RailInv, RailTypes, Ref
  <2>5. raised[r.reference] = 0
    BY <1>2, <2>1, <2>2, <2>4 DEF OnceRaised
  <2> QED BY <2>1, <2>3, <2>5 DEF OnceRaised
<1>5. ASSUME NEW c \in Callers, verify(c) PROVE OnceRaised'
  <2>1. presenting[c].stage = "verify" /\ UNCHANGED <<credited, raised>> BY <1>5 DEF verify
  <2>2. \A d \in Callers \ {c} : presenting'[d] = presenting[d] BY <1>5 DEF verify, To, RailInv, RailTypes
  <2>3. presenting'[c] = Quiet \/ (presenting'[c].stage = "credit" /\ presenting'[c].receipt = presenting[c].receipt)
    <3>1. CASE presenting' = [presenting EXCEPT ![c] = Quiet] BY <3>1 DEF RailInv, RailTypes
    <3>2. CASE To(c, "credit")
      <4>1. presenting[c] \in Presentation BY DEF RailInv, RailTypes
      <4>2. PICK v : v = [presenting[c] EXCEPT !.stage = "credit"] OBVIOUS
      <4>3. v.stage = "credit" /\ v.receipt = presenting[c].receipt BY <4>1, <4>2 DEF Presentation
      <4>4. presenting'[c] = v BY <3>2, <4>2 DEF To, RailInv, RailTypes
      <4> QED BY <4>3, <4>4
    <3> QED BY <1>5, <3>1, <3>2 DEF verify
  <2>4. \A d \in Callers : /\ presenting'[d].stage \in {"verify", "credit"} =>
                                presenting[d].stage \in {"verify", "credit"} /\ Ref(d)' = Ref(d)
                           /\ presenting[d].stage = "mark" => presenting'[d].stage = "mark" /\ Ref(d)' = Ref(d)
    BY <2>1, <2>2, <2>3 DEF Ref, Quiet
  <2> QED BY <2>1, <2>4 DEF OnceRaised
<1>6. ASSUME NEW c \in Callers, raise(c) PROVE OnceRaised'
  <2> DEFINE r == Ref(c)
  <2>1. presenting[c].stage = "credit" /\ credited' = credited /\ raised' = [raised EXCEPT ![r] = raised[r] + 1]
    BY <1>6 DEF raise, Ref, RailInv, RailTypes
  <2>2. r \in References /\ raised[r] = 0 BY <1>3, <2>1 DEF OnceRaised
  <2>3. presenting'[c].stage = "mark" /\ Ref(c)' = r
        /\ \A d \in Callers \ {c} : presenting'[d] = presenting[d] /\ Ref(d)' = Ref(d)
    <3>1. presenting[c] \in Presentation BY DEF RailInv, RailTypes
    <3>2. PICK v : v = [presenting[c] EXCEPT !.stage = "mark"] OBVIOUS
    <3>3. v.stage = "mark" /\ v.receipt = presenting[c].receipt BY <3>1, <3>2 DEF Presentation
    <3>4. presenting'[c] = v /\ \A d \in Callers \ {c} : presenting'[d] = presenting[d]
      BY <1>6, <3>2 DEF raise, To, RailInv, RailTypes
    <3> QED BY <3>3, <3>4 DEF Ref
  <2> HIDE DEF r
  <2>4. raised'[r] = 1 /\ \A s \in References \ {r} : raised'[s] = raised[s]
    BY <2>1, <2>2 DEF RailInv, RailTypes
  <2>5. \A d \in Callers \ {c} : presenting[d].stage # "idle" => Ref(d) # r BY <1>1, <2>1 DEF r
  <2>6. \A s \in References : raised'[s] <= 1 BY <2>4 DEF OnceRaised
  <2>7. \A s \in References : raised'[s] = 1 =>
           s \in credited' \/ \E d \in Callers : presenting'[d].stage = "mark" /\ Ref(d)' = s
    <3> SUFFICES ASSUME NEW s \in References, raised'[s] = 1
                 PROVE  s \in credited' \/ \E d \in Callers : presenting'[d].stage = "mark" /\ Ref(d)' = s
      OBVIOUS
    <3>1. CASE s = r BY <2>3, <3>1
    <3>2. CASE s # r
      <4>1. s \in credited \/ \E d \in Callers : presenting[d].stage = "mark" /\ Ref(d) = s
        BY <2>4, <3>2 DEF OnceRaised
      <4> QED BY <2>1, <2>3, <4>1
    <3> QED BY <3>1, <3>2
  <2>8. \A d \in Callers : presenting'[d].stage \in {"verify", "credit"} => raised'[Ref(d)'] = 0
    <3> SUFFICES ASSUME NEW d \in Callers, presenting'[d].stage \in {"verify", "credit"}
                 PROVE  raised'[Ref(d)'] = 0
      OBVIOUS
    <3>1. d # c /\ presenting[d].stage \in {"verify", "credit"} /\ Ref(d)' = Ref(d) BY <2>3
    <3> QED BY <1>3, <2>4, <2>5, <3>1 DEF OnceRaised
  <2> QED BY <2>6, <2>7, <2>8 DEF OnceRaised, Ref
<1>7. ASSUME NEW c \in Callers, mark_credited(c) PROVE OnceRaised'
  <2>1. presenting[c].stage = "mark" /\ credited' = credited \cup {Ref(c)} /\ raised' = raised
        /\ presenting' = [presenting EXCEPT ![c] = Quiet]
    BY <1>7 DEF mark_credited, Ref
  <2>2. presenting'[c].stage = "idle" /\ \A d \in Callers \ {c} : presenting'[d] = presenting[d] /\ Ref(d)' = Ref(d)
    BY <2>1 DEF RailInv, RailTypes, Quiet, Ref
  <2> QED BY <2>1, <2>2 DEF OnceRaised
<1>8. ASSUME NEW a \in Accounts, NEW n \in Charges, patala_charge(a, n) PROVE OnceRaised'
  <2>1. UNCHANGED <<credited, presenting, raised>> BY <1>8 DEF patala_charge
  <2> QED BY <2>1 DEF OnceRaised, Ref
<1> QED BY <1>4, <1>5, <1>6, <1>7, <1>8 DEF PatalaNext

LEMMA OnceStill == ASSUME OnceRaised, UNCHANGED Patala PROVE OnceRaised'
BY DEF OnceRaised, Ref, Patala

-----------------------------------------------------------------------------
(***************************************************************************)
(* The books together.  The parts of pier-billing share no state, so a     *)
(* step of one leaves the invariants of the others.                        *)
(***************************************************************************)

billingVars == <<part, sample, ledgerVars, settleVars, engineVars, objectVars, adminVars>>

BooksInv == LedgerInv /\ RecordsInv /\ BalanceExplained /\ MemoryInv /\ RailInv

LEMMA LedgerStep ==
    ASSUME LedgerInv, RecordsInv, BalanceExplained, [LedgerNext]_ledgerVars
    PROVE  LedgerInv' /\ RecordsInv' /\ BalanceExplained'
BY LedgerNextInv, RecordsNextInv, ExplainedNext

LEMMA BooksStep == ASSUME BooksInv, [MCNext]_billingVars PROVE BooksInv'
<1>1. [LedgerNext]_ledgerVars BY DEF MCNext, billingVars
<1>2. InMemoryNext \/ PatalaNext \/ UNCHANGED settleVars BY DEF MCNext, billingVars
<1>3. LedgerInv' /\ RecordsInv' /\ BalanceExplained' BY <1>1, LedgerStep DEF BooksInv
<1>4. MemoryInv'
  <2>1. CASE InMemoryNext BY <2>1, MemoryStep DEF BooksInv
  <2>2. CASE PatalaNext
    <3>1. UNCHANGED InMemory
      BY <2>2 DEF PatalaNext, credit_from_receipt, verify, raise, mark_credited, patala_charge
    <3> QED BY <3>1, MemoryStill DEF InMemory, BooksInv
  <2>3. CASE UNCHANGED settleVars BY <2>3, MemoryStill DEF settleVars, BooksInv
  <2> QED BY <1>2, <2>1, <2>2, <2>3
<1>5. RailInv'
  <2>1. CASE InMemoryNext
    <3>1. UNCHANGED Patala BY <2>1 DEF InMemoryNext, deposit, charge, charge_house
    <3> QED BY <3>1, RailStill DEF BooksInv
  <2>2. CASE PatalaNext BY <2>2, RailStep DEF BooksInv
  <2>3. CASE UNCHANGED settleVars BY <2>3, RailStill DEF settleVars, Patala, BooksInv
  <2> QED BY <1>2, <2>1, <2>2, <2>3
<1> QED BY <1>3, <1>4, <1>5 DEF BooksInv

LEMMA OnceKept == ASSUME OwnReceipts, BooksInv, OnceRaised, [MCNext]_billingVars PROVE OnceRaised'
<1>1. InMemoryNext \/ PatalaNext \/ UNCHANGED settleVars BY DEF MCNext, billingVars
<1>2. CASE InMemoryNext
  <2>1. UNCHANGED Patala BY <1>2 DEF InMemoryNext, deposit, charge, charge_house
  <2> QED BY <2>1, OnceStill
<1>3. CASE PatalaNext BY <1>3, OnceStep DEF BooksInv
<1>4. CASE UNCHANGED settleVars BY <1>4, OnceStill DEF settleVars, Patala
<1> QED BY <1>1, <1>2, <1>3, <1>4

LEMMA BooksInit == MCInit => BooksInv /\ OnceRaised
<1> SUFFICES ASSUME MCInit PROVE BooksInv /\ OnceRaised OBVIOUS
<1>1. LedgerInit /\ SettleInit BY DEF MCInit
<1> QED BY <1>1, LedgerInitInv, RecordsInitInv, ExplainedInit, MemoryInit, RailInit DEF BooksInv

LEMMA BooksFollow ==
    ASSUME BooksInv
    PROVE  LedgerTypeOK /\ RecordsSound /\ BalanceExplained /\ SettleTypeOK /\ BooksBalance /\ CreditBacked
<1>1. SettleTypeOK BY DEF BooksInv, MemoryInv, RailInv, RailTypes, SettleTypeOK
<1> QED BY <1>1, RecordsAreSound DEF BooksInv, LedgerInv, MemoryInv, RailInv

\* Whoever presents which receipt, and however often: the ledger's records explain
\* its balances, the in-memory books balance at every moment, and the credit of the
\* patala rail is backed by confirmed payments, a receipt that raised it twice
\* counted twice.
THEOREM BooksAlwaysBalance ==
    MCSpec => [](LedgerTypeOK /\ RecordsSound /\ BalanceExplained
                 /\ SettleTypeOK /\ BooksBalance /\ CreditBacked)
<1>1. MCInit => BooksInv BY BooksInit
<1>2. BooksInv /\ [MCNext]_billingVars => BooksInv' BY BooksStep
<1> QED BY <1>1, <1>2, BooksFollow, PTL DEF MCSpec, billingVars

\* The books are sound when no payment is presented by two callers: without that
\* condition the last conjunct fails, as the run patala_race shows.
THEOREM BooksAreSound == ASSUME OwnReceipts PROVE MCSpec => []BooksSound
<1> DEFINE I == BooksInv /\ OnceRaised
<1>1. MCInit => I BY BooksInit
<1>2. I /\ [MCNext]_billingVars => I' BY BooksStep, OnceKept
<1>3. I => BooksSound BY BooksFollow DEF BooksSound, OnceRaised, CreditedOnce
<1> QED BY <1>1, <1>2, <1>3, PTL DEF MCSpec, billingVars

-----------------------------------------------------------------------------
(***************************************************************************)
(* Tariffs.  A bill adds up its lines with additions that saturate, in the *)
(* order a fold happens to take them.  The exact sum over the kinds is a   *)
(* function of sets of kinds; capped, it solves the equation the fold is   *)
(* defined by, and that equation has one solution.                         *)
(***************************************************************************)

Cap(n) == IF n > U64 THEN U64 ELSE n

\* What a kind costs, exactly.
Due(s, k, units) == minus(units, free(s, k)) * s.prices[k]

LEMMA CapAdds == \A m, n \in Nat : plus(Cap(m), Cap(n)) = Cap(m + n) /\ Cap(m) \in 0..U64
BY TariffAssumption DEF plus, Cap

\* A schedule that prices the kinds of the usage, in natural numbers.
Prices(s, usage) == /\ DOMAIN usage \subseteq DOMAIN s.prices
                    /\ \A k \in DOMAIN usage : usage[k] \in Nat /\ s.prices[k] \in Nat /\ free(s, k) \in Nat

LEMMA LineItem ==
    ASSUME NEW s, NEW usage, Prices(s, usage), NEW k \in DOMAIN usage
    PROVE  /\ line_item(s, k, usage[k]).kind = k
           /\ line_item(s, k, usage[k]).metered = usage[k]
           /\ line_item(s, k, usage[k]).amount = Cap(Due(s, k, usage[k]))
           /\ Due(s, k, usage[k]) \in Nat
<1>1. usage[k] \in Nat /\ s.prices[k] \in Nat /\ free(s, k) \in Nat BY DEF Prices
<1>2. minus(usage[k], free(s, k)) \in Nat BY <1>1 DEF minus
<1>3. \A m, n \in Nat : m * n \in Nat OBVIOUS
<1>4. Due(s, k, usage[k]) \in Nat BY <1>1, <1>2, <1>3 DEF Due
<1>5. line_item(s, k, usage[k]).amount = times(minus(usage[k], free(s, k)), s.prices[k]) BY DEF line_item
<1>6. line_item(s, k, usage[k]).amount = Cap(Due(s, k, usage[k])) BY <1>5 DEF times, Cap, Due
<1>7. line_item(s, k, usage[k]).kind = k /\ line_item(s, k, usage[k]).metered = usage[k] BY DEF line_item
<1> QED BY <1>4, <1>6, <1>7

\* What the fold of evaluate unfolds to.
Totals(g, items) == g = [s \in SUBSET items |-> IF s = {} THEN 0
                           ELSE plus(g[s \ {CHOOSE x \in s : TRUE}], (CHOOSE x \in s : TRUE).amount)]

LEMMA TotalsOnce ==
    ASSUME NEW U, IsFiniteSet(U), NEW g, NEW h, Totals(g, U), Totals(h, U)
    PROVE  g = h
<1> DEFINE B == {s \in SUBSET U : g[s] # h[s]}
<1>1. SUFFICES ASSUME B # {} PROVE FALSE
  <2>1. g = [s \in SUBSET U |-> g[s]] /\ h = [s \in SUBSET U |-> h[s]] BY DEF Totals
  <2> QED BY <2>1
<1>2. PICK s \in B : \A t \in B : Cardinality(s) <= Cardinality(t)
  <2>1. B \subseteq SUBSET U OBVIOUS
  <2> HIDE DEF B
  <2> QED BY <1>1, <2>1, Smallest
<1>3. s \in SUBSET U /\ g[s] # h[s] OBVIOUS
<1>4. s # {} BY <1>3 DEF Totals
<1>5. PICK y : y = CHOOSE x \in s : TRUE OBVIOUS
<1>6. y \in s BY <1>4, <1>5
<1>7. IsFiniteSet(s) /\ Cardinality(s) \in Nat BY <1>3, FS_Subset, FS_CardinalityType
<1>8. Cardinality(s \ {y}) = Cardinality(s) - 1 BY <1>6, <1>7, FS_RemoveElement
<1>9. s \ {y} \notin B BY <1>2, <1>7, <1>8
<1>10. g[s \ {y}] = h[s \ {y}] BY <1>3, <1>9
<1>11. g[s] = plus(g[s \ {y}], y.amount) /\ h[s] = plus(h[s \ {y}], y.amount) BY <1>3, <1>4, <1>5 DEF Totals
<1> QED BY <1>3, <1>10, <1>11

AmountOf(items) == FoldSet(LAMBDA i, sum : plus(sum, i.amount), 0, items)

LEMMA FoldIsTotal ==
    ASSUME NEW U, IsFiniteSet(U), NEW k, Totals(k, U)
    PROVE  AmountOf(U) = k[U]
<1> DEFINE it(g) == g = [s \in SUBSET U |-> IF s = {} THEN 0
                           ELSE plus(g[s \ {CHOOSE x \in s : TRUE}], (CHOOSE x \in s : TRUE).amount)]
<1>1. AmountOf(U) = (CHOOSE g : it(g))[U]
  BY Zenon DEF AmountOf, FoldSet, MapThenFoldSet
<1>2. \A g : it(g) <=> Totals(g, U) BY DEF Totals
<1> HIDE DEF it
<1>3. it(CHOOSE g : it(g)) BY <1>2
<1>4. (CHOOSE g : it(g)) = k BY <1>2, <1>3, TotalsOnce
<1> QED BY <1>1, <1>4

\* A bill is the exact sum over the metered kinds of the units beyond the free ones
\* at their price, or u64::MAX when that is too much; it has a line per kind
\* (TariffSchedule::evaluate).
THEOREM BillsAreExact ==
    ASSUME NEW s, NEW usage, IsFiniteSet(DOMAIN usage), Prices(s, usage)
    PROVE  /\ evaluate(s, usage).ok
           /\ evaluate(s, usage).amount
                = Cap(SumFunction([k \in DOMAIN usage |-> Due(s, k, usage[k])]))
           /\ evaluate(s, usage).items = {line_item(s, k, usage[k]) : k \in DOMAIN usage}
           /\ SumFunction([k \in DOMAIN usage |-> Due(s, k, usage[k])]) \in Nat
<1> DEFINE K == DOMAIN usage
           items == {line_item(s, k, usage[k]) : k \in K}
           w == [k \in K |-> Due(s, k, usage[k])]
           kinds(t) == {i.kind : i \in t}
<1>1. evaluate(s, usage).ok /\ evaluate(s, usage).items = items
      /\ evaluate(s, usage).amount = AmountOf(items)
  BY DEF evaluate, Prices, AmountOf
<1>2. IsFiniteSet(items)
  <2> DEFINE f == [k \in K |-> line_item(s, k, usage[k])]
  <2>1. f \in Surjection(K, items) BY DEF Surjection
  <2> QED BY <2>1, FS_Surjection
<1>3. w \in [K -> Nat] BY LineItem
<1>4. SumFunction(w) = SumOver(w, K) BY SumAll
<1>5. PICK h : Adds(h, [k \in K |-> w[k]], K) /\ \A T \in SUBSET K : SumOver(w, T) = h[T]
  <2> HIDE DEF w
  <2> QED BY <1>3, SumIs
<1>6. h \in [SUBSET K -> Nat] /\ h[{}] = 0
      /\ \A t \in SUBSET K : \A k \in K \ t : h[t \cup {k}] = h[t] + w[k]
  BY <1>5 DEF Adds
<1>7. \A i \in items : i.kind \in K /\ i = line_item(s, i.kind, usage[i.kind]) /\ i.amount = Cap(w[i.kind])
  BY LineItem
<1> HIDE DEF items, w
<1> DEFINE k == [t \in SUBSET items |-> Cap(h[kinds(t)])]
<1>8. Totals(k, items)
  <2>1. k[{}] = 0
    <3>1. kinds({}) = {} OBVIOUS
    <3>2. Cap(0) = 0 BY TariffAssumption DEF Cap
    <3>3. k[{}] = Cap(h[kinds({})]) OBVIOUS
    <3> HIDE DEF k, kinds
    <3> QED BY <1>6, <3>1, <3>2, <3>3
  <2>2. ASSUME NEW t \in SUBSET items, t # {}
        PROVE  k[t] = plus(k[t \ {CHOOSE x \in t : TRUE}], (CHOOSE x \in t : TRUE).amount)
    <3>1. PICK y : y = CHOOSE x \in t : TRUE OBVIOUS
    <3>2. y \in t /\ y \in items BY <2>2, <3>1
    <3>3. t \ {y} \in SUBSET items /\ kinds(t \ {y}) \in SUBSET K /\ y.kind \in K BY <1>7, <3>2
    <3>4. y.kind \notin kinds(t \ {y})
      BY <1>7, <3>2
    <3>5. kinds(t) = kinds(t \ {y}) \cup {y.kind} BY <3>2
    <3>6. h[kinds(t)] = h[kinds(t \ {y})] + w[y.kind]
      <4> HIDE DEF kinds
      <4> QED BY <1>6, <3>3, <3>4, <3>5
    <3>7. h[kinds(t \ {y})] \in Nat /\ w[y.kind] \in Nat
      <4> HIDE DEF kinds
      <4> QED BY <1>3, <1>6, <3>3
    <3>8. plus(Cap(h[kinds(t \ {y})]), Cap(w[y.kind])) = Cap(h[kinds(t)])
      <4> HIDE DEF kinds
      <4> QED BY <3>6, <3>7, CapAdds
    <3>9. k[t] = Cap(h[kinds(t)]) /\ k[t \ {y}] = Cap(h[kinds(t \ {y})]) BY <3>3
    <3> HIDE DEF k, kinds
    <3> QED BY <1>7, <3>1, <3>2, <3>8, <3>9
  <2>3. k = [t \in SUBSET items |-> k[t]] OBVIOUS
  <2> HIDE DEF k
  <2> QED BY <2>1, <2>2, <2>3 DEF Totals
<1>9. k[items] = Cap(h[K])
  <2>1. kinds(items) = K BY LineItem DEF items
  <2> QED BY <2>1
<1>10. AmountOf(items) = k[items]
  <2> HIDE DEF k
  <2> QED BY <1>2, <1>8, FoldIsTotal
<1>11. h[K] = SumOver(w, K) /\ h[K] \in Nat
  <2>1. K \in SUBSET K OBVIOUS
  <2> QED BY <1>5, <1>6, <2>1
<1> QED BY <1>1, <1>4, <1>9, <1>10, <1>11 DEF items, w

\* Division, rounded up.
LEMMA RoundedUp ==
    ASSUME NEW a \in Nat, NEW b \in Nat \ {0}
    PROVE  LET q == (a + b - 1) \div b
           IN  q \in Nat /\ q * b >= a /\ (q > 0 => (q - 1) * b < a) /\ q <= a
<1>1. PICK n \in Nat : n = a + b - 1 OBVIOUS
<1>2. PICK q : q = n \div b OBVIOUS
<1>3. q \in Nat /\ q * b <= n /\ n < q * b + b BY <1>2
<1>4. q * b \in Nat /\ (q - 1) * b = q * b - b BY <1>3
<1>5. q * b >= a /\ (q - 1) * b < a BY <1>1, <1>3, <1>4
<1>6. q <= a
  <2>1. SUFFICES ASSUME q > a PROVE FALSE BY <1>3
  <2>2. PICK d \in Nat : q = a + 1 + d BY <1>3, <2>1
  <2>3. q * b = a * b + b + d * b /\ a * b \in Nat /\ d * b \in Nat BY <2>2
  <2>4. a * b >= a
    <3>1. PICK c \in Nat : b = 1 + c OBVIOUS
    <3>2. a * b = a + a * c /\ a * c \in Nat BY <3>1
    <3> QED BY <3>2
  <2> QED BY <1>1, <1>3, <2>3, <2>4
<1> QED BY <1>1, <1>2, <1>3, <1>5, <1>6

LEMMA CeilDiv ==
    ASSUME NEW a \in Nat, NEW b \in Nat \ {0}, a + b - 1 <= U64
    PROVE  ceil_div(a, b) = (a + b - 1) \div b
<1>1. plus(a, b - 1) = a + b - 1 BY TariffAssumption DEF plus
<1> QED BY <1>1 DEF ceil_div

\* Usage in whole batches: they hold it, and one batch fewer does not, for every
\* count and batch whose sum fits (billing_units).
THEOREM BatchesRoundUp ==
    ASSUME NEW raw \in Nat, NEW batch \in Nat \ {0}, raw + batch - 1 <= U64
    PROVE  /\ billing_units(raw, batch) * batch >= raw
           /\ billing_units(raw, batch) > 0 => (billing_units(raw, batch) - 1) * batch < raw
BY CeilDiv, RoundedUp DEF billing_units

\* A price that a fixed cost is spread over a volume for, and marked up.
Spreads(f, w, v, c, m, price) == /\ c = (f + v - 1) \div v
                                 /\ m = ((w + c) * 200 + 100 - 1) \div 100
                                 /\ price = (IF m = 0 THEN 1 ELSE m)

LEMMA Spread ==
    ASSUME NEW f \in Nat, NEW w \in Nat, NEW v \in {500, 200}, NEW c, NEW m, NEW price,
           Spreads(f, w, v, c, m, price)
    PROVE  /\ price \in Nat /\ price > 0 /\ price * v * 100 >= 200 * (f + v * w)
           /\ c \in Nat /\ c <= f
<1> USE DEF Spreads
<1>1. c \in Nat /\ c * v >= f /\ c <= f BY RoundedUp
<1>2. m \in Nat /\ m * 100 >= (w + c) * 200
  <2>1. (w + c) * 200 \in Nat BY <1>1
  <2> QED BY <2>1, RoundedUp
<1>3. price \in Nat /\ price > 0 /\ price >= m BY <1>2
<1>4. CASE v = 500 BY <1>1, <1>2, <1>3, <1>4
<1>5. CASE v = 200 BY <1>1, <1>2, <1>3, <1>5
<1> QED BY <1>1, <1>3, <1>4, <1>5

\* The costs of a profile, with room for what is computed from them.
Profile(p, max) == /\ p.base \in Nat /\ p.premium \in Nat /\ p.bandwidth \in Nat
                   /\ 200 * (p.base + p.premium + p.bandwidth) + 499 <= max

Recovers(k, price, cost, w) ==
    LET bandwidth == k \in {"relay", "reachability"}
        volume == IF bandwidth THEN Assumed.bandwidth ELSE Assumed[k]
    IN  price > 0 /\ price * volume * 100 >= Markup * (cost + (IF bandwidth THEN volume * w ELSE 0))

Hosted == {"relay", "reachability", "gateway", "compute"}

\* A recommended price recovers what it was computed from, at the assumed volume, for
\* every hosting profile whose sums fit (recommended_tariff).
THEOREM PricesRecover ==
    ASSUME NEW p, Profile(p, U64), NEW k \in Hosted
    PROVE  Recovers(k, recommended_tariff(k, p), fixed_cost(k, p), p.bandwidth)
<1> USE TariffAssumption
<1>1. p.base \in Nat /\ p.premium \in Nat /\ p.bandwidth \in Nat
      /\ 200 * (p.base + p.premium + p.bandwidth) + 499 <= U64
  BY DEF Profile
<1>2. PICK f \in Nat : f = fixed_cost(k, p) /\ f <= p.base + p.premium
  BY <1>1 DEF fixed_cost, plus
<1>3. PICK w \in Nat : w = (IF k \in {"relay", "reachability"} THEN p.bandwidth ELSE 0) BY <1>1
<1>4. PICK v \in {500, 200} : v = (IF k = "gateway" THEN 200 ELSE 500) OBVIOUS
<1>5. PICK c : c = (f + v - 1) \div v OBVIOUS
<1>6. PICK m : m = ((w + c) * 200 + 100 - 1) \div 100 OBVIOUS
<1>7. PICK price : price = (IF m = 0 THEN 1 ELSE m) OBVIOUS
<1>8. price \in Nat /\ price > 0 /\ price * v * 100 >= 200 * (f + v * w) /\ c \in Nat /\ c <= f
  <2>1. Spreads(f, w, v, c, m, price) BY <1>5, <1>6, <1>7 DEF Spreads
  <2> QED BY <2>1, Spread
<1>9. ceil_div(f, v) = c BY <1>1, <1>2, <1>4, <1>5, CeilDiv
<1>10. atLeast1(markup(w + c)) = price
  <2>1. times(w + c, 200) = (w + c) * 200 /\ (w + c) * 200 \in Nat /\ (w + c) * 200 + 100 - 1 <= U64
    BY <1>1, <1>2, <1>3, <1>8 DEF times
  <2>2. ceil_div((w + c) * 200, 100) = m BY <1>6, <2>1, CeilDiv
  <2> QED BY <1>7, <2>1, <2>2 DEF markup, Markup, atLeast1
<1>11. recommended_tariff(k, p) = price
  <2>1. CASE k \in {"relay", "reachability"}
    <3>1. recommended_tariff(k, p) = bandwidth_schedule(k, p) /\ v = 500 /\ w = p.bandwidth
      BY <1>3, <1>4, <2>1 DEF recommended_tariff
    <3>2. plus(w, c) = w + c BY <1>1, <1>2, <1>8, <3>1 DEF plus
    <3> QED BY <1>2, <1>9, <1>10, <3>1, <3>2 DEF bandwidth_schedule, Assumed
  <2>2. CASE k = "gateway"
    <3>1. recommended_tariff(k, p) = gateway_schedule(p) /\ v = 200 /\ w = 0
      BY <1>3, <1>4, <2>2 DEF recommended_tariff
    <3> QED BY <1>2, <1>8, <1>9, <1>10, <2>2, <3>1 DEF gateway_schedule, Assumed
  <2>3. CASE k = "compute"
    <3>1. recommended_tariff(k, p) = compute_schedule(p) /\ v = 500 /\ w = 0
      BY <1>3, <1>4, <2>3 DEF recommended_tariff
    <3> QED BY <1>2, <1>8, <1>9, <1>10, <2>3, <3>1 DEF compute_schedule, Assumed
  <2> QED BY <2>1, <2>2, <2>3 DEF Hosted
<1>12. v = (IF k \in {"relay", "reachability"} THEN Assumed.bandwidth ELSE Assumed[k])
  BY <1>4 DEF Assumed, Hosted
<1>13. v * w = (IF k \in {"relay", "reachability"} THEN v * p.bandwidth ELSE 0) BY <1>3
<1> QED BY <1>2, <1>8, <1>11, <1>12, <1>13 DEF Recovers, Markup

-----------------------------------------------------------------------------
(***************************************************************************)
(* The samples of the tariff part are of that kind.  Its prices are worked *)
(* out with room to spare, by an instance of the module with its own MAX.  *)
(***************************************************************************)

LEMMA PricingCeilDiv ==
    ASSUME NEW a \in Nat, NEW b \in Nat \ {0}, a + b - 1 <= 10000000
    PROVE  Pricing!ceil_div(a, b) = (a + b - 1) \div b
<1>1. Pricing!plus(a, b - 1) = a + b - 1 BY DEF Pricing!plus
<1> QED BY <1>1 DEF Pricing!ceil_div

LEMMA SampledPrices ==
    ASSUME NEW p, Profile(p, 10000000), NEW k \in Hosted
    PROVE  Recovers(k, Pricing!recommended_tariff(k, p), Pricing!fixed_cost(k, p), p.bandwidth)
<1>1. p.base \in Nat /\ p.premium \in Nat /\ p.bandwidth \in Nat
      /\ 200 * (p.base + p.premium + p.bandwidth) + 499 <= 10000000
  BY DEF Profile
<1>2. PICK f \in Nat : f = Pricing!fixed_cost(k, p) /\ f <= p.base + p.premium
  BY <1>1 DEF Pricing!fixed_cost, Pricing!plus
<1>3. PICK w \in Nat : w = (IF k \in {"relay", "reachability"} THEN p.bandwidth ELSE 0) BY <1>1
<1>4. PICK v \in {500, 200} : v = (IF k = "gateway" THEN 200 ELSE 500) OBVIOUS
<1>5. PICK c : c = (f + v - 1) \div v OBVIOUS
<1>6. PICK m : m = ((w + c) * 200 + 100 - 1) \div 100 OBVIOUS
<1>7. PICK price : price = (IF m = 0 THEN 1 ELSE m) OBVIOUS
<1>8. price \in Nat /\ price > 0 /\ price * v * 100 >= 200 * (f + v * w) /\ c \in Nat /\ c <= f
  <2>1. Spreads(f, w, v, c, m, price) BY <1>5, <1>6, <1>7 DEF Spreads
  <2> QED BY <2>1, Spread
<1>9. Pricing!ceil_div(f, v) = c
  <2>1. f + v - 1 <= 10000000 /\ v \in Nat \ {0} BY <1>1, <1>2
  <2> QED BY <1>5, <2>1, PricingCeilDiv
<1>10. Pricing!atLeast1(Pricing!markup(w + c)) = price
  <2>1. Pricing!times(w + c, 200) = (w + c) * 200 /\ (w + c) * 200 \in Nat /\ (w + c) * 200 + 100 - 1 <= 10000000
    BY <1>1, <1>2, <1>3, <1>8 DEF Pricing!times
  <2>2. Pricing!ceil_div((w + c) * 200, 100) = m BY <1>6, <2>1, PricingCeilDiv
  <2> QED BY <1>7, <2>1, <2>2 DEF Pricing!markup, Markup, Pricing!Markup, Pricing!atLeast1
<1>11. Pricing!recommended_tariff(k, p) = price
  <2>1. CASE k \in {"relay", "reachability"}
    <3>1. Pricing!recommended_tariff(k, p) = Pricing!bandwidth_schedule(k, p) /\ v = 500 /\ w = p.bandwidth
      BY <1>3, <1>4, <2>1 DEF Pricing!recommended_tariff
    <3>2. Pricing!plus(w, c) = w + c BY <1>1, <1>2, <1>8, <3>1 DEF Pricing!plus
    <3> QED BY <1>2, <1>9, <1>10, <3>1, <3>2 DEF Pricing!bandwidth_schedule, Assumed, Pricing!Assumed
  <2>2. CASE k = "gateway"
    <3>1. Pricing!recommended_tariff(k, p) = Pricing!gateway_schedule(p) /\ v = 200 /\ w = 0
      BY <1>3, <1>4, <2>2 DEF Pricing!recommended_tariff
    <3> QED BY <1>2, <1>8, <1>9, <1>10, <2>2, <3>1 DEF Pricing!gateway_schedule, Assumed, Pricing!Assumed
  <2>3. CASE k = "compute"
    <3>1. Pricing!recommended_tariff(k, p) = Pricing!compute_schedule(p) /\ v = 500 /\ w = 0
      BY <1>3, <1>4, <2>3 DEF Pricing!recommended_tariff
    <3> QED BY <1>2, <1>8, <1>9, <1>10, <2>3, <3>1 DEF Pricing!compute_schedule, Assumed, Pricing!Assumed
  <2> QED BY <2>1, <2>2, <2>3 DEF Hosted
<1>12. v = (IF k \in {"relay", "reachability"} THEN Assumed.bandwidth ELSE Assumed[k])
  BY <1>4 DEF Assumed, Pricing!Assumed, Hosted
<1>13. v * w = (IF k \in {"relay", "reachability"} THEN v * p.bandwidth ELSE 0) BY <1>3
<1> QED BY <1>2, <1>8, <1>11, <1>12, <1>13 DEF Recovers, Markup, Pricing!Markup

LEMMA SampleInit == MCInit => sample \in Samples
<1>1. [relay |-> 1] \in PriceLists /\ [relay |-> 2] \in Allowances
      /\ [base |-> 0, bandwidth |-> 0, premium |-> 0] \in Profiles
  BY DEF PriceLists, Allowances, Profiles
<1>2. [k \in Kind |-> 0] \in [Kind -> Counts] BY TariffAssumption DEF Counts
<1>3. PICK s : s = [prices |-> [relay |-> 1], free_allowance |-> [relay |-> 2], usage |-> [k \in Kind |-> 0],
                    batch |-> 1, profile |-> [base |-> 0, bandwidth |-> 0, premium |-> 0]]
  OBVIOUS
<1>4. s \in Samples /\ s.batch = 1 BY <1>1, <1>2, <1>3 DEF Samples
<1>5. NoSample \in Samples BY <1>4 DEF NoSample
<1> QED BY <1>5 DEF MCInit

LEMMA SampleStep == ASSUME sample \in Samples, [MCNext]_billingVars PROVE (sample \in Samples)'
<1>1. CASE UNCHANGED sample BY <1>1
<1>2. CASE Look
  <2>1. PICK u : u = [relay |-> sample.usage.gateway, gateway |-> sample.usage.relay] OBVIOUS
  <2>2. sample.usage \in [Kind -> Counts] BY DEF Samples
  <2>3. u \in [Kind -> Counts] BY <2>1, <2>2 DEF Kind
  <2>4. sample' = [sample EXCEPT !.usage = u] BY <1>2, <2>1 DEF Look
  <2>5. PICK v : v = [sample EXCEPT !.usage = u] OBVIOUS
  <2>6. v \in Samples BY <2>3, <2>5 DEF Samples
  <2> QED BY <2>4, <2>5, <2>6
<1> QED BY <1>1, <1>2 DEF MCNext, billingVars

LEMMA SampledBill == ASSUME sample \in Samples PROVE BillExact
<1> DEFINE usage == sample.usage
<1>1. /\ usage \in [Kind -> Counts] /\ Schedule.prices = sample.prices
      /\ Schedule.free_allowance = sample.free_allowance
      /\ sample.prices \in PriceLists /\ sample.free_allowance \in Allowances
  BY DEF Samples, Schedule
<1>2. DOMAIN usage = Kind /\ \A k \in Kind : usage[k] \in Nat BY <1>1, TariffAssumption DEF Counts
<1>3. \A k \in Kind : free(Schedule, k) \in Nat BY <1>1 DEF free, Kind, Allowances
<1>4. \A k \in Kind : k \in DOMAIN sample.prices => sample.prices[k] \in Nat BY <1>1 DEF Kind, PriceLists
<1>5. IsFiniteSet(Kind)
  <2>1. Kind = {"relay"} \cup {"gateway"} BY DEF Kind
  <2> QED BY <2>1, FS_Singleton, FS_Union
<1> HIDE DEF usage
<1>6. CASE Kind \subseteq DOMAIN sample.prices
  <2>1. Prices(Schedule, usage) BY <1>1, <1>2, <1>3, <1>4, <1>6 DEF Prices
  <2>2. /\ evaluate(Schedule, usage).ok
        /\ evaluate(Schedule, usage).amount
             = Cap(SumFunction([k \in DOMAIN usage |-> Due(Schedule, k, usage[k])]))
    BY <1>2, <1>5, <2>1, BillsAreExact
  <2>3. [k \in DOMAIN usage |-> Due(Schedule, k, usage[k])]
        = [k \in Kind |-> (IF usage[k] > free(Schedule, k) THEN usage[k] - free(Schedule, k) ELSE 0)
                              * sample.prices[k]]
    BY <1>1, <1>2 DEF Due, minus
  <2>4. evaluate(Schedule, usage).amount = Cap(SumFunction(
          [k \in Kind |-> (IF usage[k] > free(Schedule, k) THEN usage[k] - free(Schedule, k) ELSE 0)
                              * sample.prices[k]]))
    BY <2>2, <2>3
  <2> QED BY <1>6, <2>2, <2>4 DEF BillExact, Cap, usage
<1>7. CASE ~(Kind \subseteq DOMAIN sample.prices)
  <2>1. ~evaluate(Schedule, usage).ok BY <1>1, <1>2, <1>7 DEF evaluate
  <2> QED BY <1>7, <2>1 DEF BillExact, usage
<1> QED BY <1>6, <1>7

LEMMA SampledRest == ASSUME sample \in Samples PROVE RoundsUp /\ PricingRecovers
<1>1. RoundsUp
  <2>1. sample.usage["relay"] \in Nat /\ sample.batch \in Nat \ {0}
    BY TariffAssumption DEF Samples, Counts, Kind
  <2> QED BY <2>1, BatchesRoundUp DEF RoundsUp
<1>2. PricingRecovers
  <2>1. PICK p : p = sample.profile OBVIOUS
  <2>2. /\ p.base \in {0, 1, 500, 999} /\ p.bandwidth \in {0, 2} /\ p.premium \in {0, 501}
    BY <2>1 DEF Samples, Profiles
  <2>3. Profile(p, 10000000) BY <2>2 DEF Profile
  <2>4. \A k \in Hosted : Recovers(k, Pricing!recommended_tariff(k, p), Pricing!fixed_cost(k, p), p.bandwidth)
    BY <2>3, SampledPrices
  <2> QED BY <2>1, <2>4 DEF Recovers, Hosted, PricingRecovers
<1> QED BY <1>1, <1>2

\* Bills are exact or at u64::MAX, batches round up and recommended prices recover
\* their costs, for every u64::MAX the samples are counted up to.
THEOREM TariffIsExact == MCSpec => []TariffExact
<1> DEFINE I == sample \in Samples
<1>1. MCInit => I BY SampleInit
<1>2. I /\ [MCNext]_billingVars => I' BY SampleStep
<1>3. I => TariffExact BY SampledBill, SampledRest DEF TariffExact
<1> QED BY <1>1, <1>2, <1>3, PTL DEF MCSpec, billingVars

-----------------------------------------------------------------------------
(***************************************************************************)
(* The engine.  The meter is empty between events, so a bill has one line, *)
(* for the event at hand, and a payment adds one receipt: the number the   *)
(* log is at, the amount that leaves the balance, the units of the event.  *)
(***************************************************************************)

Operation == [kind : Kinds, metered : Nat, amount : Nat, sequence : Nat]
UnitsOf(k) == [i \in DOMAIN receipts |-> IF receipts[i].kind = k THEN receipts[i].metered ELSE 0]
AmountsPaid == [i \in DOMAIN receipts |-> receipts[i].amount]

EngineInv == /\ EngineTypeOK /\ meter = NoUsage
             /\ receipts \in Seq(Operation) /\ next_sequence \in Nat
             /\ funded \in Nat /\ returned \in Nat /\ used \in [Kinds -> Nat]
             /\ ReceiptsAccount /\ ReceiptsNumbered /\ UsageBilledOnce

LEMMA EngineInitInv == EngineInit => EngineInv
<1> SUFFICES ASSUME EngineInit PROVE EngineInv OBVIOUS
<1>1. receipts = <<>> /\ DOMAIN receipts = {} BY DEF EngineInit
<1>2. EngineTypeOK /\ meter = NoUsage /\ next_sequence \in Nat /\ funded \in Nat /\ returned \in Nat
      /\ used \in [Kinds -> Nat]
  BY TariffAssumption DEF EngineInit, EngineTypeOK, NoUsage
<1>3. Receipted = 0
  <2>1. DOMAIN AmountsPaid = {} /\ \A i \in {} : AmountsPaid[i] = 0 BY <1>1 DEF AmountsPaid
  <2>2. SumFunction(AmountsPaid) = 0 BY <2>1, FS_EmptySet, SumFunctionZero
  <2> QED BY <2>2 DEF Receipted, AmountsPaid
<1>4. UsageBilledOnce
  <2> SUFFICES ASSUME NEW k \in Kinds PROVE SumFunction(UnitsOf(k)) = used[k] BY DEF UsageBilledOnce, UnitsOf
  <2>1. DOMAIN UnitsOf(k) = {} /\ \A i \in {} : UnitsOf(k)[i] = 0 BY <1>1 DEF UnitsOf
  <2>2. SumFunction(UnitsOf(k)) = 0 BY <2>1, FS_EmptySet, SumFunctionZero
  <2> QED BY <2>2 DEF EngineInit
<1>5. ReceiptsAccount BY <1>3 DEF EngineInit, ReceiptsAccount
<1>6. ReceiptsNumbered BY <1>1 DEF EngineInit, ReceiptsNumbered
<1>7. receipts \in Seq(Operation) BY <1>1
<1> QED BY <1>2, <1>4, <1>5, <1>6, <1>7 DEF EngineInv

LEMMA PaidTypes ==
    ASSUME EngineInv
    PROVE  /\ Receipted = SumFunction(AmountsPaid) /\ Receipted \in Nat
           /\ AmountsPaid \in [1..Len(receipts) -> Nat]
           /\ \A k \in Kinds : UnitsOf(k) \in [1..Len(receipts) -> Nat]
           /\ balance \in Nat /\ balance <= U64
<1>1. receipts \in Seq(Operation) /\ DOMAIN receipts = 1..Len(receipts) /\ Len(receipts) \in Nat
      /\ \A i \in 1..Len(receipts) : receipts[i] \in Operation
  BY DEF EngineInv
<1>2. AmountsPaid \in [1..Len(receipts) -> Nat] /\ \A k \in Kinds : UnitsOf(k) \in [1..Len(receipts) -> Nat]
  BY <1>1 DEF AmountsPaid, UnitsOf, Operation
<1>3. IsFiniteSet(1..Len(receipts)) BY <1>1, FS_Interval
<1>4. Receipted = SumFunction(AmountsPaid) BY DEF Receipted, AmountsPaid
<1>5. Receipted \in Nat BY <1>2, <1>3, <1>4, SumFunctionType
<1> QED BY <1>2, <1>4, <1>5, TariffAssumption DEF EngineInv, EngineTypeOK

LEMMA StateIs == \A b : state(b) \in {"exhausted", "low", "ok"}
BY DEF state

\* The steps that issue no receipt.
LEMMA EngineUnpaid ==
    ASSUME EngineInv, UNCHANGED <<meter, receipts, next_sequence, used>>,
           schedule' \in Schedules, seen' \subseteq EngineRefs, balance' \in 0..U64,
           outcome' \in {"topped_up", "ok", "low", "exhausted", "failed",
                         "tariff_changed", "charged", "charge_failed"},
           funded' \in Nat, returned' \in Nat,
           balance' + Receipted + returned' <= funded',
           funded' <= U64 => balance' + Receipted + returned' = funded'
    PROVE  EngineInv'
<1>1. Receipted' = Receipted BY DEF Receipted
<1>2. ReceiptsAccount' BY <1>1 DEF ReceiptsAccount
<1>3. ReceiptsNumbered' BY DEF EngineInv, ReceiptsNumbered
<1>4. UsageBilledOnce' BY DEF EngineInv, UsageBilledOnce
<1>5. EngineTypeOK' BY DEF EngineInv, EngineTypeOK
<1> QED BY <1>2, <1>3, <1>4, <1>5 DEF EngineInv

LEMMA ToppedUp ==
    ASSUME EngineInv, NEW a \in TopUps, NEW r \in EngineRefs, TopUp(a, r) PROVE EngineInv'
<1>1. a \in Nat BY EngineAssumption, TariffAssumption
<1>2. balance \in Nat /\ balance <= U64 /\ Receipted \in Nat /\ funded \in Nat /\ returned \in Nat
      /\ balance + Receipted + returned <= funded
      /\ (funded <= U64 => balance + Receipted + returned = funded)
  BY PaidTypes DEF EngineInv, ReceiptsAccount
<1>3. UNCHANGED <<meter, receipts, next_sequence, used, schedule, returned>> /\ outcome' = "topped_up"
      /\ seen' \subseteq EngineRefs /\ schedule \in Schedules
  BY DEF TopUp, EngineInv, EngineTypeOK
<1>4. \/ balance' = balance /\ funded' = funded
      \/ balance' = plus(balance, a) /\ funded' = funded + a
  BY DEF TopUp
<1>5. balance' \in 0..U64 /\ funded' \in Nat /\ balance' + Receipted + returned' <= funded'
      /\ (funded' <= U64 => balance' + Receipted + returned' = funded')
  BY <1>1, <1>2, <1>3, <1>4, TariffAssumption DEF plus
<1> QED BY <1>2, <1>3, <1>5, EngineUnpaid

LEMMA Refunded == ASSUME EngineInv, NEW a \in Refunds, Refund(a) PROVE EngineInv'
<1>1. a \in Nat BY EngineAssumption, TariffAssumption
<1>2. balance \in Nat /\ balance <= U64 /\ Receipted \in Nat /\ funded \in Nat /\ returned \in Nat
      /\ balance + Receipted + returned <= funded
      /\ (funded <= U64 => balance + Receipted + returned = funded)
  BY PaidTypes DEF EngineInv, ReceiptsAccount
<1>3. UNCHANGED <<meter, receipts, next_sequence, used, schedule, seen, funded>>
      /\ outcome' \in {"exhausted", "low", "ok", "failed"}
      /\ seen \subseteq EngineRefs /\ schedule \in Schedules
  BY StateIs DEF Refund, EngineInv, EngineTypeOK
<1>4. \/ balance' = balance /\ returned' = returned
      \/ balance' = balance - a /\ returned' = returned + a /\ a <= balance
  BY DEF Refund
<1>5. balance' \in 0..U64 /\ returned' \in Nat /\ balance' + Receipted + returned' <= funded'
      /\ (funded' <= U64 => balance' + Receipted + returned' = funded')
  <2>1. CASE balance' = balance /\ returned' = returned BY <1>2, <1>3, <2>1
  <2>2. CASE balance' = balance - a /\ returned' = returned + a /\ a <= balance
    <3>1. balance' \in 0..U64 /\ returned' \in Nat BY <1>1, <1>2, <2>2, TariffAssumption
    <3>2. balance' + Receipted + returned' = balance + Receipted + returned BY <1>1, <1>2, <2>2
    <3> QED BY <1>2, <1>3, <3>1, <3>2
  <2> QED BY <1>4, <2>1, <2>2
<1> QED BY <1>2, <1>3, <1>5, EngineUnpaid

\* The bill of one event.
LEMMA OneLine ==
    ASSUME NEW s \in Schedules, NEW k \in Kinds, NEW u \in Units, k \in DOMAIN s.prices
    PROVE  LET m == record(NoUsage, k, u)
               item == line_item(s, k, u)
           IN  /\ evaluate(s, m).items = {item} /\ evaluate(s, m).amount = item.amount
               /\ item.kind = k /\ item.metered = u /\ item.amount \in 0..U64
<1> DEFINE m == record(NoUsage, k, u)
           item == line_item(s, k, u)
<1>1. u \in Nat /\ u <= U64 /\ free(s, k) \in Nat /\ s.prices[k] \in Nat
  BY EngineAssumption, TariffAssumption
<1>2. m = [x \in {k} |-> u]
  <2>1. DOMAIN NoUsage = {} BY DEF NoUsage
  <2>2. plus(0, u) = u BY <1>1, TariffAssumption DEF plus
  <2>3. m = [x \in {k} |-> IF x # k THEN NoUsage[x] ELSE plus(0, u)] BY <2>1 DEF record
  <2> QED BY <2>2, <2>3
<1>3. DOMAIN m = {k} /\ m[k] = u BY <1>2
<1> HIDE DEF m
<1>4. Prices(s, m) BY <1>1, <1>3 DEF Prices
<1>5. item.kind = k /\ item.metered = u /\ item.amount = Cap(Due(s, k, u)) /\ Due(s, k, u) \in Nat
  BY <1>3, <1>4, LineItem
<1>6. IsFiniteSet(DOMAIN m) BY <1>3, FS_Singleton
<1>7. /\ evaluate(s, m).amount = Cap(SumFunction([j \in DOMAIN m |-> Due(s, j, m[j])]))
      /\ evaluate(s, m).items = {line_item(s, j, m[j]) : j \in DOMAIN m}
  BY <1>4, <1>6, BillsAreExact
<1>8. evaluate(s, m).items = {item} BY <1>3, <1>7
<1>9. SumFunction([j \in DOMAIN m |-> Due(s, j, m[j])]) = Due(s, k, u)
  <2> DEFINE w == [j \in DOMAIN m |-> Due(s, j, m[j])]
  <2>1. DOMAIN w = {k} /\ w[k] = Due(s, k, u) /\ w[k] \in Nat /\ \A x \in {k} \ {k} : w[x] = 0 BY <1>3, <1>5
  <2> HIDE DEF w
  <2>2. SumFunction(w) = SumOver(w, {k}) BY <2>1, SumAll
  <2>3. SumOver(w, {k}) = w[k] BY <2>1, FS_Singleton, SumOne
  <2> QED BY <2>1, <2>2, <2>3 DEF w
<1>10. evaluate(s, m).amount = item.amount /\ item.amount \in 0..U64 BY <1>5, <1>7, <1>9, CapAdds
<1> HIDE DEF item
<1> QED BY <1>5, <1>8, <1>10 DEF m, item

LEMMA Unpriced ==
    ASSUME NEW s, NEW usage, ~(DOMAIN usage \subseteq DOMAIN s.prices) PROVE ~evaluate(s, usage).ok
BY DEF evaluate

LEMMA OneReceipt ==
    ASSUME NEW bill, NEW item, bill.items = {item}
    PROVE  Cardinality(bill.items) = 1 /\ issue_for_bill(bill) = <<BilledOperation(item, next_sequence + 1 - 1)>>
<1>1. Cardinality(bill.items) = 1 BY FS_Singleton
<1>2. PICK f : f = SetToSeq(bill.items) OBVIOUS
<1>3. f \in [1..1 -> {item}]
  <2>1. [i \in 1..1 |-> item] \in [1..1 -> {item}] /\ IsInjective([i \in 1..1 |-> item]) BY DEF IsInjective
  <2>2. f = CHOOSE g \in [1..1 -> {item}] : IsInjective(g) BY <1>1, <1>2 DEF SetToSeq
  <2> QED BY <2>1, <2>2
<1>4. DOMAIN f = 1..1 /\ f[1] = item BY <1>3
<1>5. issue_for_bill(bill) = [i \in DOMAIN f |-> BilledOperation(f[i], next_sequence + i - 1)]
  BY <1>2 DEF issue_for_bill
<1>6. issue_for_bill(bill) = [i \in 1..1 |-> BilledOperation(item, next_sequence + 1 - 1)] BY <1>4, <1>5
<1> QED BY <1>1, <1>6

\* A paid event: the receipt that is added, and the sums with it.
LEMMA ReceiptAdded ==
    ASSUME EngineInv, NEW k \in Kinds, NEW u \in Nat, NEW n \in Nat,
           NEW o, o = [kind |-> k, metered |-> u, amount |-> n, sequence |-> next_sequence],
           receipts' = receipts \o <<o>>
    PROVE  /\ receipts' \in Seq(Operation) /\ Len(receipts)' = Len(receipts) + 1
           /\ \A i \in 1..Len(receipts) : receipts'[i] = receipts[i]
           /\ receipts'[Len(receipts) + 1] = o
           /\ Receipted' = Receipted + n
           /\ \A j \in Kinds : SumFunction(UnitsOf(j))' = SumFunction(UnitsOf(j)) + (IF j = k THEN u ELSE 0)
<1> DEFINE l == Len(receipts)
<1>1. receipts \in Seq(Operation) /\ l \in Nat /\ DOMAIN receipts = 1..l
      /\ next_sequence \in Nat /\ \A i \in 1..l : receipts[i] \in Operation
  BY DEF EngineInv
<1>2. o \in Operation /\ o.kind = k /\ o.metered = u /\ o.amount = n BY <1>1 DEF Operation
<1>3. <<o>> \in Seq(Operation) /\ Len(<<o>>) = 1 /\ <<o>>[1] = o BY <1>2
<1>4. PICK R \in Seq(Operation) : R = receipts' /\ R = receipts \o <<o>>
  BY <1>1, <1>3, ConcatProperties
<1>5. Len(R) = l + 1 /\ \A i \in 1..(l + 1) : R[i] = IF i <= l THEN receipts[i] ELSE <<o>>[i - l]
  BY <1>1, <1>3, <1>4, ConcatProperties
<1>6. R[l + 1] = o /\ \A i \in 1..l : R[i] = receipts[i]
  <2>1. l + 1 \in 1..(l + 1) /\ ~(l + 1 <= l) /\ (l + 1) - l = 1 BY <1>1
  <2>2. R[l + 1] = <<o>>[1] BY <1>5, <2>1
  <2>3. \A i \in 1..l : i \in 1..(l + 1) /\ i <= l BY <1>1
  <2> QED BY <1>3, <1>5, <2>2, <2>3
<1>7. DOMAIN R = 1..(l + 1) /\ \A i \in 1..(l + 1) : R[i] \in Operation BY <1>4, <1>5
<1>8. Receipted' = Receipted + n
  <2>1. AmountsPaid \in [1..l -> Nat] /\ Receipted = SumFunction(AmountsPaid) BY PaidTypes
  <2>2. PICK g : g = [i \in 1..(l + 1) |-> R[i].amount] OBVIOUS
  <2>3. g \in [1..(l + 1) -> Nat] BY <1>7, <2>2 DEF Operation
  <2>4. \A i \in 1..l : g[i] = AmountsPaid[i]
    BY <1>1, <1>6, <2>2 DEF AmountsPaid
  <2>5. g[l + 1] = n BY <1>1, <1>2, <1>6, <2>2
  <2>6. Receipted' = SumFunction(g) BY <1>4, <1>7, <2>2 DEF Receipted
  <2> HIDE DEF l
  <2> QED BY <1>1, <2>1, <2>3, <2>4, <2>5, <2>6, SumAppend
<1>9. ASSUME NEW j \in Kinds
       PROVE  SumFunction(UnitsOf(j))' = SumFunction(UnitsOf(j)) + (IF j = k THEN u ELSE 0)
  <2>1. UnitsOf(j) \in [1..l -> Nat] BY PaidTypes
  <2>2. PICK g : g = [i \in 1..(l + 1) |-> IF R[i].kind = j THEN R[i].metered ELSE 0] OBVIOUS
  <2>3. g \in [1..(l + 1) -> Nat] BY <1>7, <2>2 DEF Operation
  <2>4. \A i \in 1..l : g[i] = UnitsOf(j)[i] BY <1>1, <1>6, <2>2 DEF UnitsOf
  <2>5. g[l + 1] = (IF j = k THEN u ELSE 0) BY <1>1, <1>2, <1>6, <2>2
  <2>6. SumFunction(UnitsOf(j))' = SumFunction(g) BY <1>4, <1>7, <2>2 DEF UnitsOf
  <2> HIDE DEF l
  <2> QED BY <1>1, <2>1, <2>3, <2>4, <2>5, <2>6, SumAppend
<1> QED BY <1>4, <1>5, <1>6, <1>8, <1>9

LEMMA MeteredStep ==
    ASSUME EngineInv, NEW k \in Kinds, NEW u \in Units, MeteredUsage(k, u) PROVE EngineInv'
<1> DEFINE bill == evaluate(schedule, record(NoUsage, k, u))
<1>1. /\ debit_and_receipt(bill) /\ meter' = NoUsage
      /\ UNCHANGED <<schedule, seen, funded, returned>> /\ meter = NoUsage
      /\ used' = IF outcome' = "failed" THEN used ELSE [used EXCEPT ![k] = @ + u]
  BY DEF MeteredUsage, EngineInv, reset
<1>2. balance \in Nat /\ balance <= U64 /\ Receipted \in Nat /\ funded \in Nat /\ returned \in Nat
      /\ balance + Receipted + returned <= funded
      /\ (funded <= U64 => balance + Receipted + returned = funded)
      /\ u \in Nat /\ schedule \in Schedules /\ seen \subseteq EngineRefs /\ next_sequence \in Nat
  BY PaidTypes, EngineAssumption, TariffAssumption DEF EngineInv, ReceiptsAccount, EngineTypeOK
<1> HIDE DEF bill
<1>3. CASE ~Debitable(bill)
  <2>1. outcome' = "failed" /\ UNCHANGED <<balance, receipts, next_sequence>>
    BY <1>1, <1>3 DEF debit_and_receipt
  <2>2. used' = used /\ balance' \in 0..U64 BY <1>1, <1>2, <2>1, TariffAssumption
  <2> QED BY <1>1, <1>2, <2>1, <2>2, EngineUnpaid
<1>4. CASE Debitable(bill)
  <2> DEFINE item == line_item(schedule, k, u)
  <2>1. /\ bill.ok /\ balance >= bill.amount /\ balance' = balance - bill.amount
        /\ receipts' = receipts \o issue_for_bill(bill) /\ outcome' = state(balance')
        /\ next_sequence' = next_sequence + Cardinality(bill.items)
    BY <1>1, <1>4 DEF debit_and_receipt, Debitable
  <2>2. k \in DOMAIN schedule.prices
    <3>1. DOMAIN record(NoUsage, k, u) = {k}
      <4>1. DOMAIN NoUsage = {} BY DEF NoUsage
      <4> QED BY <4>1 DEF record
    <3>2. DOMAIN record(NoUsage, k, u) \subseteq DOMAIN schedule.prices BY <2>1, Unpriced DEF bill
    <3> QED BY <3>1, <3>2
  <2>3. /\ bill.items = {item} /\ bill.amount = item.amount
        /\ item.kind = k /\ item.metered = u /\ item.amount \in 0..U64
    BY <1>2, <2>2, OneLine DEF bill
  <2> HIDE DEF item
  <2>4. PICK n \in Nat : n = item.amount /\ n = bill.amount BY <2>3, TariffAssumption
  <2>5. PICK o : o = [kind |-> k, metered |-> u, amount |-> n, sequence |-> next_sequence] OBVIOUS
  <2>6. Cardinality(bill.items) = 1 /\ issue_for_bill(bill) = <<o>>
    <3>1. BilledOperation(item, next_sequence + 1 - 1) = o
      BY <1>2, <2>3, <2>4, <2>5 DEF BilledOperation
    <3>2. Cardinality(bill.items) = 1
          /\ issue_for_bill(bill) = <<BilledOperation(item, next_sequence + 1 - 1)>>
      BY <2>3, OneReceipt
    <3> QED BY <3>1, <3>2
  <2>7. receipts' = receipts \o <<o>> /\ next_sequence' = next_sequence + 1 BY <2>1, <2>6
  <2>8. /\ receipts' \in Seq(Operation) /\ Len(receipts)' = Len(receipts) + 1
        /\ \A i \in 1..Len(receipts) : receipts'[i] = receipts[i]
        /\ receipts'[Len(receipts) + 1] = o
        /\ Receipted' = Receipted + n
        /\ \A j \in Kinds : SumFunction(UnitsOf(j))' = SumFunction(UnitsOf(j)) + (IF j = k THEN u ELSE 0)
    BY <1>2, <2>5, <2>7, ReceiptAdded
  <2>9. outcome' \in {"exhausted", "low", "ok"} BY <2>1, StateIs
  <2>10. used \in [Kinds -> Nat] /\ used' = [used EXCEPT ![k] = used[k] + u]
    BY <1>1, <2>9 DEF EngineInv
  <2>11. used' \in [Kinds -> Nat] /\ used'[k] = used[k] + u /\ \A j \in Kinds \ {k} : used'[j] = used[j]
    BY <1>2, <2>10
  <2>12. balance' \in 0..U64 /\ balance' + n = balance
    <3>1. balance' = balance - n /\ n <= balance BY <2>1, <2>4
    <3> QED BY <1>2, <3>1, TariffAssumption
  <2>13. ReceiptsAccount'
    <3>1. balance' + Receipted' + returned' = balance + Receipted + returned
      <4>1. returned' = returned /\ Receipted' = Receipted + n /\ balance' \in Nat /\ balance' + n = balance
        BY <1>1, <2>8, <2>12
      <4>2. PICK b \in Nat : b = balance' BY <4>1
      <4>3. PICK r : r = Receipted' OBVIOUS
      <4>4. b + n = balance /\ r = Receipted + n BY <4>1, <4>2, <4>3
      <4>5. b + r + returned = balance + Receipted + returned BY <1>2, <4>4
      <4> QED BY <4>1, <4>2, <4>3, <4>5
    <3> QED BY <1>1, <1>2, <3>1 DEF ReceiptsAccount
  <2>14. ReceiptsNumbered'
    <3>1. Len(receipts) \in Nat /\ next_sequence = Len(receipts) /\ DOMAIN receipts = 1..Len(receipts)
          /\ \A i \in 1..Len(receipts) : receipts[i].sequence = i - 1
      BY DEF EngineInv, ReceiptsNumbered
    <3>2. DOMAIN receipts' = 1..(Len(receipts) + 1) BY <2>8
    <3>3. o.sequence = Len(receipts) BY <2>5, <3>1
    <3>4. \A i \in 1..(Len(receipts) + 1) : receipts'[i].sequence = i - 1
      <4> TAKE i \in 1..(Len(receipts) + 1)
      <4>1. CASE i \in 1..Len(receipts) BY <2>8, <3>1, <4>1
      <4>2. CASE i = Len(receipts) + 1 BY <2>8, <3>1, <3>3, <4>2
      <4> QED BY <3>1, <4>1, <4>2
    <3> QED BY <2>7, <2>8, <3>1, <3>2, <3>4 DEF ReceiptsNumbered
  <2>15. UsageBilledOnce'
    <3>1. \A j \in Kinds : SumFunction(UnitsOf(j)) = used[j] BY DEF EngineInv, UsageBilledOnce, UnitsOf
    <3>2. \A j \in Kinds : SumFunction(UnitsOf(j))' = used'[j]
      <4> TAKE j \in Kinds
      <4>1. CASE j = k BY <1>2, <2>8, <2>11, <3>1, <4>1
      <4>2. CASE j # k
        <5>1. used[j] \in Nat BY <2>10
        <5> QED BY <2>8, <2>11, <3>1, <4>2, <5>1
      <4> QED BY <4>1, <4>2
    <3> QED BY <3>2 DEF UsageBilledOnce, UnitsOf
  <2>16. EngineTypeOK' BY <1>1, <1>2, <2>9, <2>12 DEF EngineTypeOK, NoUsage
  <2>17. next_sequence' \in Nat BY <1>2, <2>7
  <2> QED BY <1>1, <1>2, <2>8, <2>11, <2>13, <2>14, <2>15, <2>16, <2>17 DEF EngineInv
<1> QED BY <1>3, <1>4

LEMMA EngineStep == ASSUME EngineInv, EngineNext PROVE EngineInv'
<1>1. balance \in 0..U64 /\ Receipted \in Nat /\ funded \in Nat /\ returned \in Nat
      /\ balance + Receipted + returned <= funded
      /\ (funded <= U64 => balance + Receipted + returned = funded)
      /\ schedule \in Schedules /\ seen \subseteq EngineRefs
  BY PaidTypes DEF EngineInv, ReceiptsAccount, EngineTypeOK
<1>2. ASSUME NEW s \in Schedules, TariffChange(s) PROVE EngineInv'
  <2>1. schedule' = s /\ outcome' = "tariff_changed"
        /\ UNCHANGED <<meter, balance, seen, receipts, next_sequence, funded, returned, used>>
    BY <1>2 DEF TariffChange
  <2> QED BY <1>1, <2>1, EngineUnpaid
<1>3. ASSUME MonthlyCharge PROVE EngineInv'
  <2>1. outcome' \in {"charged", "charge_failed"}
        /\ UNCHANGED <<schedule, meter, balance, seen, receipts, next_sequence, funded, returned, used>>
    BY <1>3 DEF MonthlyCharge
  <2> QED BY <1>1, <2>1, EngineUnpaid
<1> QED BY <1>2, <1>3, ToppedUp, Refunded, MeteredStep DEF EngineNext

LEMMA EngineStill == ASSUME EngineInv, UNCHANGED engineVars PROVE EngineInv'
BY DEF EngineInv, engineVars, EngineTypeOK, ReceiptsAccount, Receipted, ReceiptsNumbered, UsageBilledOnce

\* Over tariff changes, refunds, replayed top-ups and failed debits, receipts,
\* refunds and balance account for one another, receipts are numbered without gaps,
\* and every paid unit is on one receipt (SimEngine).
THEOREM EngineIsAccounted == MCSpec => []EngineAccounts
<1>1. MCInit => EngineInv
  <2>1. MCInit => EngineInit BY DEF MCInit
  <2> QED BY <2>1, EngineInitInv
<1>2. EngineInv /\ [MCNext]_billingVars => EngineInv'
  <2>1. [MCNext]_billingVars => EngineNext \/ UNCHANGED engineVars BY DEF MCNext, billingVars
  <2> QED BY <2>1, EngineStep, EngineStill
<1>3. EngineInv => EngineAccounts BY DEF EngineInv, EngineAccounts
<1> QED BY <1>1, <1>2, <1>3, PTL DEF MCSpec, billingVars

-----------------------------------------------------------------------------
(***************************************************************************)
(* Signed objects.  A verdict is about what is on the wire, since whatever *)
(* changes the wire, the clock or the signatures clears it.  An object     *)
(* that nobody altered is one that was published: the body that was signed *)
(* and the signature.                                                      *)
(***************************************************************************)

TariffShape(f, k, p, e, s) == e \in Expiries /\ f = With(tariff_body(k, p, e), "5", s)
Enclosed(t) == t = NoTariff \/ \E k, p, e, s : TariffShape(t, k, p, e, s)

SignedAs(s, k, what, body) ==
    s \in DOMAIN signed /\ signed[s].ik = k /\ signed[s].ds = DS[what] /\ signed[s].body = body

Published(w) ==
    \/ /\ w.what = "receipt"
       /\ \E k, p, s : SignedAs(s, k, "receipt", receipt_body(k, p)) /\ w.f = With(receipt_body(k, p), "5", s)
    \/ /\ w.what = "tariff"
       /\ \E k, p, e, s : SignedAs(s, k, "tariff", tariff_body(k, p, e)) /\ TariffShape(w.f, k, p, e, s)
    \/ /\ w.what = "descriptor"
       /\ \E k, p, t, s : LET body == descriptor_body(k, "relay", "blind", "structural", p, t)
                          IN  Enclosed(t) /\ SignedAs(s, k, "descriptor", body) /\ w.f = With(body, "7", s)

ObjectsInv ==
    /\ now \in Nat /\ verdict \in {"none", "accepted", "refused"}
    /\ wire = [what |-> wire.what, f |-> wire.f] /\ wire.what \in {"none", "descriptor", "tariff", "receipt"}
    /\ \A s \in DOMAIN signed : /\ signed[s].what \in {"descriptor", "tariff", "receipt"}
                                /\ signed[s].ds = DS[signed[s].what]
    /\ verdict = "accepted" => wire.what # "none" /\ Accepts(wire)
    /\ verdict = "refused" => ~Accepts(wire)
    /\ wire.what # "none" /\ ~altered => Published(wire)

-----------------------------------------------------------------------------
(* What decoding makes of what was encoded.                                *)

LEMMA ReceiptBody ==
    ASSUME NEW k, NEW p
    PROVE  LET b == receipt_body(k, p)
           IN  /\ b = [x \in {"1", "2", "3"} |-> b[x]] /\ DOMAIN b = {"1", "2", "3"}
               /\ b["1"] = Suite /\ b["2"] = k /\ b["3"] = p
BY DEF receipt_body

LEMMA TariffBody ==
    ASSUME NEW k, NEW p, NEW e
    PROVE  LET b == tariff_body(k, p, e)
           IN  /\ DOMAIN b = {"1", "2", "3"} \cup (IF e = "none" THEN {} ELSE {"4"})
               /\ b = [x \in DOMAIN b |-> b[x]]
               /\ b["1"] = Suite /\ b["2"] = k /\ b["3"] = p /\ (e # "none" => b["4"] = e)
<1>1. PICK r : r = receipt_body(k, p) OBVIOUS
<1>2. DOMAIN r = {"1", "2", "3"} /\ r["1"] = Suite /\ r["2"] = k /\ r["3"] = p
      /\ r = [x \in {"1", "2", "3"} |-> r[x]]
  BY <1>1, ReceiptBody
<1>3. CASE e = "none" BY <1>1, <1>2, <1>3 DEF tariff_body
<1>4. CASE e # "none"
  <2>1. tariff_body(k, p, e) = With(r, "4", e) BY <1>1, <1>4 DEF tariff_body
  <2> QED BY <1>2, <1>4, <2>1 DEF With
<1> QED BY <1>3, <1>4

\* The same, for a body that has a name.
TariffHas(b, k, p, e) == /\ DOMAIN b = {"1", "2", "3"} \cup (IF e = "none" THEN {} ELSE {"4"})
                         /\ b = [x \in DOMAIN b |-> b[x]]
                         /\ b["1"] = Suite /\ b["2"] = k /\ b["3"] = p /\ (e # "none" => b["4"] = e)
LEMMA TariffFields == ASSUME NEW k, NEW p, NEW e PROVE TariffHas(tariff_body(k, p, e), k, p, e)
BY TariffBody DEF TariffHas

\* A signature that is added does not hide what it is added to.
IsMap(b) == b = [x \in DOMAIN b |-> b[x]]
Holds(f, b, key, v) == /\ DOMAIN f = DOMAIN b \cup {key} /\ f[key] = v
                       /\ \A x \in DOMAIN b : f[x] = b[x]
                       /\ Without(f, {key}) = b
LEMMA WithKey ==
    ASSUME NEW b, NEW key, NEW v, key \notin DOMAIN b, IsMap(b)
    PROVE  Holds(With(b, key, v), b, key, v)
<1> DEFINE f == With(b, key, v)
<1>1. b = [x \in DOMAIN b |-> b[x]] BY DEF IsMap
<1>2. DOMAIN f = DOMAIN b \cup {key} /\ f[key] = v /\ \A x \in DOMAIN b : f[x] = b[x] BY DEF With
<1>3. DOMAIN f \ {key} = DOMAIN b BY <1>2
<1>4. Without(f, {key}) = [x \in DOMAIN b |-> b[x]] BY <1>2, <1>3 DEF Without
<1> QED BY <1>1, <1>2, <1>4 DEF Holds

LEMMA TariffReads ==
    ASSUME NEW f, NEW k, NEW p, NEW e, NEW s, TariffShape(f, k, p, e, s)
    PROVE  /\ tariff_from_cv(f) /\ tariff_covered(f) = tariff_body(k, p, e)
           /\ f["2"] = k /\ f["5"] = s /\ Optional(f, "4") = e
           /\ f = [x \in DOMAIN f |-> f[x]]
           /\ {"1", "2", "3", "5"} \subseteq DOMAIN f /\ DOMAIN f \subseteq {"1", "2", "3", "4", "5"}
<1>1. PICK b : b = tariff_body(k, p, e) OBVIOUS
<1>2. /\ DOMAIN b = {"1", "2", "3"} \cup (IF e = "none" THEN {} ELSE {"4"})
      /\ b = [x \in DOMAIN b |-> b[x]]
      /\ b["1"] = Suite /\ b["2"] = k /\ b["3"] = p /\ (e # "none" => b["4"] = e)
  BY <1>1, TariffBody
<1>3. f = With(b, "5", s) /\ e \in Expiries /\ "5" \notin DOMAIN b BY <1>1, <1>2 DEF TariffShape
<1>4. DOMAIN f = DOMAIN b \cup {"5"} /\ f["5"] = s /\ \A x \in DOMAIN b : f[x] = b[x]
  <2>1. IsMap(b) BY <1>2 DEF IsMap
  <2>2. Holds(f, b, "5", s) BY <1>3, <2>1, WithKey
  <2> QED BY <2>2 DEF Holds
<1>5. f["1"] = Suite /\ f["2"] = k /\ f["3"] = p /\ (e # "none" => f["4"] = e /\ "4" \in DOMAIN f)
      /\ (e = "none" => "4" \notin DOMAIN f)
  BY <1>2, <1>4
<1>6. Optional(f, "4") = e BY <1>5 DEF Optional
<1>7. tariff_from_cv(f)
  <2>1. "4" \in DOMAIN f => f["4"] \in DOMAIN Deadline BY <1>3, <1>5, ObjectsAssumption
  <2> QED BY <1>2, <1>4, <1>5, <2>1 DEF tariff_from_cv
<1>8. tariff_covered(f) = tariff_body(k, p, e) BY <1>5, <1>6 DEF tariff_covered
<1>9. f = [x \in DOMAIN f |-> f[x]] BY <1>3 DEF With
<1> QED BY <1>2, <1>4, <1>5, <1>6, <1>7, <1>8, <1>9

LEMMA NestedIs ==
    /\ DOMAIN Nested = {"1", "2", "3", "4", "5"}
    /\ Nested["1"] = "6.1" /\ Nested["2"] = "6.2" /\ Nested["3"] = "6.3" /\ Nested["4"] = "6.4"
    /\ Nested["5"] = "6.5"
BY DEF Nested

LEMMA NestedOnce ==
    /\ \A j, k \in {"1", "2", "3", "4", "5"} : Nested[j] = Nested[k] => j = k
    /\ \A k \in {"1", "2", "3", "4", "5"} : Nested[k] \in NestedKeys
BY NestedIs DEF NestedKeys

LEMMA Under6 ==
    ASSUME NEW t, DOMAIN t \subseteq {"1", "2", "3", "4", "5"}
    PROVE  /\ DOMAIN under6(t) = {Nested[k] : k \in DOMAIN t} /\ DOMAIN under6(t) \subseteq NestedKeys
           /\ \A k \in DOMAIN t : under6(t)[Nested[k]] = t[k]
<1>1. DOMAIN under6(t) = {Nested[k] : k \in DOMAIN t} BY DEF under6
<1>2. DOMAIN under6(t) \subseteq NestedKeys BY <1>1, NestedOnce
<1>3. ASSUME NEW k \in DOMAIN t PROVE under6(t)[Nested[k]] = t[k]
  <2>1. PICK j : j = CHOOSE i \in DOMAIN t : Nested[i] = Nested[k] OBVIOUS
  <2>2. j \in DOMAIN t /\ Nested[j] = Nested[k] BY <2>1
  <2>3. j = k BY <2>2, NestedOnce
  <2>4. under6(t)[Nested[k]] = t[CHOOSE i \in DOMAIN t : Nested[i] = Nested[k]] BY DEF under6
  <2> QED BY <2>1, <2>3, <2>4
<1> QED BY <1>1, <1>2, <1>3

Plain == {"1", "2", "3", "4.1", "4.2", "5"}

Describes(b, k, t) == /\ DOMAIN b = Plain \cup DOMAIN under6(t) /\ IsMap(b)
                      /\ b["1"] = Suite /\ b["2"] = "relay" /\ b["3"] = k /\ b["4.1"] = "blind"
                      /\ b["4.2"] = "structural"
                      /\ \A x \in DOMAIN under6(t) : b[x] = under6(t)[x]

LEMMA DescriptorBody ==
    ASSUME NEW k, NEW p, NEW t, DOMAIN t \subseteq {"1", "2", "3", "4", "5"}
    PROVE  Describes(descriptor_body(k, "relay", "blind", "structural", p, t), k, t)
<1>1. PICK b : b = descriptor_body(k, "relay", "blind", "structural", p, t) OBVIOUS
<1>2. PICK u : u = under6(t) OBVIOUS
<1>3. \A x \in DOMAIN u : x \notin Plain BY <1>2, Under6 DEF NestedKeys, Plain
<1>4. b = [x \in Plain \cup DOMAIN u |->
             CASE x = "1" -> Suite [] x = "2" -> "relay" [] x = "3" -> k [] x = "4.1" -> "blind"
               [] x = "4.2" -> "structural" [] x = "5" -> p [] OTHER -> u[x]]
  BY <1>2, <1>1 DEF descriptor_body, Plain
<1>5. DOMAIN b = Plain \cup DOMAIN u /\ b = [x \in DOMAIN b |-> b[x]] BY <1>4
<1>6. b["1"] = Suite /\ b["2"] = "relay" /\ b["3"] = k /\ b["4.1"] = "blind" /\ b["4.2"] = "structural"
  BY <1>4 DEF Plain
<1>7. \A x \in DOMAIN u : b[x] = u[x] BY <1>3, <1>4 DEF Plain
<1> QED BY <1>2, <1>1, <1>5, <1>6, <1>7 DEF IsMap, Describes

LEMMA DescriptorReads ==
    ASSUME NEW k, NEW p, NEW t, NEW s, NEW f, Enclosed(t),
           f = With(descriptor_body(k, "relay", "blind", "structural", p, t), "7", s)
    PROVE  /\ "7" \in DOMAIN f /\ f["7"] = s /\ f["3"] = k
           /\ Without(f, {"7"}) = descriptor_body(k, "relay", "blind", "structural", p, t)
           /\ from_cv(Without(f, {"7"}))
<1>1. DOMAIN t \subseteq {"1", "2", "3", "4", "5"} /\ (t = NoTariff \/ tariff_from_cv(t))
      /\ t = [x \in DOMAIN t |-> t[x]]
  BY TariffReads DEF Enclosed, NoTariff
<1>2. PICK b : b = descriptor_body(k, "relay", "blind", "structural", p, t) OBVIOUS
<1>3. /\ DOMAIN b = Plain \cup DOMAIN under6(t) /\ IsMap(b)
      /\ b["1"] = Suite /\ b["2"] = "relay" /\ b["3"] = k /\ b["4.1"] = "blind" /\ b["4.2"] = "structural"
      /\ \A x \in DOMAIN under6(t) : b[x] = under6(t)[x]
  <2>1. Describes(b, k, t) BY <1>1, <1>2, DescriptorBody
  <2> QED BY <2>1 DEF Describes
<1>4. /\ DOMAIN under6(t) = {Nested[j] : j \in DOMAIN t} /\ DOMAIN under6(t) \subseteq NestedKeys
      /\ \A j \in DOMAIN t : under6(t)[Nested[j]] = t[j]
  BY <1>1, Under6
<1>5. "7" \notin DOMAIN b /\ "3" \in DOMAIN b BY <1>3, <1>4 DEF NestedKeys, Plain
<1>6. DOMAIN f = DOMAIN b \cup {"7"} /\ f["7"] = s /\ f["3"] = b["3"] /\ Without(f, {"7"}) = b
  <2>2. f = With(b, "7", s) BY <1>2
  <2>3. DOMAIN f = DOMAIN b \cup {"7"} /\ f["7"] = s /\ Without(f, {"7"}) = b
        /\ \A x \in DOMAIN b : f[x] = b[x]
    <3>1. Holds(f, b, "7", s) BY <1>3, <1>5, <2>2, WithKey
    <3> QED BY <3>1 DEF Holds
  <2> QED BY <1>5, <2>3
<1>7. inner(b) = t
  <2>1. \A j \in DOMAIN Nested : Nested[j] \in DOMAIN b <=> j \in DOMAIN t
    <3> SUFFICES ASSUME NEW j \in {"1", "2", "3", "4", "5"} PROVE Nested[j] \in DOMAIN b <=> j \in DOMAIN t
      BY NestedIs
    <3>1. Nested[j] \in NestedKeys /\ Nested[j] \notin Plain BY NestedOnce DEF NestedKeys, Plain
    <3>2. Nested[j] \in DOMAIN b <=> Nested[j] \in {Nested[i] : i \in DOMAIN t} BY <1>3, <1>4, <3>1
    <3> QED BY <1>1, <3>2, NestedOnce
  <2>2. {j \in DOMAIN Nested : Nested[j] \in DOMAIN b} = DOMAIN t BY <1>1, <2>1, NestedIs
  <2>3. \A j \in DOMAIN t : b[Nested[j]] = t[j] BY <1>3, <1>4
  <2>4. inner(b) = [j \in DOMAIN t |-> b[Nested[j]]] BY <2>2 DEF inner
  <2> QED BY <1>1, <2>3, <2>4
<1>8. DOMAIN b \cap NestedKeys # {} => tariff_from_cv(inner(b))
  <2>1. t = NoTariff => DOMAIN b \cap NestedKeys = {}
    <3>1. t = NoTariff => DOMAIN t = {} BY DEF NoTariff
    <3> QED BY <1>3, <1>4, <3>1 DEF Plain, NestedKeys
  <2> QED BY <1>1, <1>7, <2>1
<1>9. from_cv(b)
  <2>1. b["2"] \in CoordinatorKinds /\ visibility_from_cv(b)
    BY <1>3 DEF CoordinatorKinds, visibility_from_cv, VisibilityClasses, AssuranceLevels
  <2> QED BY <1>3, <1>4, <1>8, <2>1 DEF from_cv, Plain
<1> QED BY <1>2, <1>3, <1>6, <1>9

-----------------------------------------------------------------------------
(* What is accepted, and what was published.                               *)

LEMMA PublishedReads ==
    ASSUME ObjectsInv, wire.what # "none", Published(wire)
    PROVE  Accepts(wire) <=> (wire.what = "tariff" => ~expired(Optional(wire.f, "4")))
<1>1. CASE wire.what = "receipt"
  <2>1. PICK k, p, s : SignedAs(s, k, "receipt", receipt_body(k, p))
                       /\ wire.f = With(receipt_body(k, p), "5", s)
    BY <1>1 DEF Published
  <2>2. PICK b : b = receipt_body(k, p) OBVIOUS
  <2>3. DOMAIN b = {"1", "2", "3"} /\ IsMap(b) /\ b["1"] = Suite /\ b["2"] = k /\ b["3"] = p
    <3>1. b = [x \in {"1", "2", "3"} |-> b[x]] /\ DOMAIN b = {"1", "2", "3"}
          /\ b["1"] = Suite /\ b["2"] = k /\ b["3"] = p
      BY <2>2, ReceiptBody
    <3> QED BY <3>1 DEF IsMap
  <2>4. Holds(wire.f, b, "5", s) BY <2>1, <2>2, <2>3, WithKey
  <2>5. PICK f : f = wire.f OBVIOUS
  <2>6. DOMAIN f = {"1", "2", "3", "5"} /\ f["1"] = Suite /\ f["2"] = k /\ f["3"] = p /\ f["5"] = s
    BY <2>3, <2>4, <2>5 DEF Holds
  <2>7. receipt_verify(f) BY <2>1, <2>6 DEF receipt_verify, verify_domain, SignedAs
  <2> QED BY <1>1, <2>5, <2>7 DEF Accepts
<1>2. CASE wire.what = "tariff"
  <2>1. PICK k, p, e, s : SignedAs(s, k, "tariff", tariff_body(k, p, e)) /\ TariffShape(wire.f, k, p, e, s)
    BY <1>2 DEF Published
  <2>2. PICK f : f = wire.f OBVIOUS
  <2>3. /\ tariff_from_cv(f) /\ tariff_covered(f) = tariff_body(k, p, e)
        /\ f["2"] = k /\ f["5"] = s /\ Optional(f, "4") = e
    BY <2>1, <2>2, TariffReads
  <2>4. tariff_verify(f) <=> ~expired(Optional(f, "4"))
    BY <2>1, <2>3 DEF tariff_verify, verify_domain, SignedAs
  <2> QED BY <1>2, <2>2, <2>4 DEF Accepts
<1>3. CASE wire.what = "descriptor"
  <2>1. PICK k, p, t, s : /\ Enclosed(t)
                          /\ SignedAs(s, k, "descriptor", descriptor_body(k, "relay", "blind", "structural", p, t))
                          /\ wire.f = With(descriptor_body(k, "relay", "blind", "structural", p, t), "7", s)
    BY <1>3 DEF Published
  <2>2. PICK f : f = wire.f OBVIOUS
  <2>3. /\ "7" \in DOMAIN f /\ f["7"] = s /\ f["3"] = k
        /\ Without(f, {"7"}) = descriptor_body(k, "relay", "blind", "structural", p, t)
        /\ from_cv(Without(f, {"7"}))
    BY <2>1, <2>2, DescriptorReads
  <2>4. from_det_cbor(f) BY <2>1, <2>3 DEF from_det_cbor, verify_domain, SignedAs
  <2> QED BY <1>3, <2>2, <2>4 DEF Accepts
<1> QED BY <1>1, <1>2, <1>3 DEF ObjectsInv

LEMMA SignedBody ==
    ASSUME ObjectsInv, wire.what # "none", Accepts(wire)
    PROVE  \E s \in DOMAIN signed : /\ signed[s].body = Body(wire)
                                    /\ signed[s].ik = wire.f[IF wire.what = "descriptor" THEN "3" ELSE "2"]
                                    /\ signed[s].what = wire.what
<1>1. ASSUME NEW s \in DOMAIN signed, NEW what \in {"descriptor", "tariff", "receipt"}, signed[s].ds = DS[what]
      PROVE  signed[s].what = what
  BY <1>1 DEF ObjectsInv, DS
<1>2. PICK f : f = wire.f OBVIOUS
<1>3. CASE wire.what = "descriptor"
  <2>1. verify_domain(f["3"], "descriptor", Without(f, {"7"}), f["7"])
    BY <1>2, <1>3 DEF Accepts, from_det_cbor
  <2> QED BY <1>1, <1>2, <1>3, <2>1 DEF verify_domain, Body
<1>4. CASE wire.what = "tariff"
  <2>1. tariff_from_cv(f) /\ verify_domain(f["2"], "tariff", tariff_covered(f), f["5"])
    BY <1>2, <1>4 DEF Accepts, tariff_verify
  <2>2. tariff_covered(f) = Without(f, {"5"})
    <3>1. PICK e : e = Optional(f, "4") OBVIOUS
    <3>2. {"1", "2", "3", "5"} \subseteq DOMAIN f /\ DOMAIN f \subseteq {"1", "2", "3", "4", "5"}
          /\ f["1"] = Suite /\ ("4" \in DOMAIN f => f["4"] \in DOMAIN Deadline)
      BY <2>1 DEF tariff_from_cv
    <3>3. ("4" \in DOMAIN f <=> e # "none") /\ ("4" \in DOMAIN f => e = f["4"])
      BY <3>1, <3>2, ObjectsAssumption DEF Optional
    <3>4. PICK b, k, p : k = f["2"] /\ p = f["3"] /\ b = tariff_body(k, p, e) OBVIOUS
    <3>5. /\ DOMAIN b = {"1", "2", "3"} \cup (IF e = "none" THEN {} ELSE {"4"})
          /\ b = [x \in DOMAIN b |-> b[x]]
          /\ b["1"] = Suite /\ b["2"] = k /\ b["3"] = p /\ (e # "none" => b["4"] = e)
      <4>1. TariffHas(b, k, p, e) BY <3>4, TariffFields
      <4> QED BY <4>1 DEF TariffHas
    <3>6. DOMAIN f \ {"5"} = DOMAIN b /\ \A x \in DOMAIN b : f[x] = b[x] BY <3>2, <3>3, <3>4, <3>5
    <3>7. Without(f, {"5"}) = [x \in DOMAIN b |-> b[x]] BY <3>6 DEF Without
    <3> QED BY <3>1, <3>4, <3>5, <3>7 DEF tariff_covered
  <2> QED BY <1>1, <1>2, <1>4, <2>1, <2>2 DEF verify_domain, Body
<1>5. CASE wire.what = "receipt"
  <2>1. /\ DOMAIN f = {"1", "2", "3", "5"} /\ f["1"] = Suite
        /\ verify_domain(f["2"], "receipt", receipt_body(f["2"], f["3"]), f["5"])
    BY <1>2, <1>5 DEF Accepts, receipt_verify
  <2>2. receipt_body(f["2"], f["3"]) = Without(f, {"5"})
    <3>1. PICK b : b = receipt_body(f["2"], f["3"]) OBVIOUS
    <3>2. b = [x \in {"1", "2", "3"} |-> b[x]] /\ b["1"] = Suite /\ b["2"] = f["2"] /\ b["3"] = f["3"]
      BY <3>1, ReceiptBody
    <3>3. DOMAIN f \ {"5"} = {"1", "2", "3"} BY <2>1
    <3>4. Without(f, {"5"}) = [x \in {"1", "2", "3"} |-> b[x]] BY <2>1, <3>2, <3>3 DEF Without
    <3> QED BY <3>1, <3>2, <3>4
  <2> QED BY <1>1, <1>2, <1>5, <2>1, <2>2 DEF verify_domain, Body
<1> QED BY <1>3, <1>4, <1>5 DEF ObjectsInv

-----------------------------------------------------------------------------
(* The steps.                                                              *)

LEMMA ObjectsInitInv == ObjectsInit => ObjectsInv
BY DEF ObjectsInit, ObjectsInv, Nothing, NoTariff

LEMMA PublishStep ==
    ASSUME ObjectsInv, NEW what \in {"descriptor", "tariff", "receipt"}, NEW ik, NEW body, NEW at,
           Publish(what, ik, body, at)
    PROVE  /\ \E s : SignedAs(s, ik, what, body)' /\ wire' = [what |-> what, f |-> With(body, at, s)]
           /\ verdict' = "none" /\ now' = now
           /\ \A s \in DOMAIN signed' : /\ signed'[s].what \in {"descriptor", "tariff", "receipt"}
                                        /\ signed'[s].ds = DS[signed'[s].what]
<1>1. PICK s : s = CHOOSE x \in SigNames : x \notin DOMAIN signed OBVIOUS
<1>2. s \notin DOMAIN signed BY <1>1 DEF Publish
<1>3. PICK r : r = [ik |-> ik, ds |-> DS[what], what |-> what, body |-> body] OBVIOUS
<1>4. r.ik = ik /\ r.ds = DS[what] /\ r.what = what /\ r.body = body BY <1>3
<1>5. signed' = With(signed, s, r) /\ wire' = [what |-> what, f |-> With(body, at, s)]
      /\ verdict' = "none" /\ now' = now
  BY <1>1, <1>3 DEF Publish
<1>6. DOMAIN signed' = DOMAIN signed \cup {s} /\ signed'[s] = r /\ \A x \in DOMAIN signed : signed'[x] = signed[x]
  BY <1>2, <1>5 DEF With
<1>7. SignedAs(s, ik, what, body)' BY <1>4, <1>6 DEF SignedAs
<1> QED BY <1>4, <1>5, <1>6, <1>7 DEF ObjectsInv

\* A step that clears the verdict and leaves an object that was published.
LEMMA PublishedStep ==
    ASSUME ObjectsInv, verdict' = "none", now' = now,
           \A s \in DOMAIN signed' : /\ signed'[s].what \in {"descriptor", "tariff", "receipt"}
                                     /\ signed'[s].ds = DS[signed'[s].what],
           NEW what \in {"descriptor", "tariff", "receipt"}, NEW f, wire' = [what |-> what, f |-> f],
           Published(wire)'
    PROVE  ObjectsInv'
<1>1. wire'.what = what /\ wire'.f = f OBVIOUS
<1>2. wire' = [what |-> wire'.what, f |-> wire'.f] BY <1>1
<1> QED BY <1>1, <1>2 DEF ObjectsInv

LEMMA SignStep ==
    ASSUME ObjectsInv, NEW k \in Keys, NEW p \in Payloads,
           \/ sign_receipt(k, p) \/ \E e \in Expiries : sign_with_validity(k, p, e)
           \/ sign_descriptor(k, "relay", "blind", "structural", p)
    PROVE  ObjectsInv'
<1>1. ASSUME sign_receipt(k, p) PROVE ObjectsInv'
  <2>1. Publish("receipt", k, receipt_body(k, p), "5") BY <1>1 DEF sign_receipt
  <2>2. /\ \E s : SignedAs(s, k, "receipt", receipt_body(k, p))'
                  /\ wire' = [what |-> "receipt", f |-> With(receipt_body(k, p), "5", s)]
        /\ verdict' = "none" /\ now' = now
        /\ \A s \in DOMAIN signed' : /\ signed'[s].what \in {"descriptor", "tariff", "receipt"}
                                     /\ signed'[s].ds = DS[signed'[s].what]
    BY <2>1, PublishStep
  <2>3. PICK s : SignedAs(s, k, "receipt", receipt_body(k, p))'
                 /\ wire' = [what |-> "receipt", f |-> With(receipt_body(k, p), "5", s)]
    BY <2>2
  <2>4. wire'.what = "receipt" /\ wire'.f = With(receipt_body(k, p), "5", s) BY <2>3
  <2>5. Published(wire)' BY <2>3, <2>4 DEF Published
  <2> QED BY <2>2, <2>3, <2>5, PublishedStep
<1>2. ASSUME NEW e \in Expiries, sign_with_validity(k, p, e) PROVE ObjectsInv'
  <2>1. Publish("tariff", k, tariff_body(k, p, e), "5") BY <1>2 DEF sign_with_validity
  <2>2. /\ \E s : SignedAs(s, k, "tariff", tariff_body(k, p, e))'
                  /\ wire' = [what |-> "tariff", f |-> With(tariff_body(k, p, e), "5", s)]
        /\ verdict' = "none" /\ now' = now
        /\ \A s \in DOMAIN signed' : /\ signed'[s].what \in {"descriptor", "tariff", "receipt"}
                                     /\ signed'[s].ds = DS[signed'[s].what]
    BY <2>1, PublishStep
  <2>3. PICK s : SignedAs(s, k, "tariff", tariff_body(k, p, e))'
                 /\ wire' = [what |-> "tariff", f |-> With(tariff_body(k, p, e), "5", s)]
    BY <2>2
  <2>4. wire'.what = "tariff" /\ wire'.f = With(tariff_body(k, p, e), "5", s) BY <2>3
  <2>5. TariffShape(wire'.f, k, p, e, s) BY <2>4 DEF TariffShape
  <2>6. Published(wire)' BY <2>3, <2>4, <2>5 DEF Published
  <2> QED BY <2>2, <2>3, <2>6, PublishedStep
<1>3. ASSUME NEW t, Enclosed(t),
             Publish("descriptor", k, descriptor_body(k, "relay", "blind", "structural", p, t), "7")
      PROVE  ObjectsInv'
  <2> DEFINE body == descriptor_body(k, "relay", "blind", "structural", p, t)
  <2>2. /\ \E s : SignedAs(s, k, "descriptor", body)'
                  /\ wire' = [what |-> "descriptor", f |-> With(body, "7", s)]
        /\ verdict' = "none" /\ now' = now
        /\ \A s \in DOMAIN signed' : /\ signed'[s].what \in {"descriptor", "tariff", "receipt"}
                                     /\ signed'[s].ds = DS[signed'[s].what]
    BY <1>3, PublishStep
  <2>3. PICK s : SignedAs(s, k, "descriptor", body)' /\ wire' = [what |-> "descriptor", f |-> With(body, "7", s)]
    BY <2>2
  <2>4. wire'.what = "descriptor" /\ wire'.f = With(body, "7", s) BY <2>3
  <2>5. Published(wire)' BY <1>3, <2>3, <2>4 DEF Published
  <2> QED BY <2>2, <2>3, <2>5, PublishedStep
<1>4. ASSUME sign_descriptor(k, "relay", "blind", "structural", p) PROVE ObjectsInv'
  <2>1. CASE Publish("descriptor", k, descriptor_body(k, "relay", "blind", "structural", p, NoTariff), "7")
    BY <1>3, <2>1 DEF Enclosed
  <2>2. CASE /\ wire.what = "tariff" /\ ~altered
             /\ Publish("descriptor", k, descriptor_body(k, "relay", "blind", "structural", p, wire.f), "7")
    <3>1. PICK t : t = wire.f OBVIOUS
    <3>2. Enclosed(t) BY <2>2, <3>1 DEF ObjectsInv, Published, Enclosed
    <3> QED BY <1>3, <2>2, <3>1, <3>2
  <2> QED BY <1>4, <2>1, <2>2 DEF sign_descriptor
<1> QED BY <1>1, <1>2, <1>4

LEMMA ObjectsStep == ASSUME ObjectsInv, ObjectsNext PROVE ObjectsInv'
<1>1. ASSUME Alter PROVE ObjectsInv'
  <2>1. altered' = TRUE /\ verdict' = "none" /\ UNCHANGED <<signed, now>> /\ wire.what # "none"
    BY <1>1 DEF Alter
  <2>2. wire' = [what |-> wire'.what, f |-> wire'.f]
        /\ wire'.what \in {"none", "descriptor", "tariff", "receipt"}
    <3>1. PICK w, g : wire = [what |-> w, f |-> g] /\ w \in {"none", "descriptor", "tariff", "receipt"}
      BY DEF ObjectsInv
    <3>2. \/ \E h : wire' = [wire EXCEPT !.f = h]
          \/ \E what \in DOMAIN DS \ {wire.what} : wire' = [wire EXCEPT !.what = what]
      BY <1>1 DEF Alter
    <3>3. ASSUME NEW h, wire' = [wire EXCEPT !.f = h]
          PROVE  wire' = [what |-> wire'.what, f |-> wire'.f]
                 /\ wire'.what \in {"none", "descriptor", "tariff", "receipt"}
      BY <3>1, <3>3
    <3>4. ASSUME NEW what \in DOMAIN DS \ {wire.what}, wire' = [wire EXCEPT !.what = what]
          PROVE  wire' = [what |-> wire'.what, f |-> wire'.f]
                 /\ wire'.what \in {"none", "descriptor", "tariff", "receipt"}
      BY <3>1, <3>4 DEF DS
    <3> QED BY <3>2, <3>3, <3>4
  <2> QED BY <2>1, <2>2 DEF ObjectsInv
<1>2. ASSUME Read PROVE ObjectsInv'
  <2>1. /\ wire.what # "none" /\ UNCHANGED <<signed, wire, altered, now>>
        /\ verdict' = (IF Accepts(wire) THEN "accepted" ELSE "refused")
    BY <1>2 DEF Read
  <2>2. Accepts(wire)' <=> Accepts(wire)
    BY <2>1 DEF Accepts, from_det_cbor, tariff_verify, receipt_verify, verify_domain, expired
  <2>3. Published(wire)' <=> Published(wire) BY <2>1 DEF Published, SignedAs
  <2> QED BY <2>1, <2>2, <2>3 DEF ObjectsInv
<1>3. ASSUME Passes PROVE ObjectsInv'
  <2>1. now' = now + 1 /\ verdict' = "none" /\ UNCHANGED <<signed, wire, altered>> BY <1>3 DEF Passes
  <2>2. Published(wire)' <=> Published(wire) BY <2>1 DEF Published, SignedAs
  <2> QED BY <2>1, <2>2 DEF ObjectsInv
<1> QED BY <1>1, <1>2, <1>3, SignStep DEF ObjectsNext

LEMMA ObjectsStill == ASSUME ObjectsInv, UNCHANGED objectVars PROVE ObjectsInv'
<1>1. UNCHANGED <<signed, wire, altered, now, verdict>> BY DEF objectVars
<1>2. Accepts(wire)' <=> Accepts(wire)
  BY <1>1 DEF Accepts, from_det_cbor, tariff_verify, receipt_verify, verify_domain, expired
<1>3. Published(wire)' <=> Published(wire) BY <1>1 DEF Published, SignedAs
<1> QED BY <1>1, <1>2, <1>3 DEF ObjectsInv

-----------------------------------------------------------------------------
(* Schedules and billed operations on the wire.                            *)

LEMMA TagsReturn ==
    /\ \A k \in ResourceKinds : from_wire_tag(wire_tag(k)) = k
    /\ \A j, k \in ResourceKinds : wire_tag(j) = wire_tag(k) => j = k
<1>1. /\ wire_tag("BytesForwarded") = 1 /\ wire_tag("Connections") = 2
      /\ wire_tag("Messages") = 3 /\ wire_tag("ComputeSeconds") = 4
  BY DEF wire_tag
<1>2. /\ from_wire_tag(1) = "BytesForwarded" /\ from_wire_tag(2) = "Connections"
      /\ from_wire_tag(3) = "Messages" /\ from_wire_tag(4) = "ComputeSeconds"
  BY DEF from_wire_tag
<1>3. ASSUME NEW k \in ResourceKinds PROVE from_wire_tag(wire_tag(k)) = k
  <2>1. k = "BytesForwarded" \/ k = "Connections" \/ k = "Messages" \/ k = "ComputeSeconds"
    BY DEF ResourceKinds
  <2> QED BY <1>1, <1>2, <2>1
<1>4. ASSUME NEW j \in ResourceKinds, NEW k \in ResourceKinds, wire_tag(j) = wire_tag(k) PROVE j = k
  <2>1. from_wire_tag(wire_tag(j)) = j /\ from_wire_tag(wire_tag(k)) = k BY <1>3
  <2> QED BY <1>4, <2>1
<1> QED BY <1>3, <1>4

LEMMA MapsReturn ==
    ASSUME NEW m, DOMAIN m \subseteq ResourceKinds, IsMap(m)
    PROVE  resource_price_map(price_map(m)) = m
<1>1. PICK w : w = price_map(m) OBVIOUS
<1>2. DOMAIN w = {wire_tag(k) : k \in DOMAIN m} BY <1>1 DEF price_map
<1>3. ASSUME NEW k \in DOMAIN m PROVE w[wire_tag(k)] = m[k]
  <2>1. PICK j : j = CHOOSE i \in DOMAIN m : wire_tag(i) = wire_tag(k) OBVIOUS
  <2>2. j \in DOMAIN m /\ wire_tag(j) = wire_tag(k) BY <2>1
  <2>3. j = k BY <2>2, TagsReturn
  <2>4. w[wire_tag(k)] = m[CHOOSE i \in DOMAIN m : wire_tag(i) = wire_tag(k)] BY <1>1 DEF price_map
  <2> QED BY <2>1, <2>3, <2>4
<1>4. {from_wire_tag(t) : t \in DOMAIN w} = DOMAIN m
  <2>1. \A k \in DOMAIN m : from_wire_tag(wire_tag(k)) = k BY TagsReturn
  <2> QED BY <1>2, <2>1
<1>5. ASSUME NEW k \in DOMAIN m PROVE w[CHOOSE t \in DOMAIN w : from_wire_tag(t) = k] = m[k]
  <2>1. PICK t : t = CHOOSE u \in DOMAIN w : from_wire_tag(u) = k OBVIOUS
  <2>2. wire_tag(k) \in DOMAIN w /\ from_wire_tag(wire_tag(k)) = k BY <1>2, TagsReturn
  <2>3. t \in DOMAIN w /\ from_wire_tag(t) = k BY <2>1, <2>2
  <2>4. PICK j \in DOMAIN m : t = wire_tag(j) BY <1>2, <2>3
  <2>5. j = k BY <2>3, <2>4, TagsReturn
  <2> QED BY <1>3, <2>1, <2>4, <2>5
<1>6. resource_price_map(w)
      = [k \in DOMAIN m |-> w[CHOOSE t \in DOMAIN w : from_wire_tag(t) = k]]
  BY <1>4 DEF resource_price_map
<1>7. resource_price_map(w) = [k \in DOMAIN m |-> m[k]] BY <1>5, <1>6
<1> QED BY <1>1, <1>7 DEF IsMap

PriceMap(m) == IsMap(m) /\ DOMAIN m \subseteq ResourceKinds

\* A schedule and a billed operation mean on the far side what they meant on this
\* one, whatever they price, allow or charge (to_cv and from_cv of the payloads).
THEOREM PayloadsReturn ==
    /\ \A currency, prices, free_allowance, period_seconds :
         PriceMap(prices) /\ PriceMap(free_allowance) =>
           LET s == [currency |-> currency, prices |-> prices, free_allowance |-> free_allowance,
                     period_seconds |-> period_seconds]
           IN  from_cbor(to_cbor(s)) = s
    /\ \A payer, metered, billed, amount, currency, sequence : \A kind \in ResourceKinds :
         LET o == [payer |-> payer, kind |-> kind, metered_units |-> metered, billed_units |-> billed,
                   amount |-> amount, currency |-> currency, sequence |-> sequence]
         IN  operation_from_cv(operation_to_cv(o)) = o
<1>1. ASSUME NEW c, NEW m, NEW n, NEW d, PriceMap(m), PriceMap(n)
      PROVE  LET s == [currency |-> c, prices |-> m, free_allowance |-> n, period_seconds |-> d]
             IN  from_cbor(to_cbor(s)) = s
  <2> DEFINE s == [currency |-> c, prices |-> m, free_allowance |-> n, period_seconds |-> d]
  <2>1. PICK v, w : v = price_map(m) /\ w = price_map(n) OBVIOUS
  <2>2. resource_price_map(v) = m /\ resource_price_map(w) = n BY <1>1, <2>1, MapsReturn DEF PriceMap
  <2>3. PICK f : f = to_cbor(s) OBVIOUS
  <2>4. f = IF d = 0 THEN <<c, v, w>> ELSE Append(<<c, v, w>>, d) BY <2>1, <2>3 DEF to_cbor
  <2>5. f[1] = c /\ f[2] = v /\ f[3] = w /\ (IF 4 \in DOMAIN f THEN f[4] ELSE 0) = d
    <3>1. CASE d = 0 BY <2>4, <3>1
    <3>2. CASE d # 0
      <4>1. PICK q : q = <<c, v, w>> OBVIOUS
      <4>2. q \in Seq({c, v, w, d}) /\ Len(q) = 3 /\ q[1] = c /\ q[2] = v /\ q[3] = w BY <4>1
      <4>3. f = Append(q, d) BY <2>4, <3>2, <4>1
      <4>4. Len(f) = 4 /\ f \in Seq({c, v, w, d}) /\ f[4] = d /\ \A i \in 1..3 : f[i] = q[i]
        <5>1. PICK S : S = {c, v, w, d} OBVIOUS
        <5>2. q \in Seq(S) /\ d \in S BY <4>2, <5>1
        <5>3. /\ Append(q, d) \in Seq(S) /\ Len(Append(q, d)) = Len(q) + 1
              /\ \A i \in 1..Len(q) : Append(q, d)[i] = q[i]
              /\ Append(q, d)[Len(q) + 1] = d
          BY ONLY <5>2, AppendProperties
        <5>4. Len(q) = 3 /\ Len(q) + 1 = 4 BY <4>2
        <5>5. f \in Seq(S) /\ Len(f) = 4 /\ f[4] = d /\ \A i \in 1..3 : f[i] = q[i]
          BY <4>3, <5>3, <5>4
        <5> QED BY <5>1, <5>5
      <4>5. 4 \in DOMAIN f /\ f[1] = q[1] /\ f[2] = q[2] /\ f[3] = q[3] BY <4>4
      <4> QED BY <4>2, <4>4, <4>5
    <3> QED BY <3>1, <3>2
  <2>6. from_cbor(f) = [currency |-> c, prices |-> m, free_allowance |-> n, period_seconds |-> d]
    BY <2>2, <2>5 DEF from_cbor
  <2> QED BY <2>3, <2>6
<1>2. ASSUME NEW payer, NEW metered, NEW billed, NEW amount, NEW currency, NEW sequence,
             NEW kind \in ResourceKinds
      PROVE  LET o == [payer |-> payer, kind |-> kind, metered_units |-> metered, billed_units |-> billed,
                       amount |-> amount, currency |-> currency, sequence |-> sequence]
             IN  operation_from_cv(operation_to_cv(o)) = o
  <2>1. from_wire_tag(wire_tag(kind)) = kind BY TagsReturn
  <2> QED BY <2>1 DEF operation_from_cv, operation_to_cv
<1> QED BY <1>1, <1>2

LEMMA PricesDoSurvive == PricesSurvive
<1> SUFFICES ASSUME NEW priced \in SUBSET ResourceKinds, NEW allowed \in SUBSET ResourceKinds,
                    NEW k \in ResourceKinds, NEW period \in {0, 60}
             PROVE  LET s == [currency |-> "usd", prices |-> [j \in priced |-> wire_tag(j) + 10],
                              free_allowance |-> [j \in allowed |-> wire_tag(j) + 20], period_seconds |-> period]
                        o == [payer |-> "p", kind |-> k, metered_units |-> 3, billed_units |-> 2, amount |-> 1,
                              currency |-> "usd", sequence |-> 7]
                    IN  from_cbor(to_cbor(s)) = s /\ operation_from_cv(operation_to_cv(o)) = o
  BY DEF PricesSurvive
<1>1. PriceMap([j \in priced |-> wire_tag(j) + 10]) /\ PriceMap([j \in allowed |-> wire_tag(j) + 20])
  BY DEF PriceMap, IsMap
<1> QED BY <1>1, PayloadsReturn

\* Whatever happens to an object on its way, it is accepted only as it was signed, by
\* the key it names and as the type it is read as; untouched, it is accepted until it
\* expires; and prices mean the same on both sides.
THEOREM ObjectsAreSound == MCSpec => []ObjectsSound
<1>1. MCInit => ObjectsInv
  <2>1. MCInit => ObjectsInit BY DEF MCInit
  <2> QED BY <2>1, ObjectsInitInv
<1>2. ObjectsInv /\ [MCNext]_billingVars => ObjectsInv'
  <2>1. [MCNext]_billingVars => ObjectsNext \/ UNCHANGED objectVars BY DEF MCNext, billingVars
  <2> QED BY <2>1, ObjectsStep, ObjectsStill
<1>3. ObjectsInv => AcceptedWasSigned BY SignedBody DEF ObjectsInv, AcceptedWasSigned
<1>4. ObjectsInv => SignedIsAccepted
  <2> SUFFICES ASSUME ObjectsInv, wire.what # "none", ~altered, verdict # "none"
               PROVE  verdict = "accepted" <=>
                        (wire.what = "tariff" => LET e == Optional(wire.f, "4") IN e # "none" => now <= Deadline[e])
    BY DEF SignedIsAccepted
  <2>1. verdict = "accepted" <=> Accepts(wire) BY DEF ObjectsInv
  <2>2. Published(wire) BY DEF ObjectsInv
  <2>3. Accepts(wire) <=> (wire.what = "tariff" => ~expired(Optional(wire.f, "4"))) BY <2>2, PublishedReads
  <2>4. ASSUME wire.what = "tariff"
        PROVE  ~expired(Optional(wire.f, "4"))
                 <=> (LET e == Optional(wire.f, "4") IN e # "none" => now <= Deadline[e])
    <3>1. PICK k, p, e, s : TariffShape(wire.f, k, p, e, s) BY <2>2, <2>4 DEF Published
    <3>2. PICK f : f = wire.f OBVIOUS
    <3>3. Optional(f, "4") = e /\ e \in Expiries BY <3>1, <3>2, TariffReads DEF TariffShape
    <3>4. e # "none" => Deadline[e] \in Nat BY <3>3, ObjectsAssumption
    <3>5. now \in Nat BY DEF ObjectsInv
    <3>6. ~expired(e) <=> (e # "none" => now <= Deadline[e]) BY <3>4, <3>5 DEF expired
    <3> QED BY <3>2, <3>3, <3>6
  <2> QED BY <2>1, <2>3, <2>4
<1>5. ObjectsInv => ObjectsSound BY <1>3, <1>4, PricesDoSurvive DEF ObjectsSound
<1> QED BY <1>1, <1>2, <1>5, PTL DEF MCSpec, billingVars

-----------------------------------------------------------------------------
(***************************************************************************)
(* pier-admin.  A handler holds one lock at a time, so what a worker read  *)
(* may be out of date when it acts on it; the invariant says what it has   *)
(* in hand at each place and that whatever overtook it is on record        *)
(* (InHand).  A rotated key is in the hands of the rotation or in the      *)
(* trail, and the next key is above all of these; receipts are issued      *)
(* under the key held with the log, so no key of the log is above it.      *)
(***************************************************************************)

Stands == {"idle", "check", "set", "build", "sign", "swap", "push", "sign_tariff", "write_tariff",
           "read_tariff", "take_usage", "issue"}
Invoice == [kind : Metered, units : Nat, sequence : Nat, by : Nat]
Levels == (0..2) \X (0..2)

AdTypes ==
    /\ visibility \in Levels /\ current \in 0..MaxRotations
    /\ history \in Seq(Nat) /\ log \in Seq(Invoice)
    /\ adMeter \in [Metered -> Nat] /\ recorded \in [Metered -> Nat] /\ lost \in [Metered -> Nat]
    /\ apc \in [Workers -> Stands]
    /\ DOMAIN req = Workers /\ DOMAIN loc = Workers /\ DOMAIN response = Workers
    /\ turned \in [Workers -> BOOLEAN] /\ moved \in [Workers -> BOOLEAN]

UsedOf(m) == {j \in Metered : m[j] > 0}
Payable(s, m) == UsedOf(m) \subseteq DOMAIN s.prices

\* What a worker has in hand where it is.
InHand(w) ==
    /\ apc[w] # "idle" => token # NoToken /\ req[w].op \in DOMAIN Entry /\ response[w] = NoResponse
    /\ apc[w] \in {"check", "set"} => req[w].visibility \in Levels
    /\ apc[w] = "set" => (moved[w] = TRUE) \/ (req[w].confirm_downgrade = TRUE)
                         \/ ~is_downgrade(visibility, req[w].visibility)
    /\ apc[w] = "sign" => loc[w].key = current \/ turned[w] = TRUE
    /\ apc[w] = "push" => loc[w].key \in Nat /\ loc[w].key < current
    /\ apc[w] \in {"write_tariff", "take_usage", "issue"} => loc[w].signed.by \in 0..current
    /\ apc[w] = "take_usage" => DOMAIN loc[w] = {"key", "signed", "usage"}
    /\ apc[w] = "issue" => loc[w].usage \in [Metered -> Nat] /\ Payable(loc[w].signed.schedule, loc[w].usage)
    /\ response[w].status = 200 /\ "signer" \in DOMAIN response[w]
         => response[w].identity = response[w].signer \/ turned[w] = TRUE

AdminHands == /\ \A w \in Workers : InHand(w)
              /\ tariff = Unset \/ tariff.by \in 0..current
              /\ token = NoToken => current = 0 /\ tariff = Unset /\ log = <<>> /\ history = <<>>

LEMMA EntryIs ==
    /\ DOMAIN Entry = {"put_descriptor", "get_descriptor", "rotate_keys", "put_tariff", "run_billing"}
    /\ Entry["put_descriptor"] = "check" /\ Entry["get_descriptor"] = "build" /\ Entry["rotate_keys"] = "swap"
    /\ Entry["put_tariff"] = "sign_tariff" /\ Entry["run_billing"] = "read_tariff"
BY DEF Entry

LEMMA AskedFor ==
    ASSUME NEW r \in Requests
    PROVE  /\ r.op \in DOMAIN Entry
           /\ Entry[r.op] \in {"check", "build", "swap", "sign_tariff", "read_tariff"}
           /\ Entry[r.op] = "check" => r.visibility \in Levels
<1>1. \/ r.op = "put_descriptor" /\ r.visibility \in Visibilities
      \/ r.op \in {"get_descriptor", "rotate_keys", "run_billing"}
      \/ r.op = "put_tariff"
  BY DEF Requests
<1>2. Visibilities \subseteq Levels BY AdminAssumption DEF Levels
<1> QED BY <1>1, <1>2, EntryIs

LEMMA AdminInitTypes == AdminInit => AdTypes /\ AdminHands
<1> SUFFICES ASSUME AdminInit PROVE AdTypes /\ AdminHands OBVIOUS
<1>1. visibility \in Levels
  <2>1. PICK e \in Environments : from_env(e).ok /\ visibility = from_env(e).visibility BY DEF AdminInit
  <2>2. PICK c, l \in (-2)..2 : c = e.class /\ l = e.level BY AdminAssumption
  <2>3. typical_visibility["relay"] = <<0, 0>> /\ typical_visibility["media_relay"] = <<1, 0>>
        /\ typical_visibility["gateway"] = <<2, 2>>
        /\ DOMAIN typical_visibility = {"relay", "media_relay", "gateway"}
    BY DEF typical_visibility
  <2>4. (IF e.kind \in DOMAIN typical_visibility THEN typical_visibility[e.kind] ELSE <<2, 2>>) \in Levels
    BY <2>3 DEF Levels
  <2>5. PICK df \in Levels :
          df = IF e.kind \in DOMAIN typical_visibility THEN typical_visibility[e.kind] ELSE <<2, 2>>
    BY <2>4
  <2>6. from_env(e).ok => Bad \notin {c, l} /\ ({c, l} = {Absent} \/ Absent \notin {c, l})
    BY <2>2 DEF from_env
  <2>7. from_env(e).visibility = IF {c, l} = {Absent} THEN df ELSE <<c, l>>
    BY <2>2, <2>5 DEF from_env
  <2>8. {c, l} # {Absent} => c \in 0..2 /\ l \in 0..2 BY <2>1, <2>2, <2>6 DEF Bad, Absent
  <2> QED BY <2>1, <2>5, <2>7, <2>8 DEF Levels
<1>2. NoUnits \in [Metered -> Nat] BY DEF NoUnits
<1>3. AdTypes BY <1>1, <1>2, AdminAssumption DEF AdminInit, AdTypes, Stands
<1>4. ASSUME NEW w \in Workers PROVE InHand(w) BY DEF AdminInit, InHand, NoResponse
<1> QED BY <1>3, <1>4 DEF AdminInit, AdminHands

\* The bill of a meter has one line for every kind that was used.
LEMMA BillIs ==
    ASSUME NEW w, NEW m \in [Metered -> Nat], Payable(loc[w].signed.schedule, m)
    PROVE  BillOf(w, m).items = {line_item(loc[w].signed.schedule, k, m[k]) : k \in UsedOf(m)}
<1>1. DOMAIN used_kinds(m) = UsedOf(m) /\ \A k \in UsedOf(m) : used_kinds(m)[k] = m[k]
  BY DEF used_kinds, UsedOf
<1>2. PICK u : u = used_kinds(m) OBVIOUS
<1>3. PICK s : s = loc[w].signed.schedule OBVIOUS
<1>4. DOMAIN u \subseteq DOMAIN s.prices BY <1>1, <1>2, <1>3 DEF Payable
<1>5. evaluate(s, u).items = {line_item(s, k, u[k]) : k \in DOMAIN u} BY <1>4 DEF evaluate
<1> QED BY <1>1, <1>2, <1>3, <1>5 DEF BillOf

LEMMA BillPays ==
    ASSUME NEW w, NEW m \in [Metered -> Nat], BillOf(w, m).ok
    PROVE  Payable(loc[w].signed.schedule, m)
<1>1. DOMAIN used_kinds(m) = UsedOf(m) BY DEF used_kinds, UsedOf
<1>2. PICK u : u = used_kinds(m) OBVIOUS
<1>3. PICK s : s = loc[w].signed.schedule OBVIOUS
<1>4. evaluate(s, u).ok BY <1>2, <1>3 DEF BillOf
<1>5. DOMAIN u \subseteq DOMAIN s.prices BY <1>4, Unpriced
<1> QED BY <1>1, <1>2, <1>3, <1>5 DEF Payable

\* SetToSeq takes every element once.
LEMMA Sequenced ==
    ASSUME NEW S, IsFiniteSet(S)
    PROVE  /\ Cardinality(S) \in Nat /\ SetToSeq(S) \in [1..Cardinality(S) -> S]
           /\ \A i, j \in 1..Cardinality(S) : SetToSeq(S)[i] = SetToSeq(S)[j] => i = j
           /\ \A x \in S : \E i \in 1..Cardinality(S) : SetToSeq(S)[i] = x
<1>1. PICK n \in Nat : n = Cardinality(S) /\ ExistsBijection(1..n, S) BY FS_CardinalityType
<1>2. PICK b : b \in Bijection(1..n, S) BY <1>1 DEF ExistsBijection
<1>3. b \in [1..n -> S] /\ IsInjective(b) BY <1>2 DEF Bijection, Injection, IsInjective
<1>4. PICK f : f = SetToSeq(S) OBVIOUS
<1>5. f = CHOOSE g \in [1..n -> S] : IsInjective(g) BY <1>1, <1>4 DEF SetToSeq
<1>6. f \in [1..n -> S] /\ IsInjective(f) BY <1>3, <1>5
<1>7. f \in Injection(1..n, S) BY <1>6 DEF Injection, IsInjective
<1>8. Cardinality(1..n) = n /\ IsFiniteSet(1..n) BY FS_Interval
<1>9. f \in Surjection(1..n, S) BY <1>1, <1>7, <1>8, FS_Injection
<1>10. \A x \in S : \E i \in 1..n : f[i] = x BY <1>9 DEF Surjection
<1> QED BY <1>1, <1>4, <1>6, <1>10 DEF IsInjective

\* The receipts of a run: one for every kind that was used.
BilledOnce(R, n, w, signer) ==
    /\ n \in Nat /\ R \in Seq(Invoice) /\ Len(R) = n
    /\ \A i \in 1..n : /\ R[i].kind \in UsedOf(loc[w].usage) /\ R[i].units = loc[w].usage[R[i].kind]
                        /\ R[i].sequence = Len(log) + i - 1 /\ R[i].by = signer
    /\ \A i, j \in 1..n : R[i].kind = R[j].kind => i = j
    /\ \A k \in UsedOf(loc[w].usage) : \E i \in 1..n : R[i].kind = k

LEMMA ReceiptsAre ==
    ASSUME NEW w, NEW signer \in Nat, log \in Seq(Invoice), loc[w].usage \in [Metered -> Nat],
           Payable(loc[w].signed.schedule, loc[w].usage)
    PROVE  \E n : BilledOnce(ReceiptsFor(w, signer), n, w, signer)
<1>1. PICK m \in [Metered -> Nat] : m = loc[w].usage OBVIOUS
<1>2. PICK s : s = loc[w].signed.schedule OBVIOUS
<1>3. PICK I : I = BillOf(w, m).items OBVIOUS
<1>4. I = {line_item(s, k, m[k]) : k \in UsedOf(m)} BY <1>1, <1>2, <1>3, BillIs
<1>5. \A k \in UsedOf(m) : line_item(s, k, m[k]).kind = k /\ line_item(s, k, m[k]).metered = m[k]
  BY DEF line_item
<1>6. IsFiniteSet(I)
  <2> DEFINE f == [k \in UsedOf(m) |-> line_item(s, k, m[k])]
  <2>1. f \in Surjection(UsedOf(m), I) BY <1>4 DEF Surjection
  <2>2. IsFiniteSet(UsedOf(m)) BY AdminAssumption, FS_Subset DEF UsedOf
  <2> HIDE DEF f
  <2> QED BY <2>1, <2>2, FS_Surjection
<1>7. PICK n \in Nat : n = Cardinality(I) BY <1>6, FS_CardinalityType
<1>8. PICK f \in [1..n -> I] : f = SetToSeq(I) BY <1>6, <1>7, Sequenced
<1>9. (\A i, j \in 1..n : f[i] = f[j] => i = j) /\ (\A x \in I : \E i \in 1..n : f[i] = x)
  BY <1>6, <1>7, <1>8, Sequenced
<1>10. \A x \in I : x.kind \in UsedOf(m) /\ x.metered = m[x.kind] /\ x = line_item(s, x.kind, m[x.kind])
  BY <1>4, <1>5
<1>11. PICK R : R = ReceiptsFor(w, signer) OBVIOUS
<1>12. PICK l \in Nat : l = Len(log) OBVIOUS
<1>13. R = [i \in 1..n |-> [kind |-> f[i].kind, units |-> f[i].metered, sequence |-> l + i - 1, by |-> signer]]
  BY <1>1, <1>3, <1>8, <1>11, <1>12 DEF ReceiptsFor
<1>14. \A i \in 1..n : /\ R[i].kind = f[i].kind /\ R[i].units = f[i].metered
                        /\ R[i].sequence = l + i - 1 /\ R[i].by = signer
  BY <1>13
<1>15. ASSUME NEW i \in 1..n PROVE R[i] \in Invoice
  <2>1. f[i].kind \in Metered /\ f[i].metered \in Nat BY <1>1, <1>10 DEF UsedOf
  <2>2. l + i - 1 \in Nat BY <1>12
  <2> QED BY <1>13, <2>1, <2>2 DEF Invoice
<1>16. R \in Seq(Invoice) /\ Len(R) = n BY <1>13, <1>15
<1>17. \A i, j \in 1..n : R[i].kind = R[j].kind => i = j
  <2> TAKE i, j \in 1..n
  <2> HAVE R[i].kind = R[j].kind
  <2>1. PICK k : k = f[i].kind /\ k = f[j].kind BY <1>14
  <2>2. f[i] = line_item(s, k, m[k]) /\ f[j] = line_item(s, k, m[k]) BY <1>10, <2>1
  <2> QED BY <1>9, <2>2
<1>18. \A k \in UsedOf(m) : \E i \in 1..n : R[i].kind = k
  <2> TAKE k \in UsedOf(m)
  <2>1. PICK x \in I : x = line_item(s, k, m[k]) /\ x.kind = k BY <1>4, <1>5
  <2>2. PICK i \in 1..n : f[i] = x BY <1>9
  <2> QED BY <1>14, <2>1, <2>2
<1>19. \A i \in 1..n : R[i].kind \in UsedOf(m) /\ R[i].units = m[R[i].kind] BY <1>10, <1>14
<1> QED BY <1>1, <1>7, <1>11, <1>12, <1>14, <1>16, <1>17, <1>18, <1>19 DEF BilledOnce

Elsewhere(w) == \A u \in Workers \ {w} : /\ apc'[u] = apc[u] /\ req'[u] = req[u]
                                         /\ loc'[u] = loc[u] /\ response'[u] = response[u]
Desked == /\ apc' \in [Workers -> Stands]
          /\ DOMAIN req' = Workers /\ DOMAIN loc' = Workers /\ DOMAIN response' = Workers

LEMMA OnIs ==
    ASSUME AdTypes, NEW w \in Workers, NEW to \in Stands, NEW l, on(w, to, l)
    PROVE  /\ Elsewhere(w) /\ Desked
           /\ apc'[w] = to /\ loc'[w] = l /\ req'[w] = req[w] /\ response'[w] = response[w]
BY DEF AdTypes, on, Elsewhere, Desked

LEMMA RespondIs ==
    ASSUME AdTypes, NEW w \in Workers, NEW r, respond(w, r)
    PROVE  /\ Elsewhere(w) /\ Desked
           /\ apc'[w] = "idle" /\ loc'[w] = NoLocals /\ req'[w] = NoRequest /\ response'[w] = r
BY DEF AdTypes, respond, Elsewhere, Desked, Stands

LEMMA StatusIs == ASSUME NEW n PROVE Status(n).status = n /\ DOMAIN Status(n) = {"status"}
BY DEF Status
LEMMA NoResponseIs == NoResponse.status = 0 BY DEF NoResponse

\* A worker that stands still: the key may turn and the visibility move under it, and it is noted.
Noted(u) == /\ current' = current \/ turned'[u] = TRUE
            /\ visibility' = visibility \/ moved'[u] = TRUE
            /\ turned[u] = TRUE => turned'[u] = TRUE
            /\ moved[u] = TRUE => moved'[u] = TRUE

LEMMA HandKept ==
    ASSUME AdTypes, NEW u \in Workers, InHand(u), Noted(u), token' = token, current' \in Nat, current' >= current,
           apc'[u] = apc[u], req'[u] = req[u], loc'[u] = loc[u], response'[u] = response[u]
    PROVE  InHand(u)'
<1>1. current \in Nat BY AdminAssumption DEF AdTypes
<1>2. PICK a, q, l, p : a = apc[u] /\ q = req[u] /\ l = loc[u] /\ p = response[u] OBVIOUS
<1>3. a = apc'[u] /\ q = req'[u] /\ l = loc'[u] /\ p = response'[u] BY <1>2
<1>4. /\ a # "idle" => token' # NoToken /\ q.op \in DOMAIN Entry /\ p = NoResponse
      /\ a \in {"check", "set"} => q.visibility \in Levels
  BY <1>2 DEF InHand
<1>5. a = "set" => (moved'[u] = TRUE) \/ (q.confirm_downgrade = TRUE) \/ ~is_downgrade(visibility', q.visibility)
  BY <1>2 DEF InHand, Noted
<1>6. /\ a = "sign" => l.key = current' \/ turned'[u] = TRUE
      /\ p.status = 200 /\ "signer" \in DOMAIN p => p.identity = p.signer \/ turned'[u] = TRUE
  BY <1>2 DEF InHand, Noted
<1>7. /\ a = "push" => l.key \in Nat /\ l.key < current'
      /\ a \in {"write_tariff", "take_usage", "issue"} => l.signed.by \in 0..current'
  BY <1>1, <1>2 DEF InHand
<1>8. /\ a = "take_usage" => DOMAIN l = {"key", "signed", "usage"}
      /\ a = "issue" => l.usage \in [Metered -> Nat] /\ Payable(l.signed.schedule, l.usage)
  BY <1>2 DEF InHand
<1>9. (is_downgrade(visibility, req[u].visibility))' = is_downgrade(visibility', req'[u].visibility)
      /\ (Payable(loc[u].signed.schedule, loc[u].usage))' = Payable(loc'[u].signed.schedule, loc'[u].usage)
  BY DEF is_downgrade, Payable, UsedOf
<1> QED BY <1>3, <1>4, <1>5, <1>6, <1>7, <1>8, <1>9 DEF InHand

\* What the step of a worker leaves of the shared state.
SharedState(w) ==
    /\ token' = token /\ visibility' \in Levels /\ current' \in 0..MaxRotations /\ current' >= current
    /\ history' \in Seq(Nat) /\ log' \in Seq(Invoice)
    /\ adMeter' \in [Metered -> Nat] /\ recorded' = recorded /\ lost' \in [Metered -> Nat]
    /\ turned' \in [Workers -> BOOLEAN] /\ moved' \in [Workers -> BOOLEAN]
    /\ \A u \in Workers \ {w} : Noted(u)
    /\ tariff' = tariff \/ tariff'.by \in 0..current'
    /\ token # NoToken \/ (current' = current /\ tariff' = tariff /\ log' = log /\ history' = history)

\* A step of a worker, from what it does itself.
LEMMA WorkerStep ==
    ASSUME AdTypes, AdminHands, NEW w \in Workers, Elsewhere(w), Desked, InHand(w)', SharedState(w)
    PROVE  AdTypes' /\ AdminHands'
<1> USE DEF SharedState
<1>1. AdTypes' BY DEF AdTypes, Desked
<1>2. current \in Nat /\ current' \in Nat BY AdminAssumption DEF AdTypes
<1>3. ASSUME NEW u \in Workers PROVE InHand(u)'
  <2>1. CASE u = w BY <2>1
  <2>2. CASE u # w
    <3>1. InHand(u) /\ Noted(u) BY <2>2 DEF AdminHands
    <3>2. apc'[u] = apc[u] /\ req'[u] = req[u] /\ loc'[u] = loc[u] /\ response'[u] = response[u]
      BY <2>2 DEF Elsewhere
    <3> QED BY <1>2, <3>1, <3>2, HandKept
  <2> QED BY <2>1, <2>2
<1>4. tariff' = Unset \/ tariff'.by \in 0..current' BY <1>2 DEF AdminHands
<1>5. token' = NoToken => current' = 0 /\ tariff' = Unset /\ log' = <<>> /\ history' = <<>> BY DEF AdminHands
<1> QED BY <1>1, <1>3, <1>4, <1>5 DEF AdminHands

LEMMA AdTyped == AdTypes => /\ current \in Nat /\ visibility \in Levels
                           /\ history \in Seq(Nat) /\ log \in Seq(Invoice)
                           /\ current \in 0..MaxRotations /\ MaxRotations \in Nat
                           /\ adMeter \in [Metered -> Nat] /\ lost \in [Metered -> Nat]
                           /\ turned \in [Workers -> BOOLEAN] /\ moved \in [Workers -> BOOLEAN]
BY AdminAssumption DEF AdTypes

\* A worker that answers, in a step that changes nothing but what is said of it.
LEMMA HandAnswers ==
    ASSUME NEW w \in Workers, NEW r, apc'[w] = "idle", response'[w] = r,
           r.status = 200 /\ "signer" \in DOMAIN r => r.identity = r.signer \/ turned'[w] = TRUE
    PROVE  InHand(w)'
BY DEF InHand

LEMMA HandRefused ==
    ASSUME NEW w \in Workers, NEW n, apc'[w] = "idle", response'[w] = Status(n) PROVE InHand(w)'
<1>1. PICK r : r = Status(n) /\ "signer" \notin DOMAIN r BY StatusIs
<1> QED BY <1>1, HandAnswers

LEMMA AskKeeps ==
    ASSUME AdTypes, AdminHands, NEW w \in Workers, NEW r \in Requests, NEW p, require_auth(w, r, p)
    PROVE  AdTypes' /\ AdminHands'
<1>1. /\ UNCHANGED <<token, visibility, current, history, tariff, adMeter, log, recorded, lost>>
      /\ turned' = [turned EXCEPT ![w] = FALSE] /\ moved' = [moved EXCEPT ![w] = FALSE]
  BY DEF require_auth
<1>2. turned' \in [Workers -> BOOLEAN] /\ moved' \in [Workers -> BOOLEAN]
      /\ \A u \in Workers \ {w} : turned'[u] = turned[u] /\ moved'[u] = moved[u]
  BY <1>1, AdTyped
<1>3. \A u \in Workers \ {w} : Noted(u) BY <1>1, <1>2 DEF Noted
<1>4. Elsewhere(w) /\ Desked /\ InHand(w)'
  <2>1. CASE authorize(p)
    <3>1. /\ apc' = [apc EXCEPT ![w] = Entry[r.op]] /\ req' = [req EXCEPT ![w] = r]
          /\ response' = [response EXCEPT ![w] = NoResponse] /\ UNCHANGED loc
      BY <2>1 DEF require_auth
    <3>2. PICK a : a = Entry[r.op] OBVIOUS
    <3>3. a \in {"check", "build", "swap", "sign_tariff", "read_tariff"} /\ r.op \in DOMAIN Entry
          /\ (a = "check" => r.visibility \in Levels)
      BY <3>2, AskedFor
    <3>4. apc'[w] = a /\ req'[w] = r /\ response'[w] = NoResponse BY <3>1, <3>2 DEF AdTypes
    <3>5. Elsewhere(w) /\ Desked BY <3>1, <3>2, <3>3 DEF AdTypes, Elsewhere, Desked, Stands
    <3>6. token' # NoToken BY <1>1, <2>1 DEF authorize
    <3>7. InHand(w)' BY <3>3, <3>4, <3>6, NoResponseIs DEF InHand
    <3> QED BY <3>5, <3>7
  <2>2. CASE ~authorize(p)
    <3>1. respond(w, Status(401)) BY <2>2 DEF require_auth
    <3>2. Elsewhere(w) /\ Desked /\ apc'[w] = "idle" /\ response'[w] = Status(401) BY <3>1, RespondIs
    <3>3. InHand(w)' BY <3>2, HandRefused
    <3> QED BY <3>2, <3>3
  <2> QED BY <2>1, <2>2
<1>5. SharedState(w) BY <1>1, <1>2, <1>3, AdTyped DEF SharedState
<1> QED BY <1>4, <1>5, WorkerStep

LEMMA CheckKeeps ==
    ASSUME AdTypes, AdminHands, NEW w \in Workers, check(w) PROVE AdTypes' /\ AdminHands'
<1>1. /\ UNCHANGED <<token, visibility, current, history, tariff, adMeter, log, turned, recorded, lost>>
      /\ moved' = [moved EXCEPT ![w] = FALSE] /\ apc[w] = "check"
  BY DEF check
<1>2. moved' \in [Workers -> BOOLEAN] /\ \A u \in Workers \ {w} : moved'[u] = moved[u] BY <1>1, AdTyped
<1>3. \A u \in Workers \ {w} : Noted(u) BY <1>1, <1>2 DEF Noted
<1>4. InHand(w) BY DEF AdminHands
<1>5. Elsewhere(w) /\ Desked /\ InHand(w)'
  <2>1. CASE is_downgrade(visibility, req[w].visibility) /\ ~req[w].confirm_downgrade
    <3>1. respond(w, Status(409)) BY <2>1 DEF check
    <3>2. Elsewhere(w) /\ Desked /\ apc'[w] = "idle" /\ response'[w] = Status(409) BY <3>1, RespondIs
    <3>3. InHand(w)' BY <3>2, HandRefused
    <3> QED BY <3>2, <3>3
  <2>2. CASE ~(is_downgrade(visibility, req[w].visibility) /\ ~req[w].confirm_downgrade)
    <3>1. on(w, "set", NoLocals) BY <2>2 DEF check
    <3>2. /\ Elsewhere(w) /\ Desked
          /\ apc'[w] = "set" /\ req'[w] = req[w] /\ response'[w] = response[w]
      BY <3>1, OnIs DEF Stands
    <3>3. ~is_downgrade(visibility, req[w].visibility) \/ req[w].confirm_downgrade BY <2>2
    <3>4. req[w].confirm_downgrade => req[w].confirm_downgrade = TRUE OBVIOUS
    <3>5. token # NoToken /\ req[w].op \in DOMAIN Entry /\ response[w] = NoResponse /\ req[w].visibility \in Levels
      BY <1>1, <1>4 DEF InHand
    <3>6. (is_downgrade(visibility, req[w].visibility))' = is_downgrade(visibility, req[w].visibility)
      BY <1>1, <3>2 DEF is_downgrade
    <3>7. InHand(w)' BY <1>1, <3>2, <3>3, <3>4, <3>5, <3>6, NoResponseIs DEF InHand
    <3> QED BY <3>2, <3>7
  <2> QED BY <2>1, <2>2
<1>6. SharedState(w) BY <1>1, <1>2, <1>3, AdTyped DEF SharedState
<1> QED BY <1>5, <1>6, WorkerStep

LEMMA SetKeeps ==
    ASSUME AdTypes, AdminHands, NEW w \in Workers, set(w) PROVE AdTypes' /\ AdminHands'
<1>1. /\ UNCHANGED <<token, current, history, tariff, adMeter, log, turned, recorded, lost>>
      /\ visibility' = req[w].visibility /\ moved' = [u \in Workers |-> moved[u] \/ u # w]
      /\ apc[w] = "set" /\ on(w, "build", NoLocals)
  BY DEF set
<1>2. moved' \in [Workers -> BOOLEAN] /\ \A u \in Workers \ {w} : moved'[u] = TRUE BY <1>1, AdTyped
<1>3. \A u \in Workers \ {w} : Noted(u) BY <1>1, <1>2 DEF Noted
<1>4. token # NoToken /\ req[w].op \in DOMAIN Entry /\ response[w] = NoResponse /\ req[w].visibility \in Levels
  BY <1>1 DEF AdminHands, InHand
<1>5. /\ Elsewhere(w) /\ Desked
      /\ apc'[w] = "build" /\ req'[w] = req[w] /\ response'[w] = response[w]
  BY <1>1, OnIs DEF Stands
<1>6. InHand(w)' BY <1>1, <1>4, <1>5, NoResponseIs DEF InHand
<1>7. SharedState(w) BY <1>1, <1>2, <1>3, <1>4, AdTyped DEF SharedState
<1> QED BY <1>5, <1>6, <1>7, WorkerStep

LEMMA BuildKeeps ==
    ASSUME AdTypes, AdminHands, NEW w \in Workers, build(w) PROVE AdTypes' /\ AdminHands'
<1>1. /\ UNCHANGED <<token, visibility, current, history, tariff, adMeter, log, moved, recorded, lost>>
      /\ turned' = [turned EXCEPT ![w] = FALSE]
      /\ apc[w] = "build" /\ on(w, "sign", [NoLocals EXCEPT !.key = current])
  BY DEF build
<1>2. turned' \in [Workers -> BOOLEAN] /\ \A u \in Workers \ {w} : turned'[u] = turned[u] BY <1>1, AdTyped
<1>3. \A u \in Workers \ {w} : Noted(u) BY <1>1, <1>2 DEF Noted
<1>4. token # NoToken /\ req[w].op \in DOMAIN Entry /\ response[w] = NoResponse
  BY <1>1 DEF AdminHands, InHand
<1>5. PICK l : l = [NoLocals EXCEPT !.key = current] /\ l.key = current
  <2>1. [NoLocals EXCEPT !.key = current].key = current BY DEF NoLocals
  <2> QED BY <2>1
<1>6. /\ Elsewhere(w) /\ Desked
      /\ apc'[w] = "sign" /\ req'[w] = req[w] /\ response'[w] = response[w] /\ loc'[w] = l
  BY <1>1, <1>5, OnIs DEF Stands
<1>7. loc'[w].key = current' BY <1>1, <1>5, <1>6
<1>8. InHand(w)' BY <1>1, <1>4, <1>6, <1>7, NoResponseIs DEF InHand
<1>9. SharedState(w) BY <1>1, <1>2, <1>3, AdTyped DEF SharedState
<1> QED BY <1>6, <1>8, <1>9, WorkerStep

LEMMA SignKeeps ==
    ASSUME AdTypes, AdminHands, NEW w \in Workers, sign(w) PROVE AdTypes' /\ AdminHands'
<1>1. /\ UNCHANGED <<token, visibility, current, history, tariff, adMeter, log, turned, moved, recorded, lost>>
      /\ apc[w] = "sign" /\ respond(w, [status |-> 200, identity |-> loc[w].key, signer |-> current])
  BY DEF sign
<1>2. \A u \in Workers \ {w} : Noted(u) BY <1>1 DEF Noted
<1>3. loc[w].key = current \/ turned[w] = TRUE BY <1>1 DEF AdminHands, InHand
<1>4. PICK r : r = [status |-> 200, identity |-> loc[w].key, signer |-> current] OBVIOUS
<1>5. r.identity = loc[w].key /\ r.signer = current BY <1>4
<1>6. Elsewhere(w) /\ Desked /\ apc'[w] = "idle" /\ response'[w] = r BY <1>1, <1>4, RespondIs
<1>7. InHand(w)' BY <1>1, <1>3, <1>5, <1>6, HandAnswers
<1>8. SharedState(w) BY <1>1, <1>2, AdTyped DEF SharedState
<1> QED BY <1>6, <1>7, <1>8, WorkerStep

\* The locals an action writes.
LEMMA LocalsAre ==
    ASSUME NEW k, NEW s
    PROVE  [NoLocals EXCEPT !.key = k].key = k /\ [NoLocals EXCEPT !.signed = s].signed = s
BY DEF NoLocals

LEMMA SwapKeeps ==
    ASSUME AdTypes, AdminHands, NEW w \in Workers, swap(w) PROVE AdTypes' /\ AdminHands'
<1>1. /\ UNCHANGED <<token, visibility, history, tariff, adMeter, log, moved, recorded, lost>>
      /\ turned' = [u \in Workers |-> TRUE] /\ current < MaxRotations /\ current' = current + 1
      /\ apc[w] = "swap" /\ on(w, "push", [NoLocals EXCEPT !.key = current])
  BY DEF swap
<1>2. current \in Nat /\ current' \in Nat /\ current' \in 0..MaxRotations /\ current < current' /\ current' >= current
  BY <1>1, AdTyped
<1>3. \A u \in Workers \ {w} : Noted(u) BY <1>1 DEF Noted
<1>4. token # NoToken /\ req[w].op \in DOMAIN Entry /\ response[w] = NoResponse
  BY <1>1 DEF AdminHands, InHand
<1>5. PICK l : l = [NoLocals EXCEPT !.key = current] /\ l.key = current BY LocalsAre
<1>6. /\ Elsewhere(w) /\ Desked
      /\ apc'[w] = "push" /\ req'[w] = req[w] /\ response'[w] = response[w] /\ loc'[w] = l
  BY <1>1, <1>5, OnIs DEF Stands
<1>7. loc'[w].key \in Nat /\ loc'[w].key < current' BY <1>2, <1>5, <1>6
<1>8. InHand(w)' BY <1>1, <1>4, <1>6, <1>7, NoResponseIs DEF InHand
<1>9. SharedState(w) BY <1>1, <1>2, <1>3, <1>4, AdTyped DEF SharedState
<1> QED BY <1>6, <1>8, <1>9, WorkerStep

LEMMA TrailingKeeps ==
    ASSUME AdTypes, AdminHands, NEW w \in Workers, push_history(w) PROVE AdTypes' /\ AdminHands'
<1>1. /\ UNCHANGED <<token, visibility, current, tariff, adMeter, log, turned, moved, recorded, lost>>
      /\ history' = Append(history, loc[w].key)
      /\ apc[w] = "push" /\ on(w, "build", NoLocals)
  BY DEF push_history
<1>2. \A u \in Workers \ {w} : Noted(u) BY <1>1 DEF Noted
<1>3. token # NoToken /\ req[w].op \in DOMAIN Entry /\ response[w] = NoResponse /\ loc[w].key \in Nat
  BY <1>1 DEF AdminHands, InHand
<1>4. history' \in Seq(Nat) BY <1>1, <1>3, AdTyped
<1>5. /\ Elsewhere(w) /\ Desked
      /\ apc'[w] = "build" /\ req'[w] = req[w] /\ response'[w] = response[w]
  BY <1>1, OnIs DEF Stands
<1>6. InHand(w)' BY <1>1, <1>3, <1>5, NoResponseIs DEF InHand
<1>7. SharedState(w) BY <1>1, <1>2, <1>3, <1>4, AdTyped DEF SharedState
<1> QED BY <1>5, <1>6, <1>7, WorkerStep

LEMMA SignTariffKeeps ==
    ASSUME AdTypes, AdminHands, NEW w \in Workers, sign_tariff(w) PROVE AdTypes' /\ AdminHands'
<1>1. /\ UNCHANGED <<token, visibility, current, history, tariff, adMeter, log, turned, moved, recorded, lost>>
      /\ apc[w] = "sign_tariff"
  BY DEF sign_tariff
<1>2. \A u \in Workers \ {w} : Noted(u) BY <1>1 DEF Noted
<1>3. token # NoToken /\ req[w].op \in DOMAIN Entry /\ response[w] = NoResponse
  BY <1>1 DEF AdminHands, InHand
<1>4. Elsewhere(w) /\ Desked /\ InHand(w)'
  <2>1. CASE ~req[w].well_formed
    <3>1. respond(w, Status(400)) BY <2>1 DEF sign_tariff
    <3>2. Elsewhere(w) /\ Desked /\ apc'[w] = "idle" /\ response'[w] = Status(400) BY <3>1, RespondIs
    <3>3. InHand(w)' BY <3>2, HandRefused
    <3> QED BY <3>2, <3>3
  <2>2. CASE req[w].well_formed
    <3>1. PICK s : s = [by |-> current, schedule |-> req[w].schedule] /\ s.by = current
      <4>1. [by |-> current, schedule |-> req[w].schedule].by = current OBVIOUS
      <4> QED BY <4>1
    <3>2. PICK l : l = [NoLocals EXCEPT !.signed = s] /\ l.signed = s BY LocalsAre
    <3>3. on(w, "write_tariff", l) BY <2>2, <3>1, <3>2 DEF sign_tariff
    <3>4. /\ Elsewhere(w) /\ Desked
          /\ apc'[w] = "write_tariff" /\ req'[w] = req[w] /\ response'[w] = response[w] /\ loc'[w] = l
      BY <3>3, OnIs DEF Stands
    <3>5. loc'[w].signed.by \in 0..current' BY <1>1, <3>1, <3>2, <3>4, AdTyped
    <3>6. InHand(w)' BY <1>1, <1>3, <3>4, <3>5, NoResponseIs DEF InHand
    <3> QED BY <3>4, <3>6
  <2> QED BY <2>1, <2>2
<1>5. SharedState(w) BY <1>1, <1>2, AdTyped DEF SharedState
<1> QED BY <1>4, <1>5, WorkerStep

LEMMA WriteTariffKeeps ==
    ASSUME AdTypes, AdminHands, NEW w \in Workers, write_tariff(w) PROVE AdTypes' /\ AdminHands'
<1>1. /\ UNCHANGED <<token, visibility, current, history, adMeter, log, turned, moved, recorded, lost>>
      /\ apc[w] = "write_tariff" /\ tariff' = loc[w].signed /\ respond(w, Status(200))
  BY DEF write_tariff
<1>2. \A u \in Workers \ {w} : Noted(u) BY <1>1 DEF Noted
<1>3. token # NoToken /\ loc[w].signed.by \in 0..current BY <1>1 DEF AdminHands, InHand
<1>4. Elsewhere(w) /\ Desked /\ apc'[w] = "idle" /\ response'[w] = Status(200) BY <1>1, RespondIs
<1>5. InHand(w)' BY <1>4, HandRefused
<1>6. SharedState(w) BY <1>1, <1>2, <1>3, AdTyped DEF SharedState
<1> QED BY <1>4, <1>5, <1>6, WorkerStep

LEMMA ReadTariffKeeps ==
    ASSUME AdTypes, AdminHands, NEW w \in Workers, read_tariff(w) PROVE AdTypes' /\ AdminHands'
<1>1. /\ UNCHANGED <<token, visibility, current, history, tariff, adMeter, log, turned, moved, recorded, lost>>
      /\ apc[w] = "read_tariff"
  BY DEF read_tariff
<1>2. \A u \in Workers \ {w} : Noted(u) BY <1>1 DEF Noted
<1>3. token # NoToken /\ req[w].op \in DOMAIN Entry /\ response[w] = NoResponse
  BY <1>1 DEF AdminHands, InHand
<1>4. Elsewhere(w) /\ Desked /\ InHand(w)'
  <2>1. CASE tariff = Unset
    <3>1. respond(w, Status(409)) BY <2>1 DEF read_tariff
    <3>2. Elsewhere(w) /\ Desked /\ apc'[w] = "idle" /\ response'[w] = Status(409) BY <3>1, RespondIs
    <3>3. InHand(w)' BY <3>2, HandRefused
    <3> QED BY <3>2, <3>3
  <2>2. CASE tariff # Unset
    <3>1. tariff.by \in 0..current BY <2>2 DEF AdminHands
    <3>2. PICK l : l = [NoLocals EXCEPT !.signed = tariff] /\ l.signed = tariff BY LocalsAre
    <3>3. on(w, "take_usage", l) BY <2>2, <3>2 DEF read_tariff
    <3>4. /\ Elsewhere(w) /\ Desked
          /\ apc'[w] = "take_usage" /\ req'[w] = req[w] /\ response'[w] = response[w] /\ loc'[w] = l
      BY <3>3, OnIs DEF Stands
    <3>5. loc'[w].signed.by \in 0..current' BY <1>1, <3>1, <3>2, <3>4
    <3>7. DOMAIN loc'[w] = {"key", "signed", "usage"} BY <3>2, <3>4 DEF NoLocals
    <3>6. InHand(w)' BY <1>1, <1>3, <3>4, <3>5, <3>7, NoResponseIs DEF InHand
    <3> QED BY <3>4, <3>6
  <2> QED BY <2>1, <2>2
<1>5. SharedState(w) BY <1>1, <1>2, AdTyped DEF SharedState
<1> QED BY <1>4, <1>5, WorkerStep

LEMMA LocalsTake ==
    ASSUME NEW l, DOMAIN l = {"key", "signed", "usage"}, NEW m, NEW k
    PROVE  [l EXCEPT !.usage = m, !.key = k].usage = m /\ [l EXCEPT !.usage = m, !.key = k].signed = l.signed
OBVIOUS

LEMMA TakeKeeps ==
    ASSUME AdTypes, AdminHands, NEW w \in Workers, take_usage(w) PROVE AdTypes' /\ AdminHands'
<1>1. /\ UNCHANGED <<token, visibility, current, history, tariff, log, turned, moved, recorded>>
      /\ apc[w] = "take_usage" /\ adMeter' = NoUnits
  BY DEF take_usage
<1>2. \A u \in Workers \ {w} : Noted(u) BY <1>1 DEF Noted
<1>3. token # NoToken /\ req[w].op \in DOMAIN Entry /\ response[w] = NoResponse
      /\ loc[w].signed.by \in 0..current /\ DOMAIN loc[w] = {"key", "signed", "usage"}
  BY <1>1 DEF AdminHands, InHand
<1>4. adMeter \in [Metered -> Nat] /\ lost \in [Metered -> Nat] BY AdTyped
<1>5. Elsewhere(w) /\ Desked /\ InHand(w)' /\ lost' \in [Metered -> Nat]
  <2>1. CASE ~BillOf(w, adMeter).ok
    <3>1. respond(w, Status(400)) /\ lost' = [k \in Metered |-> lost[k] + adMeter[k]] BY <2>1 DEF take_usage
    <3>2. Elsewhere(w) /\ Desked /\ apc'[w] = "idle" /\ response'[w] = Status(400) BY <3>1, RespondIs
    <3>3. InHand(w)' BY <3>2, HandRefused
    <3>4. lost' \in [Metered -> Nat] BY <1>4, <3>1
    <3> QED BY <3>2, <3>3, <3>4
  <2>2. CASE BillOf(w, adMeter).ok
    <3>1. PICK s : s = loc[w].signed OBVIOUS
    <3>2. PICK l : l = [loc[w] EXCEPT !.usage = adMeter, !.key = current] /\ l.usage = adMeter /\ l.signed = s
      <4>1. PICK L : L = loc[w] /\ DOMAIN L = {"key", "signed", "usage"} /\ L.signed = s BY <1>3, <3>1
      <4>2. PICK l : l = [L EXCEPT !.usage = adMeter, !.key = current] OBVIOUS
      <4>3. l.usage = adMeter /\ l.signed = s BY <4>1, <4>2, LocalsTake
      <4> QED BY <4>1, <4>2, <4>3
    <3>3. on(w, "issue", l) /\ lost' = lost BY <2>2, <3>2 DEF take_usage
    <3>4. /\ Elsewhere(w) /\ Desked
          /\ apc'[w] = "issue" /\ req'[w] = req[w] /\ response'[w] = response[w] /\ loc'[w] = l
      BY <3>3, OnIs DEF Stands
    <3>5. loc'[w].signed.by \in 0..current' BY <1>1, <1>3, <3>1, <3>2, <3>4
    <3>6. Payable(s.schedule, adMeter) BY <1>4, <2>2, <3>1, BillPays
    <3>7. loc'[w].usage = adMeter /\ loc'[w].signed.schedule = s.schedule BY <3>2, <3>4
    <3>8. (Payable(loc[w].signed.schedule, loc[w].usage))' BY <3>6, <3>7 DEF Payable, UsedOf
    <3>9. InHand(w)' BY <1>1, <1>3, <1>4, <3>4, <3>5, <3>7, <3>8, NoResponseIs DEF InHand
    <3> QED BY <1>4, <3>3, <3>4, <3>9
  <2> QED BY <2>1, <2>2
<1>6. adMeter' \in [Metered -> Nat] BY <1>1 DEF NoUnits
<1>7. SharedState(w) BY <1>1, <1>2, <1>5, <1>6, AdTyped DEF SharedState
<1> QED BY <1>5, <1>7, WorkerStep

LEMMA IssueKeeps ==
    ASSUME AdTypes, AdminHands, NEW w \in Workers, issue(w) PROVE AdTypes' /\ AdminHands'
<1>1. /\ UNCHANGED <<token, visibility, current, history, tariff, adMeter, turned, moved, recorded, lost>>
      /\ apc[w] = "issue" /\ respond(w, Status(200)) /\ log' = log \o ReceiptsFor(w, current)
  BY DEF issue
<1>2. \A u \in Workers \ {w} : Noted(u) BY <1>1 DEF Noted
<1>3. token # NoToken /\ loc[w].usage \in [Metered -> Nat] /\ Payable(loc[w].signed.schedule, loc[w].usage)
  BY <1>1 DEF AdminHands, InHand
<1>4. Elsewhere(w) /\ Desked /\ apc'[w] = "idle" /\ response'[w] = Status(200) BY <1>1, RespondIs
<1>5. InHand(w)' BY <1>4, HandRefused
<1>6. log' \in Seq(Invoice)
  <2>1. PICK R : R = ReceiptsFor(w, current) OBVIOUS
  <2>2. \E n : BilledOnce(ReceiptsFor(w, current), n, w, current) BY <1>3, AdTyped, ReceiptsAre
  <2>3. R \in Seq(Invoice) BY <2>1, <2>2 DEF BilledOnce
  <2> QED BY <1>1, <2>1, <2>3, AdTyped, ConcatProperties
<1>7. SharedState(w) BY <1>1, <1>2, <1>3, <1>6, AdTyped DEF SharedState
<1> QED BY <1>4, <1>5, <1>7, WorkerStep

LEMMA HandsStill ==
    ASSUME AdTypes, AdminHands, adMeter' \in [Metered -> Nat], recorded' \in [Metered -> Nat],
           UNCHANGED <<token, visibility, current, history, tariff, log, apc, req, loc, response, turned, moved, lost>>
    PROVE  AdTypes' /\ AdminHands'
<1>1. AdTypes' BY DEF AdTypes
<1>2. ASSUME NEW u \in Workers PROVE InHand(u)'
  <2>1. Noted(u) /\ InHand(u) BY DEF Noted, AdminHands
  <2>2. current' \in Nat /\ current' >= current BY AdTyped
  <2> QED BY <2>1, <2>2, HandKept
<1> QED BY <1>1, <1>2 DEF AdminHands

LEMMA DataStep ==
    ASSUME AdTypes, NEW k \in Metered, dataPlane(k)
    PROVE  adMeter' \in [Metered -> Nat] /\ recorded' \in [Metered -> Nat]
BY DEF AdTypes, dataPlane

LEMMA AdminStep == ASSUME AdTypes, AdminHands, AdminNext PROVE AdTypes' /\ AdminHands'
<1>1. ASSUME NEW k \in Metered, dataPlane(k) PROVE AdTypes' /\ AdminHands'
  BY <1>1, DataStep, HandsStill DEF dataPlane
<1>2. CASE \E w \in Workers : \E r \in Requests, p \in {NoToken, "secret"} : require_auth(w, r, p)
  BY <1>2, AskKeeps
<1>3. CASE \E w \in Workers : \/ check(w) \/ set(w) \/ build(w) \/ sign(w) \/ swap(w) \/ push_history(w)
                              \/ sign_tariff(w) \/ write_tariff(w) \/ read_tariff(w) \/ take_usage(w) \/ issue(w)
  BY <1>3, CheckKeeps, SetKeeps, BuildKeeps, SignKeeps, SwapKeeps, TrailingKeeps, SignTariffKeeps, WriteTariffKeeps,
     ReadTariffKeeps, TakeKeeps, IssueKeeps
<1> QED BY <1>1, <1>2, <1>3 DEF AdminNext

\* The steps that matter neither to the trail nor to the books.
Aside == /\ UNCHANGED <<current, history, log, adMeter, recorded, lost>>
         /\ \A u \in Workers : \/ apc'[u] = apc[u] /\ loc'[u] = loc[u]
                               \/ {apc[u], apc'[u]} \cap {"push", "issue"} = {}

LEMMA AsideAsk ==
    ASSUME AdTypes, NEW w \in Workers, NEW r \in Requests, NEW p, require_auth(w, r, p) PROVE Aside
<1>1. UNCHANGED <<current, history, log, adMeter, recorded, lost>> /\ apc[w] = "idle" BY DEF require_auth
<1>2. Elsewhere(w) /\ apc'[w] \notin {"push", "issue"}
  <2>1. CASE authorize(p)
    <3>1. /\ apc' = [apc EXCEPT ![w] = Entry[r.op]] /\ req' = [req EXCEPT ![w] = r]
          /\ response' = [response EXCEPT ![w] = NoResponse] /\ UNCHANGED loc
      BY <2>1 DEF require_auth
    <3>2. PICK a : a = Entry[r.op] OBVIOUS
    <3>3. a \in {"check", "build", "swap", "sign_tariff", "read_tariff"} BY <3>2, AskedFor
    <3> QED BY <3>1, <3>2, <3>3 DEF AdTypes, Elsewhere
  <2>2. CASE ~authorize(p)
    <3>1. respond(w, Status(401)) BY <2>2 DEF require_auth
    <3> QED BY <3>1, RespondIs
  <2> QED BY <2>1, <2>2
<1> QED BY <1>1, <1>2 DEF Aside, Elsewhere

LEMMA WalksOff ==
    ASSUME AdTypes, NEW w \in Workers, NEW to \in Stands \ {"push", "issue"}, NEW l, NEW r,
           on(w, to, l) \/ respond(w, r)
    PROVE  Elsewhere(w) /\ apc'[w] \notin {"push", "issue"}
BY OnIs, RespondIs

LEMMA AsideStep ==
    ASSUME AdTypes, NEW w \in Workers,
           check(w) \/ set(w) \/ build(w) \/ sign(w) \/ sign_tariff(w) \/ write_tariff(w) \/ read_tariff(w)
    PROVE  Aside
<1>1. UNCHANGED <<current, history, log, adMeter, recorded, lost>>
  BY DEF check, set, build, sign, sign_tariff, write_tariff, read_tariff
<1>2. apc[w] \notin {"push", "issue"} BY DEF check, set, build, sign, sign_tariff, write_tariff, read_tariff
<1>3. \E to \in Stands \ {"push", "issue"} : \E l, r : on(w, to, l) \/ respond(w, r)
  <2>1. CASE check(w) BY <2>1 DEF check, Stands
  <2>2. CASE set(w) BY <2>2 DEF set, Stands
  <2>3. CASE build(w) BY <2>3 DEF build, Stands
  <2>4. CASE sign(w) BY <2>4 DEF sign, Stands
  <2>5. CASE sign_tariff(w) BY <2>5 DEF sign_tariff, Stands
  <2>6. CASE write_tariff(w) BY <2>6 DEF write_tariff, Stands
  <2>7. CASE read_tariff(w) BY <2>7 DEF read_tariff, Stands
  <2> QED BY <2>1, <2>2, <2>3, <2>4, <2>5, <2>6, <2>7
<1>4. Elsewhere(w) /\ apc'[w] \notin {"push", "issue"} BY <1>3, WalksOff
<1> QED BY <1>1, <1>2, <1>4 DEF Aside, Elsewhere

LEMMA AdminKinds ==
    ASSUME AdTypes, AdminNext
    PROVE  \/ Aside
           \/ \E w \in Workers : swap(w) \/ push_history(w) \/ take_usage(w) \/ issue(w)
           \/ \E k \in Metered : dataPlane(k)
<1>1. CASE \E w \in Workers : \E r \in Requests, p \in {NoToken, "secret"} : require_auth(w, r, p)
  BY <1>1, AsideAsk
<1>2. CASE \E w \in Workers : \/ check(w) \/ set(w) \/ build(w) \/ sign(w)
                              \/ sign_tariff(w) \/ write_tariff(w) \/ read_tariff(w)
  BY <1>2, AsideStep
<1> QED BY <1>1, <1>2 DEF AdminNext

-----------------------------------------------------------------------------
\* The trail of keys.
InTrail(h, k) == {i \in DOMAIN h : h[i] = k}
InHands(p, l, k) == {w \in Workers : p[w] = "push" /\ l[w].key = k}
KeptOnce(n, h, p, l) ==
    /\ \A k \in 0..(n - 1) : Cardinality(InTrail(h, k)) + Cardinality(InHands(p, l, k)) = 1
    /\ \A i \in DOMAIN h : h[i] < n

LEMMA TrailIs == /\ TrailKept <=> KeptOnce(current, history, apc, loc)
                 /\ TrailKept' <=> KeptOnce(current', history', apc', loc')
BY DEF TrailKept, KeptOnce, InTrail, InHands

LEMMA TrailFinite ==
    ASSUME AdTypes, NEW k
    PROVE  /\ IsFiniteSet(InTrail(history, k)) /\ Cardinality(InTrail(history, k)) \in Nat
           /\ IsFiniteSet(InHands(apc, loc, k)) /\ Cardinality(InHands(apc, loc, k)) \in Nat
<1>1. PICK n \in Nat : DOMAIN history = 1..n
  <2>1. history \in Seq(Nat) BY DEF AdTypes
  <2>2. Len(history) \in Nat /\ DOMAIN history = 1..Len(history) BY <2>1
  <2> QED BY <2>2
<1>2. IsFiniteSet(1..n) BY FS_Interval
<1>3. InTrail(history, k) \in SUBSET (1..n) BY <1>1 DEF InTrail
<1>4. InHands(apc, loc, k) \in SUBSET Workers BY DEF InHands
<1> QED BY <1>2, <1>3, <1>4, AdminAssumption, FS_Subset, FS_CardinalityType

Apart(place) == \A u \in Workers : \/ apc'[u] = apc[u] /\ loc'[u] = loc[u]
                                   \/ apc[u] # place /\ apc'[u] # place

LEMMA TrailQuiet ==
    ASSUME TrailKept, current' = current, history' = history, Apart("push")
    PROVE  TrailKept'
<1>1. \A k : InHands(apc', loc', k) = InHands(apc, loc, k) BY DEF InHands, Apart
<1> QED BY <1>1, TrailIs DEF KeptOnce

LEMMA TrailSwap == ASSUME AdTypes, AdminHands, TrailKept, NEW w \in Workers, swap(w) PROVE TrailKept'
<1>1. /\ apc[w] = "swap" /\ current' = current + 1 /\ history' = history
      /\ on(w, "push", [NoLocals EXCEPT !.key = current])
  BY DEF swap
<1>2. PICK l : l = [NoLocals EXCEPT !.key = current] /\ l.key = current BY LocalsAre
<1>3. Elsewhere(w) /\ apc'[w] = "push" /\ loc'[w] = l BY <1>1, <1>2, OnIs DEF Stands
<1>4. \A u \in Workers \ {w} : apc'[u] = apc[u] /\ loc'[u] = loc[u] BY <1>3 DEF Elsewhere
<1>5. \A u \in Workers : apc[u] = "push" => loc[u].key \in Nat /\ loc[u].key < current
  BY DEF AdminHands, InHand
<1>6. current \in Nat BY AdTyped
<1>7. KeptOnce(current, history, apc, loc) BY TrailIs
<1>8. ASSUME NEW k \in 0..(current' - 1)
      PROVE  Cardinality(InTrail(history', k)) + Cardinality(InHands(apc', loc', k)) = 1
  <2>1. CASE k < current
    <3>1. InHands(apc', loc', k) = InHands(apc, loc, k)
      <4>1. loc'[w].key = current /\ current # k BY <1>2, <1>3, <1>6, <2>1
      <4>2. w \notin InHands(apc', loc', k) /\ w \notin InHands(apc, loc, k) BY <1>1, <4>1 DEF InHands
      <4>3. \A u \in Workers \ {w} : u \in InHands(apc', loc', k) <=> u \in InHands(apc, loc, k)
        BY <1>4 DEF InHands
      <4> QED BY <4>2, <4>3 DEF InHands
    <3>2. k \in 0..(current - 1) BY <1>6, <2>1
    <3> QED BY <1>1, <1>7, <3>1, <3>2 DEF KeptOnce
  <2>2. CASE k = current
    <3>1. InTrail(history, k) = {} BY <1>6, <1>7, <2>2 DEF KeptOnce, InTrail
    <3>2. InHands(apc', loc', k) = {w}
      <4>1. w \in InHands(apc', loc', k) BY <1>2, <1>3, <2>2 DEF InHands
      <4>2. ASSUME NEW u \in InHands(apc', loc', k) PROVE u = w
        BY <1>4, <1>5, <1>6, <2>2 DEF InHands
      <4> QED BY <4>1, <4>2
    <3>3. Cardinality(InTrail(history, k)) = 0 BY <3>1, FS_EmptySet
    <3>4. Cardinality(InHands(apc', loc', k)) = 1 BY <3>2, FS_Singleton
    <3> QED BY <1>1, <3>3, <3>4
  <2> QED BY <1>1, <1>6, <2>1, <2>2
<1>9. \A i \in DOMAIN history' : history'[i] < current'
  <2>1. \A i \in DOMAIN history : history[i] \in Nat /\ history[i] < current
    BY <1>7, AdTyped DEF KeptOnce
  <2> QED BY <1>1, <1>6, <2>1
<1> QED BY <1>8, <1>9, TrailIs DEF KeptOnce

LEMMA TrailPush == ASSUME AdTypes, AdminHands, TrailKept, NEW w \in Workers, push_history(w) PROVE TrailKept'
<1>1. /\ apc[w] = "push" /\ current' = current /\ history' = Append(history, loc[w].key)
      /\ on(w, "build", NoLocals)
  BY DEF push_history
<1>2. PICK z \in Nat : z = loc[w].key /\ z < current BY <1>1 DEF AdminHands, InHand
<1>3. Elsewhere(w) /\ apc'[w] = "build" BY <1>1, OnIs DEF Stands
<1>4. \A u \in Workers \ {w} : apc'[u] = apc[u] /\ loc'[u] = loc[u] BY <1>3 DEF Elsewhere
<1>5. KeptOnce(current, history, apc, loc) BY TrailIs
<1>6. PICK n \in Nat : n = Len(history) /\ DOMAIN history = 1..n BY AdTyped
<1>7. PICK h : h = history' OBVIOUS
<1>8. /\ DOMAIN h = 1..(n + 1) /\ h[n + 1] = z
      /\ \A i \in 1..n : h[i] = history[i]
  BY <1>1, <1>2, <1>6, <1>7, AdTyped
<1>9. ASSUME NEW k \in 0..(current - 1)
      PROVE  Cardinality(InTrail(h, k)) + Cardinality(InHands(apc', loc', k)) = 1
  <2>1. Cardinality(InTrail(history, k)) + Cardinality(InHands(apc, loc, k)) = 1 BY <1>5 DEF KeptOnce
  <2>2. CASE k # z
    <3>1. InTrail(h, k) = InTrail(history, k) BY <1>6, <1>8, <2>2 DEF InTrail
    <3>2. InHands(apc', loc', k) = InHands(apc, loc, k) BY <1>1, <1>2, <1>3, <1>4, <2>2 DEF InHands
    <3> QED BY <2>1, <3>1, <3>2
  <2>3. CASE k = z
    <3>1. InTrail(h, k) = InTrail(history, k) \cup {n + 1} /\ n + 1 \notin InTrail(history, k)
      BY <1>6, <1>8, <2>3 DEF InTrail
    <3>2. InHands(apc', loc', k) = InHands(apc, loc, k) \ {w} /\ w \in InHands(apc, loc, k)
      BY <1>1, <1>2, <1>3, <1>4, <2>3 DEF InHands
    <3>3. Cardinality(InTrail(h, k)) = Cardinality(InTrail(history, k)) + 1 BY <3>1, TrailFinite, FS_AddElement
    <3>4. Cardinality(InHands(apc', loc', k)) = Cardinality(InHands(apc, loc, k)) - 1
      BY <3>2, TrailFinite, FS_RemoveElement
    <3> QED BY <2>1, <3>3, <3>4, TrailFinite
  <2> QED BY <2>2, <2>3
<1>10. \A i \in DOMAIN h : h[i] < current
  <2>1. \A i \in 1..n : history[i] < current BY <1>5, <1>6 DEF KeptOnce
  <2> QED BY <1>2, <1>6, <1>8, <2>1
<1> QED BY <1>1, <1>7, <1>9, <1>10, TrailIs DEF KeptOnce

LEMMA TrailStep == ASSUME AdTypes, AdminHands, TrailKept, AdminNext PROVE TrailKept'
<1>1. CASE Aside
  <2>1. Apart("push") /\ current' = current /\ history' = history BY <1>1 DEF Aside, Apart
  <2> QED BY <2>1, TrailQuiet
<1>2. ASSUME NEW w \in Workers, take_usage(w) \/ issue(w) PROVE TrailKept'
  <2>1. current' = current /\ history' = history /\ apc[w] # "push" BY <1>2 DEF take_usage, issue
  <2>2. \E to \in {"issue"} : \E l, r : on(w, to, l) \/ respond(w, r) BY <1>2 DEF take_usage, issue
  <2>3. Elsewhere(w) /\ apc'[w] # "push" BY <2>2, OnIs, RespondIs DEF Stands
  <2>4. Apart("push") BY <2>1, <2>3 DEF Elsewhere, Apart
  <2> QED BY <2>1, <2>4, TrailQuiet
<1>3. ASSUME NEW k \in Metered, dataPlane(k) PROVE TrailKept'
  <2>1. Apart("push") /\ current' = current /\ history' = history BY <1>3 DEF dataPlane, Apart
  <2> QED BY <2>1, TrailQuiet
<1> QED BY <1>1, <1>2, <1>3, AdminKinds, TrailSwap, TrailPush

-----------------------------------------------------------------------------
\* The receipts in order.
LogInv == LogInOrder /\ \A i \in DOMAIN log : log[i].by <= current

LEMMA LogTyped ==
    ASSUME AdTypes, NEW i \in DOMAIN log
    PROVE  log[i].kind \in Metered /\ log[i].units \in Nat /\ log[i].by \in Nat
<1>1. log[i] \in Invoice BY DEF AdTypes
<1> QED BY <1>1 DEF Invoice

LEMMA LogQuiet == ASSUME AdTypes, LogInv, log' = log, current' \in Nat, current' >= current PROVE LogInv'
<1>1. \A i \in DOMAIN log : log[i].by \in Nat BY LogTyped
<1>2. \A i \in DOMAIN log : log[i].by <= current' BY <1>1, AdTyped DEF LogInv
<1> QED BY <1>2 DEF LogInv, LogInOrder

\* The log with the receipts of a run at its end.
LEMMA LogGrows ==
    ASSUME AdTypes, AdminHands, NEW w \in Workers, issue(w)
    PROVE  \E n \in Nat, R \in Seq(Invoice) :
             /\ BilledOnce(R, n, w, current)
             /\ DOMAIN log' = 1..(Len(log) + n) /\ Len(log) \in Nat /\ DOMAIN log = 1..Len(log)
             /\ \A i \in 1..Len(log) : log'[i] = log[i]
             /\ \A j \in 1..n : log'[Len(log) + j] = R[j]
<1>1. log' = log \o ReceiptsFor(w, current) /\ apc[w] = "issue" BY DEF issue
<1>2. loc[w].usage \in [Metered -> Nat] /\ Payable(loc[w].signed.schedule, loc[w].usage)
  BY <1>1 DEF AdminHands, InHand
<1>3. PICK R : R = ReceiptsFor(w, current) OBVIOUS
<1>4. PICK n : BilledOnce(R, n, w, current) BY <1>2, <1>3, AdTyped, ReceiptsAre
<1>5. n \in Nat /\ R \in Seq(Invoice) /\ Len(R) = n BY <1>4 DEF BilledOnce
<1>6. PICK l \in Nat : l = Len(log) /\ DOMAIN log = 1..l BY AdTyped
<1>7. /\ log' \in Seq(Invoice) /\ Len(log') = l + n
      /\ \A i \in 1..(l + n) : log'[i] = IF i <= l THEN log[i] ELSE R[i - l]
  BY <1>1, <1>3, <1>5, <1>6, AdTyped, ConcatProperties
<1>8. DOMAIN log' = 1..(l + n) BY <1>7
<1>9. \A i \in 1..l : log'[i] = log[i] BY <1>5, <1>6, <1>7
<1>10. ASSUME NEW j \in 1..n PROVE log'[l + j] = R[j]
  <2>1. l + j \in 1..(l + n) /\ ~(l + j <= l) /\ (l + j) - l = j BY <1>5, <1>6
  <2> QED BY <1>7, <2>1
<1> QED BY <1>4, <1>5, <1>6, <1>8, <1>9, <1>10

LEMMA LogIssue == ASSUME AdTypes, AdminHands, LogInv, NEW w \in Workers, issue(w) PROVE LogInv'
<1>1. PICK n \in Nat, R \in Seq(Invoice) :
        /\ BilledOnce(R, n, w, current)
        /\ DOMAIN log' = 1..(Len(log) + n) /\ Len(log) \in Nat /\ DOMAIN log = 1..Len(log)
        /\ \A i \in 1..Len(log) : log'[i] = log[i]
        /\ \A j \in 1..n : log'[Len(log) + j] = R[j]
  BY LogGrows
<1>2. PICK l \in Nat : l = Len(log) BY <1>1
<1>3. current \in Nat /\ current' = current BY AdTyped DEF issue
<1>4. \A j \in 1..n : R[j].sequence = l + j - 1 /\ R[j].by = current BY <1>1, <1>2 DEF BilledOnce
<1>5. \A i \in 1..l : log[i].sequence = i - 1 /\ log[i].by \in Nat /\ log[i].by <= current
  BY <1>1, <1>2, LogTyped DEF LogInv, LogInOrder
<1>6. PICK L : L = log' OBVIOUS
<1>7. ASSUME NEW i \in 1..(l + n)
      PROVE  L[i].sequence = i - 1 /\ L[i].by \in Nat /\ L[i].by <= current /\ (i > l => L[i].by = current)
  <2>1. CASE i <= l BY <1>1, <1>2, <1>3, <1>5, <1>6, <2>1
  <2>2. CASE i > l
    <3>1. PICK j \in 1..n : i = l + j
      <4>1. i - l \in 1..n /\ i = l + (i - l) BY <2>2
      <4> QED BY <4>1
    <3>2. L[i] = R[j] BY <1>1, <1>2, <1>6, <3>1
    <3> QED BY <1>3, <1>4, <3>1, <3>2
  <2> QED BY <2>1, <2>2
<1>8. ASSUME NEW i \in 1..(l + n), NEW j \in 1..(l + n), i < j PROVE L[i].by <= L[j].by
  <2>1. CASE j <= l
    <3>1. i \in 1..l /\ j \in 1..l BY <1>8, <2>1
    <3>2. log[i].by <= log[j].by BY <1>1, <1>2, <1>8, <3>1 DEF LogInv, LogInOrder
    <3> QED BY <1>1, <1>2, <1>6, <3>1, <3>2
  <2>2. CASE j > l BY <1>7, <2>2
  <2> QED BY <2>1, <2>2
<1> QED BY <1>1, <1>2, <1>3, <1>6, <1>7, <1>8 DEF LogInv, LogInOrder

LEMMA LogStep == ASSUME AdTypes, AdminHands, LogInv, AdminNext PROVE LogInv'
<1>1. CASE Aside BY <1>1, AdTyped, LogQuiet DEF Aside
<1>2. ASSUME NEW w \in Workers, swap(w) \/ push_history(w) \/ take_usage(w) PROVE LogInv'
  <2>1. log' = log /\ current' \in Nat /\ current' >= current BY <1>2, AdTyped DEF swap, push_history, take_usage
  <2> QED BY <2>1, LogQuiet
<1>3. ASSUME NEW k \in Metered, dataPlane(k) PROVE LogInv' BY <1>3, AdTyped, LogQuiet DEF dataPlane
<1> QED BY <1>1, <1>2, <1>3, AdminKinds, LogIssue

-----------------------------------------------------------------------------
\* The metered units: of a kind, in the log and in the hands of runs.
LoggedOf(k) == [i \in DOMAIN log |-> IF log[i].kind = k THEN log[i].units ELSE 0]
TakenOf(k) == [w \in Workers |-> IF apc[w] = "issue" THEN loc[w].usage[k] ELSE 0]
Accounted(k) == recorded[k] = adMeter[k] + lost[k] + SumFunction(LoggedOf(k)) + SumFunction(TakenOf(k))

LEMMA AccountedIs == (UsageAccounted <=> \A k \in Metered : Accounted(k))
BY DEF UsageAccounted, Accounted, LoggedOf, TakenOf

LEMMA UnitTypes ==
    ASSUME AdTypes, AdminHands, NEW k \in Metered
    PROVE  /\ LoggedOf(k) \in [DOMAIN log -> Nat] /\ SumFunction(LoggedOf(k)) \in Nat
           /\ TakenOf(k) \in [Workers -> Nat] /\ SumFunction(TakenOf(k)) \in Nat
           /\ recorded[k] \in Nat /\ adMeter[k] \in Nat /\ lost[k] \in Nat
<1>1. LoggedOf(k) \in [DOMAIN log -> Nat] BY LogTyped DEF LoggedOf
<1>2. \A w \in Workers : apc[w] = "issue" => loc[w].usage[k] \in Nat BY DEF AdminHands, InHand
<1>3. TakenOf(k) \in [Workers -> Nat] BY <1>2 DEF TakenOf
<1>4. IsFiniteSet(DOMAIN log)
  <2>1. PICK n \in Nat : DOMAIN log = 1..n BY AdTyped
  <2> QED BY <2>1, FS_Interval
<1> QED BY <1>1, <1>3, <1>4, AdminAssumption, SumFunctionType DEF AdTypes

LEMMA TakenSame == ASSUME Apart("issue"), NEW k \in Metered PROVE TakenOf(k)' = TakenOf(k)
BY DEF Apart, TakenOf

LEMMA AccountedSame ==
    ASSUME Apart("issue"), NEW k \in Metered, Accounted(k), log' = log,
           recorded' = recorded, adMeter' = adMeter, lost' = lost
    PROVE  Accounted(k)'
<1>1. LoggedOf(k)' = LoggedOf(k) BY DEF LoggedOf
<1>2. TakenOf(k)' = TakenOf(k) BY TakenSame
<1>3. (SumFunction(LoggedOf(k)))' = SumFunction(LoggedOf(k)) BY <1>1
<1>4. (SumFunction(TakenOf(k)))' = SumFunction(TakenOf(k)) BY <1>2
<1> QED BY <1>3, <1>4 DEF Accounted

LEMMA DataAccounts ==
    ASSUME AdTypes, AdminHands, UsageAccounted, NEW j \in Metered, dataPlane(j), NEW k \in Metered
    PROVE  Accounted(k)'
<1>1. /\ adMeter' = [adMeter EXCEPT ![j] = adMeter[j] + 1] /\ recorded' = [recorded EXCEPT ![j] = recorded[j] + 1]
      /\ UNCHANGED <<log, apc, loc, lost>>
  BY DEF dataPlane
<1>2. Apart("issue") BY <1>1 DEF Apart
<1>3. (SumFunction(LoggedOf(k)))' = SumFunction(LoggedOf(k))
  <2>1. LoggedOf(k)' = LoggedOf(k) BY <1>1 DEF LoggedOf
  <2> QED BY <2>1
<1>4. (SumFunction(TakenOf(k)))' = SumFunction(TakenOf(k))
  <2>1. TakenOf(k)' = TakenOf(k) BY <1>2, TakenSame
  <2> QED BY <2>1
<1>5. PICK x, y : x = SumFunction(LoggedOf(k)) /\ y = SumFunction(TakenOf(k)) OBVIOUS
<1>6. /\ x \in Nat /\ y \in Nat /\ recorded[k] = adMeter[k] + lost[k] + x + y
      /\ recorded[k] \in Nat /\ adMeter[k] \in Nat /\ lost[k] \in Nat
  BY <1>5, UnitTypes, AccountedIs DEF Accounted
<1>7. \/ recorded'[k] = recorded[k] /\ adMeter'[k] = adMeter[k]
      \/ recorded'[k] = recorded[k] + 1 /\ adMeter'[k] = adMeter[k] + 1
  BY <1>1 DEF AdTypes
<1>8. recorded'[k] = adMeter'[k] + lost'[k] + x + y BY <1>1, <1>6, <1>7
<1> QED BY <1>3, <1>4, <1>5, <1>8 DEF Accounted

LEMMA TakeAccounts ==
    ASSUME AdTypes, AdminHands, UsageAccounted, AdTypes', AdminHands', NEW w \in Workers, take_usage(w),
           NEW k \in Metered
    PROVE  Accounted(k)'
<1>1. adMeter' = NoUnits /\ log' = log /\ recorded' = recorded /\ apc[w] = "take_usage" BY DEF take_usage
<1>2. adMeter'[k] = 0 BY <1>1 DEF NoUnits
<1>3. (SumFunction(LoggedOf(k)))' = SumFunction(LoggedOf(k))
  <2>1. LoggedOf(k)' = LoggedOf(k) BY <1>1 DEF LoggedOf
  <2> QED BY <2>1
<1>4. PICK x, y : x = SumFunction(LoggedOf(k)) /\ y = SumFunction(TakenOf(k)) OBVIOUS
<1>5. /\ x \in Nat /\ y \in Nat /\ recorded[k] = adMeter[k] + lost[k] + x + y
      /\ recorded[k] \in Nat /\ adMeter[k] \in Nat /\ lost[k] \in Nat
  BY <1>4, UnitTypes, AccountedIs DEF Accounted
<1>6. CASE ~BillOf(w, adMeter).ok
  <2>1. respond(w, Status(400)) /\ lost' = [j \in Metered |-> lost[j] + adMeter[j]] BY <1>6 DEF take_usage
  <2>2. Elsewhere(w) /\ apc'[w] = "idle" BY <2>1, RespondIs
  <2>3. Apart("issue") BY <1>1, <2>2 DEF Apart, Elsewhere
  <2>4. (SumFunction(TakenOf(k)))' = y
    <3>1. TakenOf(k)' = TakenOf(k) BY <2>3, TakenSame
    <3> QED BY <1>4, <3>1
  <2>5. lost'[k] = lost[k] + adMeter[k] BY <2>1
  <2>6. recorded'[k] = adMeter'[k] + lost'[k] + x + y BY <1>1, <1>2, <1>5, <2>5
  <2> QED BY <1>3, <1>4, <2>4, <2>6 DEF Accounted
<1>7. CASE BillOf(w, adMeter).ok
  <2>1. lost' = lost /\ on(w, "issue", [loc[w] EXCEPT !.usage = adMeter, !.key = current])
    BY <1>7 DEF take_usage
  <2>2. PICK l : l = [loc[w] EXCEPT !.usage = adMeter, !.key = current] /\ l.usage = adMeter
    <3>1. PICK L : L = loc[w] /\ DOMAIN L = {"key", "signed", "usage"} BY <1>1 DEF AdminHands, InHand
    <3>2. PICK l : l = [L EXCEPT !.usage = adMeter, !.key = current] OBVIOUS
    <3>3. l.usage = adMeter BY <3>1, <3>2, LocalsTake
    <3> QED BY <3>1, <3>2, <3>3
  <2>3. Elsewhere(w) /\ apc'[w] = "issue" /\ loc'[w] = l BY <2>1, <2>2, OnIs DEF Stands
  <2>4. PICK f, g : f = TakenOf(k) /\ g = TakenOf(k)' OBVIOUS
  <2>5. f \in [Workers -> Nat] /\ g \in [Workers -> Nat]
    <3>1. g \in [Workers -> Nat]
      <4>1. (TakenOf(k) \in [Workers -> Nat])' BY UnitTypes, PTL
      <4> QED BY <2>4, <4>1
    <3> QED BY <2>4, <3>1, UnitTypes
  <2>6. f[w] = 0 /\ g[w] = adMeter[k] BY <1>1, <2>2, <2>3, <2>4 DEF TakenOf
  <2>7. \A u \in Workers \ {w} : g[u] = f[u] BY <2>3, <2>4 DEF TakenOf, Elsewhere
  <2>8. SumFunction(g) + f[w] = SumFunction(f) + g[w] /\ SumFunction(g) \in Nat
    BY <2>5, <2>7, AdminAssumption, SumFunctionChange
  <2>9. PICK z \in Nat : z = SumFunction(g) BY <2>8
  <2>10. z = y + adMeter[k] BY <1>4, <1>5, <2>4, <2>6, <2>8, <2>9
  <2>11. recorded'[k] = adMeter'[k] + lost'[k] + x + z BY <1>1, <1>2, <1>5, <2>1, <2>10
  <2>12. (SumFunction(TakenOf(k)))' = z BY <2>4, <2>9
  <2> QED BY <1>3, <1>4, <2>11, <2>12 DEF Accounted
<1> QED BY <1>6, <1>7

\* What a run puts on receipts is what it took.
LEMMA LoggedGrows ==
    ASSUME AdTypes, AdminHands, NEW w \in Workers, issue(w), NEW k \in Metered
    PROVE  (SumFunction(LoggedOf(k)))' = SumFunction(LoggedOf(k)) + loc[w].usage[k]
<1>1. PICK n \in Nat, R \in Seq(Invoice) :
        /\ BilledOnce(R, n, w, current)
        /\ DOMAIN log' = 1..(Len(log) + n) /\ Len(log) \in Nat /\ DOMAIN log = 1..Len(log)
        /\ \A i \in 1..Len(log) : log'[i] = log[i]
        /\ \A j \in 1..n : log'[Len(log) + j] = R[j]
  BY LogGrows
<1>2. PICK m \in Nat : m = Len(log) BY <1>1
<1>3. PICK usage \in [Metered -> Nat] : usage = loc[w].usage BY DEF issue, AdminHands, InHand
<1>4. /\ \A j \in 1..n : R[j].kind \in UsedOf(usage) /\ R[j].units = usage[R[j].kind]
      /\ \A i, j \in 1..n : R[i].kind = R[j].kind => i = j
      /\ \A x \in UsedOf(usage) : \E i \in 1..n : R[i].kind = x
  BY <1>1, <1>3 DEF BilledOnce
<1>5. PICK f : f = LoggedOf(k) OBVIOUS
<1>6. f \in [1..m -> Nat] BY <1>1, <1>2, <1>5, UnitTypes
<1>7. PICK g : g = [i \in 1..(m + n) |-> IF log'[i].kind = k THEN log'[i].units ELSE 0] OBVIOUS
<1>8. (LoggedOf(k))' = g BY <1>1, <1>2, <1>7 DEF LoggedOf
<1>9. \A i \in 1..m : g[i] = f[i] BY <1>1, <1>2, <1>5, <1>7 DEF LoggedOf
<1>10. \A j \in 1..n : g[m + j] = IF R[j].kind = k THEN usage[k] ELSE 0 BY <1>1, <1>2, <1>4, <1>7
<1>11. g \in [1..(m + n) -> Nat]
  <2>1. ASSUME NEW i \in 1..(m + n) PROVE g[i] \in Nat
    <3>1. CASE i <= m BY <1>6, <1>9, <3>1
    <3>2. CASE i > m
      <4>1. PICK j \in 1..n : i = m + j
        <5>1. i - m \in 1..n /\ i = m + (i - m) BY <3>2
        <5> QED BY <5>1
      <4>2. usage[k] \in Nat BY <1>3
      <4>3. g[m + j] = IF R[j].kind = k THEN usage[k] ELSE 0 BY <1>10
      <4> QED BY <4>1, <4>2, <4>3
    <3> QED BY <3>1, <3>2
  <2> QED BY <1>7, <2>1
<1>12. SumFunction(g) = SumFunction(f) + SumOver(g, (m + 1)..(m + n)) BY <1>6, <1>9, <1>11, SumGrows
<1>13. PICK S : S = (m + 1)..(m + n) OBVIOUS
<1>14. IsFiniteSet(S) BY <1>13, FS_Interval
<1>15. \A i \in S : \E j \in 1..n : i = m + j
  <2> TAKE i \in S
  <2>1. i - m \in 1..n /\ i = m + (i - m) BY <1>13
  <2> QED BY <2>1
<1>16. SumOver(g, S) = usage[k]
  <2>1. CASE k \in UsedOf(usage)
    <3>1. PICK j \in 1..n : R[j].kind = k BY <1>4, <2>1
    <3>2. PICK y \in S : y = m + j
      <4>1. m + j \in S BY <1>13
      <4> QED BY <4>1
    <3>3. g[y] = usage[k] /\ g[y] \in Nat BY <1>3, <1>10, <3>1, <3>2
    <3>4. ASSUME NEW i \in S \ {y} PROVE g[i] = 0
      <4>1. PICK h \in 1..n : i = m + h BY <1>15
      <4>2. h # j BY <3>2, <4>1
      <4>3. R[h].kind # k BY <1>4, <3>1, <4>2
      <4> QED BY <1>10, <4>1, <4>3
    <3>5. SumOver(g, S) = g[y] BY <1>14, <3>3, <3>4, SumOne
    <3> QED BY <3>3, <3>5
  <2>2. CASE k \notin UsedOf(usage)
    <3>1. usage[k] = 0 BY <1>3, <2>2 DEF UsedOf
    <3>2. ASSUME NEW i \in S PROVE g[i] = 0
      <4>1. PICK h \in 1..n : i = m + h BY <1>15
      <4>2. R[h].kind # k BY <1>4, <2>2
      <4>3. g[m + h] = IF R[h].kind = k THEN usage[k] ELSE 0 BY <1>10
      <4> QED BY <4>1, <4>2, <4>3
    <3>3. SumOver(g, S) = 0 BY <1>14, <3>2, SumZero
    <3> QED BY <3>1, <3>3
  <2> QED BY <2>1, <2>2
<1>17. (SumFunction(LoggedOf(k)))' = SumFunction(g) BY <1>8
<1> QED BY <1>3, <1>5, <1>12, <1>13, <1>16, <1>17

LEMMA IssueAccounts ==
    ASSUME AdTypes, AdminHands, UsageAccounted, AdTypes', AdminHands', NEW w \in Workers, issue(w), NEW k \in Metered
    PROVE  Accounted(k)'
<1>1. adMeter' = adMeter /\ lost' = lost /\ recorded' = recorded /\ apc[w] = "issue" /\ respond(w, Status(200))
  BY DEF issue
<1>2. PICK x, y : x = SumFunction(LoggedOf(k)) /\ y = SumFunction(TakenOf(k)) OBVIOUS
<1>3. /\ x \in Nat /\ y \in Nat /\ recorded[k] = adMeter[k] + lost[k] + x + y
      /\ recorded[k] \in Nat /\ adMeter[k] \in Nat /\ lost[k] \in Nat
  BY <1>2, UnitTypes, AccountedIs DEF Accounted
<1>4. PICK v \in Nat : v = loc[w].usage[k] BY <1>1 DEF AdminHands, InHand
<1>5. (SumFunction(LoggedOf(k)))' = x + v BY <1>2, <1>4, LoggedGrows
<1>6. Elsewhere(w) /\ apc'[w] = "idle" BY <1>1, RespondIs
<1>7. PICK f, g : f = TakenOf(k) /\ g = TakenOf(k)' OBVIOUS
<1>8. f \in [Workers -> Nat] /\ g \in [Workers -> Nat]
  <2>1. (TakenOf(k) \in [Workers -> Nat])' BY UnitTypes, PTL
  <2> QED BY <1>7, <2>1, UnitTypes
<1>9. f[w] = v /\ g[w] = 0 BY <1>1, <1>4, <1>6, <1>7 DEF TakenOf
<1>10. \A u \in Workers \ {w} : g[u] = f[u] BY <1>6, <1>7 DEF TakenOf, Elsewhere
<1>11. SumFunction(g) + f[w] = SumFunction(f) + g[w] /\ SumFunction(g) \in Nat
  BY <1>8, <1>10, AdminAssumption, SumFunctionChange
<1>12. PICK z \in Nat : z = SumFunction(g) BY <1>11
<1>13. z + v = y BY <1>2, <1>3, <1>7, <1>9, <1>11, <1>12
<1>14. recorded'[k] = adMeter'[k] + lost'[k] + (x + v) + z BY <1>1, <1>3, <1>13
<1>15. (SumFunction(TakenOf(k)))' = z BY <1>7, <1>12
<1> QED BY <1>5, <1>14, <1>15 DEF Accounted

LEMMA UsageStep ==
    ASSUME AdTypes, AdminHands, UsageAccounted, AdTypes', AdminHands', AdminNext PROVE UsageAccounted'
<1>1. SUFFICES ASSUME NEW k \in Metered PROVE Accounted(k)'
  <2>1. UsageAccounted' <=> \A k \in Metered : Accounted(k)' BY DEF UsageAccounted, Accounted, LoggedOf, TakenOf
  <2> QED BY <2>1
<1>2. Accounted(k) BY AccountedIs
<1>3. CASE Aside
  <2>1. Apart("issue") /\ log' = log /\ recorded' = recorded /\ adMeter' = adMeter /\ lost' = lost
    BY <1>3 DEF Aside, Apart
  <2> QED BY <1>2, <2>1, AccountedSame
<1>4. ASSUME NEW w \in Workers, swap(w) \/ push_history(w) PROVE Accounted(k)'
  <2>1. /\ log' = log /\ recorded' = recorded /\ adMeter' = adMeter /\ lost' = lost
        /\ apc[w] # "issue" /\ \E to \in {"push", "build"} : \E l : on(w, to, l)
    BY <1>4 DEF swap, push_history
  <2>2. Elsewhere(w) /\ apc'[w] # "issue" BY <2>1, OnIs DEF Stands
  <2>3. Apart("issue") BY <2>1, <2>2 DEF Elsewhere, Apart
  <2> QED BY <1>2, <2>1, <2>3, AccountedSame
<1> QED BY <1>3, <1>4, AdminKinds, DataAccounts, TakeAccounts, IssueAccounts

-----------------------------------------------------------------------------
\* What pier-admin keeps, in every state and step.
AdminInv == AdTypes /\ AdminHands /\ TrailKept /\ LogInv /\ UsageAccounted

LEMMA AdminInitInv == AdminInit => AdminInv
<1> SUFFICES ASSUME AdminInit PROVE AdminInv OBVIOUS
<1>1. AdTypes /\ AdminHands BY AdminInitTypes
<1>2. TrailKept /\ LogInv BY DEF AdminInit, TrailKept, LogInv, LogInOrder
<1>3. ASSUME NEW k \in Metered PROVE Accounted(k)
  <2>1. recorded[k] = 0 /\ adMeter[k] = 0 /\ lost[k] = 0 BY DEF AdminInit, NoUnits
  <2>2. SumFunction(LoggedOf(k)) = 0
    <3>1. PICK f : f = LoggedOf(k) OBVIOUS
    <3>2. DOMAIN f = {} BY <3>1 DEF LoggedOf, AdminInit
    <3> QED BY <3>1, <3>2, FS_EmptySet, SumFunctionZero
  <2>3. SumFunction(TakenOf(k)) = 0
    <3>1. PICK f : f = TakenOf(k) OBVIOUS
    <3>2. DOMAIN f = Workers /\ \A w \in Workers : f[w] = 0 BY <3>1 DEF TakenOf, AdminInit
    <3> QED BY <3>1, <3>2, AdminAssumption, SumFunctionZero
  <2> QED BY <2>1, <2>2, <2>3 DEF Accounted
<1> QED BY <1>1, <1>2, <1>3, AccountedIs DEF AdminInv

LEMMA AdminInvStill == ASSUME AdminInv, UNCHANGED adminVars PROVE AdminInv'
<1>1. /\ UNCHANGED <<token, visibility, current, history, tariff, log, apc, req, loc, response, turned, moved, lost>>
      /\ adMeter' = adMeter /\ recorded' = recorded
  BY DEF adminVars
<1>2. AdTypes' /\ AdminHands' BY <1>1, HandsStill DEF AdminInv, AdTypes
<1>3. TrailKept' /\ LogInv' /\ UsageAccounted' BY <1>1 DEF AdminInv, TrailKept, LogInv, LogInOrder, UsageAccounted
<1> QED BY <1>2, <1>3 DEF AdminInv

LEMMA AdminInvStep == ASSUME AdminInv, AdminNext PROVE AdminInv'
BY AdminStep, TrailStep, LogStep, UsageStep DEF AdminInv

LEMMA AdminFollows ==
    ASSUME AdminInv PROVE AdminTypeOK /\ DescriptorVerifies /\ TrailKept /\ UsageAccounted /\ LogInOrder
<1>1. AdminTypeOK
  <2>1. tariff.by \in -1..current
    <3>1. Unset.by = -1 BY DEF Unset
    <3> QED BY <3>1, AdTyped DEF AdminInv, AdminHands
  <2> QED BY <2>1, AdTyped DEF AdminInv, AdminHands, AdminTypeOK, InHand, Levels
<1>2. DescriptorVerifies BY DEF AdminInv, AdminHands, InHand, DescriptorVerifies
<1> QED BY <1>1, <1>2 DEF AdminInv, LogInv

\* A downgrade was said, or the declared one moved after the check.
LEMMA AdminDowngrade ==
    ASSUME AdminInv, NEW w \in Workers, set(w), is_downgrade(visibility, visibility')
    PROVE  req[w].confirm_downgrade \/ moved[w]
<1>1. apc[w] = "set" /\ visibility' = req[w].visibility BY DEF set
<1>2. InHand(w) BY DEF AdminInv, AdminHands
<1>3. (moved[w] = TRUE) \/ (req[w].confirm_downgrade = TRUE) \/ ~is_downgrade(visibility, req[w].visibility)
  BY <1>1, <1>2 DEF InHand
<1> QED BY <1>1, <1>3

\* Requests to pier-admin, interleaved between its locks, keep the trail of keys, number the
\* receipts in order under keys that do not go back and account for every metered unit; a served
\* descriptor verifies unless the key turned under it, and the declared visibility weakens only
\* on a confirmed request or one that was overtaken, for any workers, kinds, schedules and bounds.
THEOREM AdminIsSound == MCSpec => AdminSound
<1>1. MCInit => AdminInv BY AdminInitInv DEF MCInit, StillAdmin
<1>2. ASSUME AdminInv, [MCNext]_billingVars PROVE AdminInv'
  <2>1. AdminNext \/ UNCHANGED adminVars BY <1>2 DEF MCNext, billingVars
  <2> QED BY <1>2, <2>1, AdminInvStep, AdminInvStill
<1>3. ASSUME AdminInv, [MCNext]_billingVars
      PROVE  [\A w \in Workers :
                 LET old == visibility  new == visibility'
                 IN  set(w) /\ (new[1] > old[1] \/ (new[1] = old[1] /\ new[2] > old[2]))
                         => req[w].confirm_downgrade \/ moved[w]]_adminVars
  <2>1. \A w \in Workers : set(w) /\ is_downgrade(visibility, visibility') => req[w].confirm_downgrade \/ moved[w]
    BY <1>3, AdminDowngrade
  <2> QED BY <2>1 DEF is_downgrade
<1>4. AdminInv => AdminTypeOK /\ DescriptorVerifies /\ TrailKept /\ UsageAccounted /\ LogInOrder BY AdminFollows
<1> QED BY <1>1, <1>2, <1>3, <1>4, PTL DEF MCSpec, billingVars, AdminSound, NoSilentDowngrade

=============================================================================
