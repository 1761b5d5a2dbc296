--------------------------- MODULE PaymentRecordsProofs ---------------------------
(***************************************************************************)
(* Proofs that ledger and outbox tell the same story as the tables, for    *)
(* any ids, amounts, workers and bound.  RecordsInv is inductive relative  *)
(* to IInv: requests and statements only change what a transaction holds   *)
(* back, a commit adds it to rows it agrees with.                          *)
(***************************************************************************)
EXTENDS PaymentCoreProofs, FiniteSums

-----------------------------------------------------------------------------
(* Why ledger and outbox tell the same story as the tables: what every     *)
(* committed row stands for, and what every open transaction will add.     *)

\* Each entry of the ledger stands for a row, no two for the same creation or
\* capture, and each row has its entry.
LedgerSound ==
    /\ \A e \in ledger :
        /\ e.type = "payment_created" => status[e.payment] # "none"
        /\ e.type = "payment_captured" => status[e.payment] \in Refundable
        /\ e.type \in {"payment_created", "payment_captured"} =>
               e.amount = amount[e.payment] /\ e.refund = None
        /\ e.refund \in Refunds =>
               /\ refund[e.refund].state # "none"
               /\ refund[e.refund].payment = e.payment
               /\ refund[e.refund].amount = e.amount
    /\ \A d, e \in ledger :
        e.type \in {"payment_created", "payment_captured"} /\ d.type = e.type
            /\ d.payment = e.payment => d = e
    /\ \A p \in Payments :
        /\ status[p] # "none" => EntriesFor("payment_created", p) # {}
        /\ status[p] \in Refundable => EntriesFor("payment_captured", p) # {}
    /\ \A r \in Refunds : refund[r].state # "none" => \E e \in ledger : e.refund = r

Reports(type, x) == {d \in outbox : d.type = type /\ d.entity = x}

\* Each event stands for a row, each row has its events, and the last status event
\* of a payment exists.
OutboxSound ==
    /\ \A d \in outbox :
        /\ d.type = "customer.deleted" =>
               d.entity \in Customers /\ customer[d.entity] = "deleted"
        /\ d.type = "refund.initiated" =>
               d.entity \in Refunds /\ refund[d.entity].state # "none"
        /\ d.entity \in Payments => status[d.entity] # "none"
    /\ \A c \in Customers : customer[c] # "absent" => Reports("customer.created", c) # {}
    /\ \A p \in Payments :
        /\ status[p] # "none" =>
            /\ Reports("payment.created", p) # {}
            /\ \E d \in StatusEvents(p) : \A x \in StatusEvents(p) : x.stamp <= d.stamp
        /\ status[p] \in Refundable => Reports("payment.captured", p) # {}
    /\ OutboxTellsStatus
    /\ OutboxCausal

\* What a request reports, and of which row.
Announces(t) ==
    CASE t.op = "create_customer" -> "customer.created"
      [] t.op = "update_customer" -> "customer.updated"
      [] t.op = "delete_customer" -> "customer.deleted"
      [] t.op = "create_payment" -> "payment.created"
      [] t.op = "transition_payment" -> event_type_map[t.target]
      [] t.op = "update_payment" -> "payment.updated"
      [] t.op = "create_refund" -> "refund.initiated"
      [] t.op = "process_refund" -> "refund.processed"

Subject(t) ==
    CASE t.op \in {"create_customer", "update_customer", "delete_customer"} -> t.customer
      [] t.op \in {"create_payment", "transition_payment", "update_payment"} -> t.payment
      [] t.op \in {"create_refund", "process_refund"} -> t.refund

OneEntry(t, type, r, a) ==
    \E e \in t.entry : /\ t.entry = {e}
                       /\ e.type = type /\ e.payment = t.payment
                       /\ e.refund = r /\ e.amount = a

\* The ledger rows an open transaction holds back.
EntryPending(t) ==
    CASE t.op = "create_payment" -> OneEntry(t, "payment_created", None, t.amount)
      [] t.op = "transition_payment" /\ t.target = "captured" ->
            OneEntry(t, "payment_captured", None, amount[t.payment])
      [] t.op = "create_refund" -> OneEntry(t, "refund_issued", t.refund, t.amount)
      [] OTHER -> t.entry = {}

\* The events that must come before e have been committed, with smaller stamps.
CauseCommitted(t, e) ==
    /\ \A d \in outbox : d.entity = e.entity => d.stamp < e.stamp
    /\ t.op = "create_payment" =>
        \E d \in Reports("customer.created", t.customer) : d.stamp < e.stamp
    /\ t.op \in {"transition_payment", "update_payment"} =>
        \E d \in Reports("customer.created", owner[t.payment]) : d.stamp < e.stamp
    /\ t.op = "create_refund" =>
        \E d \in Reports("payment.captured", t.payment) : d.stamp < e.stamp

\* An open transaction holds back exactly the rows of its request.
PendingSound(t) ==
    /\ t.step # "commit" => t.entry = {} /\ t.event = {}
    /\ t.step = "commit" =>
        /\ EntryPending(t)
        /\ \E e \in t.event : /\ t.event = {e}
                              /\ e.type = Announces(t) /\ e.entity = Subject(t)
                              /\ CauseCommitted(t, e)
    /\ t.op \in {"transition_payment", "update_payment"} => status[t.payment] # "none"
    /\ t.op = "update_customer" /\ t.step = "commit" => customer[t.customer] = "live"

\* The row lock of an UPDATE or DELETE of a customer is exclusive.
OneWriter ==
    \A v, w \in Workers : v # w =>
        \A c \in Customers : ~(LocksCustomer(tx[v], c) /\ LocksCustomer(tx[w], c))

\* The refunds of a payment are finitely many, a refund that does not exist yet
\* belongs to none, and amount_refunded is their sum.
ReservedInv ==
    /\ RefundsReserved
    /\ \A p \in Payments : IsFiniteSet(RefundsOf(p))
    /\ \A r \in Refunds : refund[r].state = "none" => refund[r].payment = None

\* The inductive invariant of the records, next to IInv.
RecordsInv ==
    /\ LedgerSound
    /\ OutboxSound
    /\ \A w \in Workers : PendingSound(tx[w])
    /\ OneWriter

-----------------------------------------------------------------------------
(* Steps that commit nothing                                               *)

\* Replacing one transaction by one whose pending rows are sound.
LEMMA RecordsTx ==
    ASSUME RecordsInv, NEW w \in Workers, OnlyTx(w), UNCHANGED <<tables, ledger, outbox>>,
           PendingSound(tx'[w]),
           \A v \in Workers, c \in Customers :
               v # w => ~(LocksCustomer(tx[v], c) /\ LocksCustomer(tx'[w], c))
    PROVE  RecordsInv'
<1>1. LedgerSound'
  BY DEF RecordsInv, LedgerSound, tables, EntriesFor
<1>2. OutboxSound'
  BY DEF RecordsInv, OutboxSound, OutboxTellsStatus, OutboxCausal, tables, StatusEvents, Before,
         Reports
<1>3. ASSUME NEW t, PendingSound(t) PROVE PendingSound(t)'
  BY <1>3 DEF PendingSound, EntryPending, OneEntry, CauseCommitted, Reports, tables
<1>4. \A v \in Workers : PendingSound(tx[v])'
  BY <1>3 DEF RecordsInv, OnlyTx
<1>5. OneWriter'
  BY DEF RecordsInv, OneWriter, OnlyTx
<1>6. QED
  BY <1>1, <1>2, <1>4, <1>5 DEF RecordsInv

\* A transaction that begins holds nothing back yet.
LEMMA RecordsBegin ==
    ASSUME IInv, RecordsInv, NEW w \in Workers, NEW op \in Op, NEW step \in {"lock", "write", "insert"},
           NEW c, NEW p, NEW r, NEW a, NEW target,
           Begin(w, NewTx(op, step, c, p, r, a, target)),
           op \in {"transition_payment", "update_payment"} => status[p] # "none"
    PROVE  RecordsInv'
<1> DEFINE t == NewTx(op, step, c, p, r, a, target)
<1>1. OnlyTx(w) /\ tx'[w] = t
  BY DEF IInv, TypeOK, Begin, OnlyTx
<1>2. PendingSound(t)
  BY DEF PendingSound, NewTx
<1>3. \A x \in Customers : ~LocksCustomer(t, x)
  BY DEF LocksCustomer, NewTx
<1>4. QED
  BY <1>1, <1>2, <1>3, RecordsTx DEF Begin

LEMMA RecordsRollBack ==
    ASSUME IInv, RecordsInv, NEW w \in Workers, RollBack(w)
    PROVE  RecordsInv'
<1>1. OnlyTx(w) /\ tx'[w] = Idle
  BY DEF IInv, TypeOK, RollBack, OnlyTx
<1>2. PendingSound(Idle) /\ \A x \in Customers : ~LocksCustomer(Idle, x)
  BY DEF PendingSound, LocksCustomer, Idle, NewTx
<1>3. QED
  BY <1>1, <1>2, RecordsTx DEF RollBack

\* A statement that only takes its lock, or its key share, writes no row.
LEMMA RecordsMove ==
    ASSUME IInv, RecordsInv, NEW w \in Workers, NEW step \in {"write", "ledger"},
           MoveOn(w, step)
    PROVE  RecordsInv'
<1>1. OnlyTx(w) /\ tx'[w] = AtStep(tx[w], step, {}, {})
  BY DEF IInv, TypeOK, MoveOn, OnlyTx
<1>2. PendingSound(tx[w])
  BY DEF RecordsInv
<1>3. PendingSound(tx'[w]) /\ \A c \in Customers : ~LocksCustomer(tx'[w], c)
  BY <1>1, <1>2 DEF PendingSound, AtStep, LocksCustomer
<1>4. QED
  BY <1>1, <1>3, RecordsTx DEF MoveOn

LEMMA RecordsRequest ==
    ASSUME IInv, RecordsInv, NEW w \in Workers, Request(w)
    PROVE  RecordsInv'
<1> USE DEF Op
<1>1. ASSUME NEW c \in Customers, CreateCustomer(w, c) PROVE RecordsInv'
  BY <1>1, RecordsBegin DEF CreateCustomer
<1>2. ASSUME NEW c \in Customers, NEW op \in {"update_customer", "delete_customer"},
             FindCustomer(w, c, op)
      PROVE  RecordsInv'
  BY <1>2, RecordsBegin DEF FindCustomer
<1>3. ASSUME NEW p \in Payments, NEW c \in Customers, NEW a \in Amounts, CreatePayment(w, p, c, a)
      PROVE  RecordsInv'
  BY <1>3, RecordsBegin DEF CreatePayment
<1>4. ASSUME NEW p \in Payments, NEW s \in DOMAIN event_type_map, TransitionPayment(w, p, s)
      PROVE  RecordsInv'
  BY <1>4, RecordsBegin DEF TransitionPayment
<1>5. ASSUME NEW p \in Payments, UpdatePayment(w, p) PROVE RecordsInv'
  BY <1>5, RecordsBegin DEF UpdatePayment
<1>6. ASSUME NEW p \in Payments, NEW r \in Refunds, NEW a \in Amounts, CreateRefund(w, p, r, a)
      PROVE  RecordsInv'
  BY <1>6, RecordsBegin DEF CreateRefund
<1>7. ASSUME NEW r \in Refunds, ProcessRefund(w, r) PROVE RecordsInv'
  BY <1>7, RecordsBegin DEF ProcessRefund
<1>8. QED
  BY <1>1, <1>2, <1>3, <1>4, <1>5, <1>6, <1>7 DEF Request

\* A statement that prepares the rows of its request.  The new event is stamped
\* after every committed one.
LEMMA RecordsWrite ==
    ASSUME IInv, RecordsInv, NEW w \in Workers, NEW entry, NEW type, NEW x,
           Write(w, entry, emit_event(type, x)),
           tx[w].op # "idle",
           EntryPending(AtStep(tx[w], "commit", entry, {})),
           type = Announces(tx[w]), x = Subject(tx[w]),
           tx[w].op \in {"update_customer", "delete_customer"} => NoWriterPending(tx[w].customer),
           tx[w].op = "create_payment" => Reports("customer.created", tx[w].customer) # {},
           tx[w].op \in {"transition_payment", "update_payment"} =>
               Reports("customer.created", owner[tx[w].payment]) # {},
           tx[w].op = "create_refund" => Reports("payment.captured", tx[w].payment) # {},
           tx[w].op = "update_customer" => customer[tx[w].customer] = "live"
    PROVE  RecordsInv'
<1> DEFINE event == emit_event(type, x)
           t == AtStep(tx[w], "commit", entry, event)
           e == [type |-> type, entity |-> x, stamp |-> clock + 1]
<1>1. OnlyTx(w) /\ tx'[w] = t
  BY DEF IInv, TypeOK, Write, OnlyTx
<1>2. clock \in Nat /\ \A d \in outbox : d.stamp \in 1..clock
  BY DEF IInv, TypeOK, IsEvent
<1>3. \A d \in outbox : d.stamp < e.stamp
  BY <1>2
<1>4. CauseCommitted(t, e)
  BY <1>3 DEF CauseCommitted, AtStep, Reports
<1>5. event = {e} /\ Announces(t) = type /\ Subject(t) = x
  BY DEF emit_event, AtStep, Announces, Subject
<1>6. EntryPending(t)
  BY DEF EntryPending, OneEntry, AtStep
<1>7. PendingSound(tx[w])
  BY DEF RecordsInv
<1>8. PendingSound(t)
  BY <1>4, <1>5, <1>6, <1>7 DEF PendingSound, AtStep
<1>9. ASSUME NEW v \in Workers, NEW c \in Customers, v # w,
             LocksCustomer(tx[v], c), LocksCustomer(t, c)
      PROVE  FALSE
  BY <1>9 DEF LocksCustomer, AtStep, NoWriterPending
<1>10. QED
  BY <1>1, <1>8, <1>9, RecordsTx DEF Write

\* What a row that exists has in the outbox.
LEMMA RowsReported ==
    ASSUME IInv, RecordsInv
    PROVE  /\ \A c \in Customers : customer[c] = "live" => Reports("customer.created", c) # {}
           /\ \A p \in Payments : status[p] # "none" =>
                  /\ owner[p] \in Customers
                  /\ Reports("customer.created", owner[p]) # {}
BY DEF IInv, Consistent, BlankUntilCreated, PaymentsKeepCustomer, RecordsInv, OutboxSound

LEMMA RecordsStatement ==
    ASSUME IInv, RecordsInv, NEW w \in Workers, Statement(w)
    PROVE  RecordsInv'
<1> DEFINE t == tx[w]
<1>t. ReadsHold(t) /\ PendingSound(t)
  BY DEF IInv, Consistent, RecordsInv
<1>1. CASE InsertCustomer(w)
  <2>1. EntryPending(AtStep(t, "commit", {}, {}))
    BY <1>1 DEF InsertCustomer, EntryPending, AtStep
  <2>2. Announces(t) = "customer.created" /\ Subject(t) = t.customer
    BY <1>1 DEF InsertCustomer, Announces, Subject
  <2>3. QED
    BY <1>1, <2>1, <2>2, RecordsWrite DEF InsertCustomer
<1>2. CASE UpdateCustomerRow(w)
  <2>1. EntryPending(AtStep(t, "commit", {}, {}))
    BY <1>2 DEF UpdateCustomerRow, EntryPending, AtStep
  <2>2. Announces(t) = "customer.updated" /\ Subject(t) = t.customer
    BY <1>2 DEF UpdateCustomerRow, Announces, Subject
  <2>3. QED
    BY <1>2, <2>1, <2>2, RecordsWrite, RecordsRollBack DEF UpdateCustomerRow
<1>3. CASE DeleteCustomerRow(w)
  <2>1. EntryPending(AtStep(t, "commit", {}, {}))
    BY <1>3 DEF DeleteCustomerRow, EntryPending, AtStep
  <2>2. Announces(t) = "customer.deleted" /\ Subject(t) = t.customer
    BY <1>3 DEF DeleteCustomerRow, Announces, Subject
  <2>3. QED
    BY <1>3, <2>1, <2>2, RecordsWrite, RecordsRollBack DEF DeleteCustomerRow
<1>4. CASE InsertPayment(w)
  BY <1>4, RecordsMove, RecordsRollBack DEF InsertPayment
<1>5. CASE InsertPaymentLedger(w)
  <2> DEFINE entry == ledger_entry("payment_created", t.payment, None, t.amount)
  <2>1. EntryPending(AtStep(t, "commit", entry, {}))
    BY <1>5 DEF InsertPaymentLedger, EntryPending, OneEntry, AtStep, ledger_entry
  <2>2. Announces(t) = "payment.created" /\ Subject(t) = t.payment
    BY <1>5 DEF InsertPaymentLedger, Announces, Subject
  <2>3. Reports("customer.created", t.customer) # {}
    BY <1>5, <1>t, RowsReported DEF InsertPaymentLedger, ReadsHold
  <2>4. QED
    BY <1>5, <2>1, <2>2, <2>3, RecordsWrite DEF InsertPaymentLedger
<1>6. CASE WriteTransition(w)
  <2> DEFINE entry == IF t.target = "captured"
                      THEN ledger_entry("payment_captured", t.payment, None, amount[t.payment])
                      ELSE {}
  <2>1. EntryPending(AtStep(t, "commit", entry, {}))
    BY <1>6 DEF WriteTransition, EntryPending, OneEntry, AtStep, ledger_entry
  <2>2. Announces(t) = event_type_map[t.target] /\ Subject(t) = t.payment
    BY <1>6 DEF WriteTransition, Announces, Subject
  <2>3. Reports("customer.created", owner[t.payment]) # {}
    <3>1. t.payment \in Payments /\ t.target \in VALID_TRANSITIONS[status[t.payment]]
      BY <1>6, <1>t DEF WriteTransition, ReadsHold
    <3>2. status[t.payment] \in PaymentStatus
      BY <3>1 DEF IInv, TypeOK
    <3>3. status[t.payment] # "none"
      BY <3>1, <3>2 DEF VALID_TRANSITIONS, PaymentStatus
    <3>4. QED
      BY <3>1, <3>3, RowsReported
  <2>4. QED
    BY <1>6, <2>1, <2>2, <2>3, RecordsWrite DEF WriteTransition
<1>7. CASE WriteUpdate(w)
  <2>1. EntryPending(AtStep(t, "commit", {}, {}))
    BY <1>7 DEF WriteUpdate, EntryPending, AtStep
  <2>2. Announces(t) = "payment.updated" /\ Subject(t) = t.payment
    BY <1>7 DEF WriteUpdate, Announces, Subject
  <2>3. Reports("customer.created", owner[t.payment]) # {}
    BY <1>7, <1>t, RowsReported DEF WriteUpdate, ReadsHold, PendingSound
  <2>4. QED
    BY <1>7, <2>1, <2>2, <2>3, RecordsWrite DEF WriteUpdate
<1>8. CASE WriteRefund(w)
  <2> DEFINE entry == ledger_entry("refund_issued", t.payment, t.refund, t.amount)
  <2>1. EntryPending(AtStep(t, "commit", entry, {}))
    BY <1>8 DEF WriteRefund, EntryPending, OneEntry, AtStep, ledger_entry
  <2>2. Announces(t) = "refund.initiated" /\ Subject(t) = t.refund
    BY <1>8 DEF WriteRefund, Announces, Subject
  <2>3. Reports("payment.captured", t.payment) # {}
    BY <1>8, <1>t DEF WriteRefund, ReadsHold, RecordsInv, OutboxSound
  <2>4. QED
    BY <1>8, <2>1, <2>2, <2>3, RecordsWrite DEF WriteRefund
<1>9. CASE WriteProcess(w)
  <2>1. EntryPending(AtStep(t, "commit", {}, {}))
    BY <1>9 DEF WriteProcess, EntryPending, AtStep
  <2>2. Announces(t) = "refund.processed" /\ Subject(t) = t.refund
    BY <1>9 DEF WriteProcess, Announces, Subject
  <2>3. QED
    BY <1>9, <2>1, <2>2, RecordsWrite DEF WriteProcess
<1>10. CASE LockForTransition(w) \/ LockForUpdate(w) \/ LockForRefund(w) \/ LockForProcess(w)
  BY <1>10, RecordsMove, RecordsRollBack
  DEF LockForTransition, LockForUpdate, LockForRefund, LockForProcess
<1>11. QED
  BY <1>1, <1>2, <1>3, <1>4, <1>5, <1>6, <1>7, <1>8, <1>9, <1>10 DEF Statement

-----------------------------------------------------------------------------
(* Commits                                                                 *)

\* What kind of row a request is about, and that the row is there, or not yet.
LEMMA SubjectKinds ==
    ASSUME IInv, RecordsInv, NEW w \in Workers, tx[w].op # "idle"
    PROVE  LET t == tx[w] IN
           /\ t.op \in {"create_customer", "update_customer", "delete_customer"} =>
                  Subject(t) = t.customer /\ t.customer \in Customers
           /\ t.op \in {"create_payment", "transition_payment", "update_payment"} =>
                  Subject(t) = t.payment /\ t.payment \in Payments
           /\ t.op \in {"create_refund", "process_refund"} =>
                  Subject(t) = t.refund /\ t.refund \in Refunds
           /\ t.op \in {"transition_payment", "update_payment"} => status[t.payment] # "none"
           /\ t.op \in Op
<1> DEFINE t == tx[w]
<1>1. ReadsHold(t) /\ PendingSound(t) /\ IsTransaction(t)
  BY DEF IInv, Consistent, RecordsInv, TypeOK
<1>2. t.op \in Op
  BY <1>1 DEF IsTransaction
<1>3. QED
  BY <1>1, <1>2 DEF ReadsHold, PendingSound, Subject, Op

\* No two transactions about to commit are about the same row: the locks, the
\* fresh ids and what the requests have read keep them apart.
LEMMA SubjectsApart ==
    ASSUME IInv, RecordsInv, NEW v \in Workers, NEW w \in Workers, v # w,
           tx[v].step = "commit", tx[w].step = "commit"
    PROVE  Subject(tx[v]) # Subject(tx[w])
<1> DEFINE t == tx[w]
           u == tx[v]
<1>1. /\ ReadsHold(t) /\ ReadsHold(u) /\ Compatible(t, u) /\ Compatible(u, t)
      /\ t.op # "idle" /\ u.op # "idle"
  BY DEF IInv, Consistent, ReadsHold
<1>2. SUFFICES ASSUME Subject(u) = Subject(t) PROVE FALSE
  OBVIOUS
<1>3. \/ /\ t.op \in {"create_customer", "update_customer", "delete_customer"}
         /\ u.op \in {"create_customer", "update_customer", "delete_customer"}
         /\ t.customer = u.customer /\ t.customer \in Customers
      \/ /\ t.op \in {"create_payment", "transition_payment", "update_payment"}
         /\ u.op \in {"create_payment", "transition_payment", "update_payment"}
         /\ t.payment = u.payment /\ t.payment \in Payments
      \/ /\ t.op \in {"create_refund", "process_refund"}
         /\ u.op \in {"create_refund", "process_refund"}
         /\ t.refund = u.refund /\ t.refund \in Refunds
  BY <1>1, <1>2, SubjectKinds, IdsAssumption DEF Op
<1>4. CASE /\ t.op \in {"create_customer", "update_customer", "delete_customer"}
           /\ u.op \in {"create_customer", "update_customer", "delete_customer"}
           /\ t.customer = u.customer /\ t.customer \in Customers
  BY <1>1, <1>4 DEF ReadsHold, Compatible, RecordsInv, OneWriter, LocksCustomer
<1>5. CASE /\ t.op \in {"create_payment", "transition_payment", "update_payment"}
           /\ u.op \in {"create_payment", "transition_payment", "update_payment"}
           /\ t.payment = u.payment /\ t.payment \in Payments
  <2>1. /\ t.op # "create_payment" => status[t.payment] # "none"
        /\ u.op # "create_payment" => status[t.payment] # "none"
    BY <1>1, <1>5, SubjectKinds
  <2>2. QED
    BY <1>1, <1>5, <2>1 DEF ReadsHold, Compatible, LocksPayment
<1>6. CASE /\ t.op \in {"create_refund", "process_refund"}
           /\ u.op \in {"create_refund", "process_refund"}
           /\ t.refund = u.refund /\ t.refund \in Refunds
  BY <1>1, <1>6 DEF ReadsHold, Compatible, LocksRefund
<1>7. QED
  BY <1>3, <1>4, <1>5, <1>6

\* A commit leaves alone what other transactions rely on: columns of payments
\* that exist, their existence, and customers that are being updated.
LEMMA CommitKeepsRows ==
    ASSUME IInv, RecordsInv, NEW w \in Workers, Commit(w)
    PROVE  /\ \A p \in Payments : status[p] # "none" =>
                  status'[p] # "none" /\ owner'[p] = owner[p] /\ amount'[p] = amount[p]
           /\ \A v \in Workers : v # w /\ tx[v].op = "update_customer" /\ tx[v].step = "commit" =>
                  customer'[tx[v].customer] = customer[tx[v].customer]
<1> DEFINE t == tx[w]
<1>1. TypeOK /\ ReadsHold(t) /\ IsTransaction(t) /\ t.step = "commit" /\ t.op # "idle"
  BY DEF IInv, Consistent, TypeOK, Commit, ReadsHold
<1>2. /\ customer \in [Customers -> CustomerStatus] /\ status \in [Payments -> PaymentStatus]
      /\ owner \in [Payments -> Customers \cup {None}] /\ amount \in [Payments -> Nat]
  BY <1>1 DEF TypeOK
<1>3. ASSUME NEW v \in Workers, v # w, tx[v].op = "update_customer", tx[v].step = "commit",
             t.op \in {"create_customer", "delete_customer"}
      PROVE  t.customer # tx[v].customer
  <2>1. Subject(tx[v]) = tx[v].customer /\ Subject(t) = t.customer
    BY <1>3, <1>1, SubjectKinds
  <2>2. QED
    BY <1>1, <1>3, <2>1, SubjectsApart
<1>4. CASE ApplyCreateCustomer(t)
  BY <1>2, <1>3, <1>4 DEF ApplyCreateCustomer
<1>5. CASE ApplyDeleteCustomer(t)
  BY <1>2, <1>3, <1>5 DEF ApplyDeleteCustomer
<1>6. CASE ApplyCreatePayment(t)
  <2>1. status[t.payment] = "none"
    BY <1>1, <1>6 DEF ApplyCreatePayment, ReadsHold
  <2>2. QED
    BY <1>2, <1>6, <2>1 DEF ApplyCreatePayment
<1>7. CASE ApplyTransition(t)
  <2>1. t.payment \in Payments /\ t.target \in VALID_TRANSITIONS[status[t.payment]]
    BY <1>1, <1>7 DEF ApplyTransition, ReadsHold
  <2>2. t.target # "none"
    BY <1>2, <2>1 DEF VALID_TRANSITIONS, PaymentStatus
  <2>3. QED
    BY <1>2, <1>7, <2>2 DEF ApplyTransition
<1>8. CASE ApplyRefund(t)
  BY <1>8 DEF ApplyRefund
<1>9. CASE ApplyProcess(t)
  BY <1>9 DEF ApplyProcess
<1>10. CASE ApplyUpdate(t)
  BY <1>10 DEF ApplyUpdate, tables
<1>11. QED
  BY <1>4, <1>5, <1>6, <1>7, <1>8, <1>9, <1>10 DEF Commit, Apply

\* What the other transactions hold back stays sound.
LEMMA CommitPending ==
    ASSUME IInv, RecordsInv, NEW w \in Workers, Commit(w)
    PROVE  (\A v \in Workers : PendingSound(tx[v]))' /\ OneWriter'
<1> DEFINE t == tx[w]
<1>1. OnlyTx(w) /\ tx'[w] = Idle
  BY DEF Commit, IInv, TypeOK, OnlyTx
<1>2. outbox' = outbox \cup t.event /\ t.step = "commit" /\ PendingSound(t)
  BY DEF Commit, RecordsInv
<1>3. OneWriter'
  BY <1>1 DEF RecordsInv, OneWriter, OnlyTx, LocksCustomer, Idle, NewTx
<1>4. PendingSound(Idle)'
  BY DEF PendingSound, Idle, NewTx
<1>5. ASSUME NEW v \in Workers, v # w PROVE PendingSound(tx[v])'
  <2> DEFINE u == tx[v]
  <2>1. tx'[v] = u /\ PendingSound(u) /\ ReadsHold(u)
    BY <1>1, <1>5 DEF OnlyTx, RecordsInv, IInv, Consistent
  <2>2. u.op \in {"transition_payment", "update_payment"} => status'[u.payment] # "none"
    BY <2>1, CommitKeepsRows DEF PendingSound, ReadsHold
  <2>3. u.op = "update_customer" /\ u.step = "commit" => customer'[u.customer] = "live"
    BY <1>5, <2>1, CommitKeepsRows DEF PendingSound
  <2>4. u.step = "commit" => EntryPending(u)'
    <3>1. u.op = "transition_payment" => amount'[u.payment] = amount[u.payment]
      BY SubjectKinds, CommitKeepsRows
    <3>2. QED
      BY <2>1, <3>1 DEF PendingSound, EntryPending, OneEntry
  <2>5. ASSUME NEW e \in u.event, u.step = "commit", e.entity = Subject(u), CauseCommitted(u, e)
        PROVE  CauseCommitted(u, e)'
    <3>1. \A d \in outbox' : d.entity = e.entity => d.stamp < e.stamp
      <4>1. \A d \in t.event : d.entity = Subject(t)
        BY <1>2 DEF PendingSound
      <4>2. Subject(u) # Subject(t)
        BY <1>2, <1>5, <2>5, SubjectsApart
      <4>3. QED
        BY <1>2, <2>5, <4>1, <4>2 DEF CauseCommitted
    <3>2. u.op \in {"transition_payment", "update_payment"} => owner'[u.payment] = owner[u.payment]
      BY SubjectKinds, CommitKeepsRows
    <3>3. QED
      <4>1. /\ u.op = "create_payment" =>
                 \E d \in Reports("customer.created", u.customer)' : d.stamp < e.stamp
            /\ u.op \in {"transition_payment", "update_payment"} =>
                 \E d \in Reports("customer.created", owner[u.payment])' : d.stamp < e.stamp
            /\ u.op = "create_refund" =>
                 \E d \in Reports("payment.captured", u.payment)' : d.stamp < e.stamp
        BY <2>1, <2>5, <3>2, <1>2 DEF CauseCommitted, Reports
      <4>2. QED
        BY <2>1, <3>1, <4>1 DEF CauseCommitted
  <2>6. QED
    BY <2>1, <2>2, <2>3, <2>4, <2>5 DEF PendingSound
<1>6. QED
  BY <1>1, <1>3, <1>4, <1>5

\* The ledger entry a commit adds is the one its row asks for.
LEMMA CommitLedger ==
    ASSUME IInv, RecordsInv, NEW w \in Workers, Commit(w)
    PROVE  LedgerSound'
<1> DEFINE t == tx[w]
<1>1. /\ TypeOK /\ ReadsHold(t) /\ IsTransaction(t) /\ EntryPending(t) /\ LedgerSound
      /\ t.step = "commit"
  BY DEF IInv, Consistent, TypeOK, Commit, RecordsInv, PendingSound
<1>2. /\ status \in [Payments -> PaymentStatus] /\ amount \in [Payments -> Nat]
      /\ refund \in [Refunds -> [state : RefundStatus, payment : Payments \cup {None},
                                 amount : Nat]]
      /\ \A e \in ledger : e.payment \in Payments
  BY <1>1 DEF TypeOK, IsEntry
<1>3. ledger' = ledger \cup t.entry
  BY DEF Commit
<1>n. None \notin Refunds
  BY NoneAssumption
<1>4. CASE ApplyCreateCustomer(t) \/ ApplyDeleteCustomer(t) \/ ApplyUpdate(t)
  <2>1. ledger' = ledger /\ UNCHANGED <<status, amount, refund>>
    BY <1>1, <1>3, <1>4
    DEF ApplyCreateCustomer, ApplyDeleteCustomer, ApplyUpdate, EntryPending, tables
  <2>2. QED
    BY <1>1, <2>1 DEF LedgerSound, EntriesFor
<1>5. CASE ApplyCreatePayment(t)
  <2>1. t.payment \in Payments /\ status[t.payment] = "none" /\ t.op = "create_payment"
    BY <1>1, <1>5 DEF ApplyCreatePayment, ReadsHold
  <2>2. PICK e : t.entry = {e} /\ e.type = "payment_created" /\ e.payment = t.payment
                 /\ e.refund = None /\ e.amount = t.amount
    BY <1>1, <2>1 DEF EntryPending, OneEntry
  <2>3. \A d \in ledger : d.type \in {"payment_created", "payment_captured"} =>
            d.payment # t.payment
    BY <1>1, <2>1 DEF LedgerSound, Refundable
  <2>4. /\ status' = [status EXCEPT ![t.payment] = "created"]
        /\ amount' = [amount EXCEPT ![t.payment] = t.amount] /\ refund' = refund
    BY <1>5 DEF ApplyCreatePayment
  <2>5. QED
    BY <1>1, <1>2, <1>3, <1>n, <2>1, <2>2, <2>3, <2>4 DEF LedgerSound, EntriesFor, Refundable
<1>6. CASE ApplyTransition(t)
  <2>1. t.payment \in Payments /\ t.target \in VALID_TRANSITIONS[status[t.payment]]
        /\ t.op = "transition_payment"
    BY <1>1, <1>6 DEF ApplyTransition, ReadsHold
  <2>2. /\ status[t.payment] # "none" /\ t.target # "none"
        /\ t.target = "captured" => status[t.payment] \notin Refundable
        /\ t.target = "settled" <=> status[t.payment] \in Refundable
    BY <1>2, <2>1 DEF VALID_TRANSITIONS, PaymentStatus, Refundable
  <2>3. UNCHANGED <<amount, refund>> /\ status' = [status EXCEPT ![t.payment] = t.target]
    BY <1>6 DEF ApplyTransition
  <2>4. CASE t.target = "captured"
    <3>1. PICK e : t.entry = {e} /\ e.type = "payment_captured" /\ e.payment = t.payment
                   /\ e.refund = None /\ e.amount = amount[t.payment]
      BY <1>1, <2>1, <2>4 DEF EntryPending, OneEntry
    <3>2. \A d \in ledger : d.type = "payment_captured" => d.payment # t.payment
      BY <1>1, <2>2, <2>4 DEF LedgerSound
    <3>3. QED
      BY <1>1, <1>2, <1>3, <1>n, <2>1, <2>2, <2>3, <2>4, <3>1, <3>2
      DEF LedgerSound, EntriesFor, Refundable
  <2>5. CASE t.target # "captured"
    <3>1. ledger' = ledger
      BY <1>1, <1>3, <2>1, <2>5 DEF EntryPending
    <3>2. /\ \A p \in Payments : status'[p] \in Refundable <=> status[p] \in Refundable
          /\ \A p \in Payments : status'[p] # "none" <=> status[p] # "none"
      BY <1>2, <2>1, <2>2, <2>3, <2>5 DEF Refundable
    <3>3. QED
      BY <1>1, <1>2, <2>3, <3>1, <3>2 DEF LedgerSound, EntriesFor
  <2>6. QED
    BY <2>4, <2>5
<1>7. CASE ApplyRefund(t)
  <2>1. t.payment \in Payments /\ t.refund \in Refunds /\ refund[t.refund].state = "none"
        /\ t.op = "create_refund"
    BY <1>1, <1>7 DEF ApplyRefund, ReadsHold
  <2>2. PICK e : t.entry = {e} /\ e.type = "refund_issued" /\ e.payment = t.payment
                 /\ e.refund = t.refund /\ e.amount = t.amount
    BY <1>1, <2>1 DEF EntryPending, OneEntry
  <2>3. \A d \in ledger : d.refund # t.refund
    BY <1>1, <2>1 DEF LedgerSound
  <2>4. /\ refund' = [refund EXCEPT ![t.refund] = [state |-> "initiated",
                                                   payment |-> t.payment, amount |-> t.amount]]
        /\ UNCHANGED <<status, amount>>
    BY <1>7 DEF ApplyRefund
  <2>5. QED
    BY <1>1, <1>2, <1>3, <2>1, <2>2, <2>3, <2>4 DEF LedgerSound, EntriesFor
<1>8. CASE ApplyProcess(t)
  <2>1. t.refund \in Refunds /\ refund[t.refund].state = "initiated" /\ t.op = "process_refund"
    BY <1>1, <1>8 DEF ApplyProcess, ReadsHold
  <2>2. ledger' = ledger /\ UNCHANGED <<status, amount>>
    BY <1>1, <1>3, <1>8, <2>1 DEF ApplyProcess, EntryPending
  <2>3. \A r \in Refunds : /\ refund'[r].state # "none" <=> refund[r].state # "none"
                           /\ refund'[r].payment = refund[r].payment
                           /\ refund'[r].amount = refund[r].amount
    BY <1>2, <1>8, <2>1 DEF ApplyProcess
  <2>4. QED
    BY <1>1, <2>2, <2>3 DEF LedgerSound, EntriesFor
<1>9. QED
  BY <1>4, <1>5, <1>6, <1>7, <1>8 DEF Commit, Apply

\* The event a commit adds: of the right type, about the right row, stamped after
\* every earlier event about that row.
LEMMA CommitEvent ==
    ASSUME IInv, RecordsInv, NEW w \in Workers, Commit(w)
    PROVE  \E e : /\ outbox' = outbox \cup {e}
                  /\ e.type = Announces(tx[w]) /\ e.entity = Subject(tx[w])
                  /\ CauseCommitted(tx[w], e)
                  /\ e.stamp \in Nat
<1>1. PendingSound(tx[w]) /\ IsTransaction(tx[w]) /\ tx[w].step = "commit"
      /\ outbox' = outbox \cup tx[w].event /\ clock \in Nat
  BY DEF Commit, RecordsInv, IInv, TypeOK
<1>2. PICK e \in tx[w].event : /\ tx[w].event = {e}
                               /\ e.type = Announces(tx[w]) /\ e.entity = Subject(tx[w])
                               /\ CauseCommitted(tx[w], e)
  BY <1>1 DEF PendingSound
<1>3. e.stamp \in Nat
  BY <1>1, <1>2 DEF IsTransaction, IsEvent
<1>4. QED
  BY <1>1, <1>2, <1>3

\* Every event still stands for a row.
LEMMA CommitEventRows ==
    ASSUME IInv, RecordsInv, NEW w \in Workers, Commit(w)
    PROVE  \A d \in outbox' :
               /\ d.type = "customer.deleted" =>
                      d.entity \in Customers /\ customer'[d.entity] = "deleted"
               /\ d.type = "refund.initiated" =>
                      d.entity \in Refunds /\ refund'[d.entity].state # "none"
               /\ d.entity \in Payments => status'[d.entity] # "none"
<1> DEFINE t == tx[w]
<1>1. /\ TypeOK /\ ReadsHold(t) /\ IsTransaction(t) /\ OutboxSound /\ t.op # "idle"
      /\ t.step = "commit"
  BY DEF IInv, Consistent, TypeOK, Commit, RecordsInv, ReadsHold
<1>2. /\ customer \in [Customers -> CustomerStatus] /\ status \in [Payments -> PaymentStatus]
      /\ refund \in [Refunds -> [state : RefundStatus, payment : Payments \cup {None},
                                 amount : Nat]]
  BY <1>1 DEF TypeOK
<1>3. PICK e : outbox' = outbox \cup {e} /\ e.type = Announces(t) /\ e.entity = Subject(t)
  BY CommitEvent
<1>4. /\ \A c \in Customers : customer[c] = "deleted" => customer'[c] = "deleted"
      /\ \A r \in Refunds : refund[r].state # "none" => refund'[r].state # "none"
      /\ t.op = "delete_customer" => customer'[t.customer] = "deleted"
      /\ t.op = "create_refund" => refund'[t.refund].state # "none"
      /\ t.op = "create_payment" => status'[t.payment] # "none"
  <2> USE <1>1, <1>2, SubjectKinds
  <2>1. CASE ApplyCreateCustomer(t)
    BY <2>1 DEF ApplyCreateCustomer, ReadsHold
  <2>2. CASE ApplyDeleteCustomer(t)
    BY <2>2 DEF ApplyDeleteCustomer
  <2>3. CASE ApplyCreatePayment(t)
    BY <2>3 DEF ApplyCreatePayment
  <2>4. CASE ApplyTransition(t)
    BY <2>4 DEF ApplyTransition
  <2>5. CASE ApplyRefund(t)
    BY <2>5 DEF ApplyRefund
  <2>6. CASE ApplyProcess(t)
    BY <2>6 DEF ApplyProcess
  <2>7. CASE ApplyUpdate(t)
    BY <2>7 DEF ApplyUpdate, tables
  <2>8. QED
    BY <2>1, <2>2, <2>3, <2>4, <2>5, <2>6, <2>7 DEF Commit, Apply
<1>5. /\ e.type = "customer.deleted" => t.op = "delete_customer"
      /\ e.type = "refund.initiated" => t.op = "create_refund"
  <2>1. t.op = "transition_payment" =>
            event_type_map[t.target] \notin {"customer.deleted", "refund.initiated"}
    <3>1. SUFFICES ASSUME t.op = "transition_payment"
                   PROVE  event_type_map[t.target] \notin {"customer.deleted", "refund.initiated"}
      OBVIOUS
    <3>2. t.payment \in Payments /\ t.target \in VALID_TRANSITIONS[status[t.payment]]
      BY <1>1, <3>1 DEF ReadsHold
    <3>3. t.target \in {"authorized", "captured", "failed", "settled"}
      BY <1>2, <3>2 DEF VALID_TRANSITIONS, PaymentStatus
    <3>4. QED
      BY <3>3 DEF event_type_map
  <2>2. t.op \in Op
    BY <1>1, SubjectKinds
  <2>3. QED
    BY <1>3, <2>1, <2>2 DEF Announces, Op
<1>6. e.entity \in Payments =>
          t.op \in {"create_payment", "transition_payment", "update_payment"}
          /\ e.entity = t.payment
  BY <1>1, <1>3, SubjectKinds, IdsAssumption DEF Op
<1>7. QED
  BY <1>1, <1>3, <1>4, <1>5, <1>6, SubjectKinds, CommitKeepsRows DEF OutboxSound

\* A payment whose status a commit changes gets the event of the new status, later
\* than its earlier ones; other payments keep their status events.
LEMMA CommitStatus ==
    ASSUME IInv, RecordsInv, NEW w \in Workers, Commit(w), NEW p \in Payments
    PROVE  \/ status'[p] = status[p] /\ StatusEvents(p)' = StatusEvents(p)
           \/ \E e : /\ StatusEvents(p)' = StatusEvents(p) \cup {e}
                     /\ e.entity = p /\ e.stamp \in Nat
                     /\ e.type \in DOMAIN Reported /\ status'[p] = Reported[e.type]
                     /\ \A d \in StatusEvents(p) : d.stamp < e.stamp
                     /\ \/ status[p] = "none" /\ e.type = "payment.created"
                        \/ status[p] # "none" /\ <<status[p], status'[p]>> \in Lifecycle!Moves
<1> DEFINE t == tx[w]
<1>1. /\ TypeOK /\ ReadsHold(t) /\ t.op \in Op /\ t.step = "commit"
      /\ status \in [Payments -> PaymentStatus]
  <2>1. TypeOK /\ ReadsHold(t) /\ IsTransaction(t) /\ t.step = "commit"
    BY DEF IInv, Consistent, TypeOK, Commit
  <2>2. QED
    BY <2>1 DEF TypeOK, IsTransaction, ReadsHold
<1>2. PICK e : /\ outbox' = outbox \cup {e} /\ e.type = Announces(t) /\ e.entity = Subject(t)
               /\ CauseCommitted(t, e) /\ e.stamp \in Nat
  BY CommitEvent
<1>3. \A d \in StatusEvents(p) : e.entity = p => d.stamp < e.stamp
  BY <1>2 DEF CauseCommitted, StatusEvents
<1>4. CASE t.op \notin {"create_payment", "transition_payment"}
  <2>1. e.type \notin DOMAIN Reported
    BY <1>1, <1>2, <1>4 DEF Announces, Reported, Op
  <2>2. StatusEvents(p)' = StatusEvents(p)
    BY <1>2, <2>1 DEF StatusEvents
  <2>3. status' = status
    BY <1>4 DEF Commit, Apply, ApplyCreateCustomer, ApplyDeleteCustomer, ApplyCreatePayment,
                ApplyTransition, ApplyRefund, ApplyProcess, ApplyUpdate, tables
  <2>4. QED
    BY <2>2, <2>3
<1>5. CASE t.op = "create_payment"
  <2>1. /\ t.payment \in Payments /\ status[t.payment] = "none" /\ e.entity = t.payment
        /\ e.type = "payment.created"
    BY <1>1, <1>2, <1>5 DEF ReadsHold, Subject, Announces
  <2>2. status' = [status EXCEPT ![t.payment] = "created"]
    BY <1>5 DEF Commit, Apply, ApplyCreateCustomer, ApplyDeleteCustomer, ApplyCreatePayment,
                ApplyTransition, ApplyRefund, ApplyProcess, ApplyUpdate
  <2>3. e.type \in DOMAIN Reported /\ Reported[e.type] = "created"
    BY <2>1 DEF Reported
  <2>4. CASE p = t.payment
    <3>1. StatusEvents(p)' = StatusEvents(p) \cup {e}
      BY <1>2, <2>1, <2>3, <2>4 DEF StatusEvents
    <3>2. QED
      BY <1>1, <1>2, <1>3, <2>1, <2>2, <2>3, <2>4, <3>1
  <2>5. CASE p # t.payment
    <3>1. StatusEvents(p)' = StatusEvents(p)
      BY <1>2, <2>1, <2>5 DEF StatusEvents
    <3>2. QED
      BY <1>1, <2>2, <2>5, <3>1
  <2>6. QED
    BY <2>4, <2>5
<1>6. CASE t.op = "transition_payment"
  <2>1. /\ t.payment \in Payments /\ t.target \in VALID_TRANSITIONS[status[t.payment]]
        /\ e.entity = t.payment /\ e.type = event_type_map[t.target]
    BY <1>1, <1>2, <1>6 DEF ReadsHold, Subject, Announces
  <2>2. status' = [status EXCEPT ![t.payment] = t.target]
    BY <1>6 DEF Commit, Apply, ApplyCreateCustomer, ApplyDeleteCustomer, ApplyCreatePayment,
                ApplyTransition, ApplyRefund, ApplyProcess, ApplyUpdate
  <2>3. /\ t.target \in {"authorized", "captured", "failed", "settled"}
        /\ status[t.payment] # "none"
        /\ <<status[t.payment], t.target>> \in Lifecycle!Moves
    BY <1>1, <2>1 DEF VALID_TRANSITIONS, PaymentStatus, Lifecycle!Moves
  <2>4. e.type \in DOMAIN Reported /\ Reported[e.type] = t.target
    BY <2>1, <2>3 DEF Reported, event_type_map
  <2>5. CASE p = t.payment
    <3>1. StatusEvents(p)' = StatusEvents(p) \cup {e}
      BY <1>2, <2>1, <2>4, <2>5 DEF StatusEvents
    <3>2. QED
      BY <1>1, <1>2, <1>3, <2>1, <2>2, <2>3, <2>4, <2>5, <3>1
  <2>6. CASE p # t.payment
    <3>1. StatusEvents(p)' = StatusEvents(p)
      BY <1>2, <2>1, <2>6 DEF StatusEvents
    <3>2. QED
      BY <1>1, <2>2, <2>6, <3>1
  <2>7. QED
    BY <2>5, <2>6
<1>7. QED
  BY <1>4, <1>5, <1>6

\* An event that was there keeps the events before it: new ones are stamped later.
LEMMA CommitBefore ==
    ASSUME IInv, RecordsInv, NEW w \in Workers, Commit(w), NEW d \in outbox
    PROVE  d \in outbox' /\ Before(d)' = Before(d)
<1>1. PICK e : /\ outbox' = outbox \cup {e} /\ CauseCommitted(tx[w], e) /\ e.stamp \in Nat
  BY CommitEvent
<1>2. d.stamp \in Nat /\ (e.entity = d.entity => d.stamp < e.stamp)
  BY <1>1 DEF CauseCommitted, IInv, TypeOK, IsEvent
<1>3. QED
  BY <1>1, <1>2 DEF Before

\* The status events of a payment still lead to its status, step by step.
LEMMA CommitTellsPayment ==
    ASSUME IInv, RecordsInv, NEW w \in Workers, Commit(w), NEW p \in Payments
    PROVE  /\ (status[p] = "none" <=> StatusEvents(p) = {})'
           /\ (\A e \in StatusEvents(p) :
                LET earlier == Before(e) \cap StatusEvents(p) IN
                /\ (\A d \in StatusEvents(p) : d.stamp <= e.stamp) => status[p] = Reported[e.type]
                /\ \/ earlier = {} /\ e.type = "payment.created"
                   \/ \E d \in earlier :
                          /\ \A x \in earlier : x.stamp <= d.stamp
                          /\ <<Reported[d.type], Reported[e.type]>> \in Lifecycle!Moves)'
           /\ (status[p] # "none" =>
                \E d \in StatusEvents(p) : \A x \in StatusEvents(p) : x.stamp <= d.stamp)'
<1> DEFINE Last(e, S) == \A d \in S : d.stamp <= e.stamp
           Led(e, earlier) == \/ earlier = {} /\ e.type = "payment.created"
                              \/ \E d \in earlier :
                                    /\ \A x \in earlier : x.stamp <= d.stamp
                                    /\ <<Reported[d.type], Reported[e.type]>> \in Lifecycle!Moves
<1>1. /\ status[p] = "none" <=> StatusEvents(p) = {}
      /\ \A e \in StatusEvents(p) : /\ Last(e, StatusEvents(p)) => status[p] = Reported[e.type]
                                    /\ Led(e, Before(e) \cap StatusEvents(p))
      /\ status[p] # "none" => \E d \in StatusEvents(p) : Last(d, StatusEvents(p))
  BY DEF RecordsInv, OutboxSound, OutboxTellsStatus
<1>2. \A d \in StatusEvents(p) : d \in outbox /\ d.entity = p /\ d.stamp \in Nat
  BY DEF StatusEvents, IInv, TypeOK, IsEvent
<1>3. \A d \in StatusEvents(p) : Before(d)' = Before(d)
  BY <1>2, CommitBefore
<1> DEFINE New == StatusEvents(p)'
<1>4. SUFFICES /\ status'[p] = "none" <=> New = {}
               /\ \A e \in New : /\ Last(e, New) => status'[p] = Reported[e.type]
                                 /\ Led(e, Before(e)' \cap New)
               /\ status'[p] # "none" => \E d \in New : Last(d, New)
  OBVIOUS
<1>5. CASE status'[p] = status[p] /\ New = StatusEvents(p)
  BY <1>1, <1>3, <1>5
<1>6. ASSUME NEW e, New = StatusEvents(p) \cup {e}, e.entity = p, e.stamp \in Nat,
             e.type \in DOMAIN Reported, status'[p] = Reported[e.type],
             \A d \in StatusEvents(p) : d.stamp < e.stamp,
             \/ status[p] = "none" /\ e.type = "payment.created"
             \/ status[p] # "none" /\ <<status[p], status'[p]>> \in Lifecycle!Moves
      PROVE  /\ status'[p] = "none" <=> New = {}
             /\ \A x \in New : /\ Last(x, New) => status'[p] = Reported[x.type]
                               /\ Led(x, Before(x)' \cap New)
             /\ status'[p] # "none" => \E d \in New : Last(d, New)
  <2>1. status'[p] # "none" /\ New # {}
    BY <1>6 DEF Reported
  <2>2. Last(e, New) /\ e \in New
    BY <1>2, <1>6
  <2>3. ASSUME NEW x \in StatusEvents(p) PROVE ~Last(x, New) /\ Led(x, Before(x)' \cap New)
    <3>1. ~Last(x, New)
      BY <1>2, <1>6, <2>3
    <3>2. e \notin Before(x)
      BY <1>2, <1>6, <2>3 DEF Before
    <3>3. Before(x)' \cap New = Before(x) \cap StatusEvents(p)
      BY <1>3, <1>6, <2>3, <3>2
    <3>4. QED
      BY <1>1, <2>3, <3>1, <3>3
  <2>4. Before(e)' \cap New = StatusEvents(p)
    <3>1. \A d \in New : d \in Before(e)' <=> d \in StatusEvents(p)
      <4>1. e \notin Before(e)'
        BY <1>6 DEF Before
      <4>2. ASSUME NEW d \in StatusEvents(p) PROVE d \in Before(e)'
        <5>1. d \in outbox' /\ d.entity = e.entity /\ d.stamp < e.stamp
          BY <1>2, <1>6, <4>2, CommitBefore
        <5>2. QED
          BY <5>1 DEF Before
      <4>3. QED
        BY <1>6, <4>1, <4>2
    <3>2. QED
      BY <1>6, <3>1
  <2>5. Led(e, StatusEvents(p))
    <3>1. CASE status[p] = "none"
      BY <1>1, <1>6, <3>1 DEF Lifecycle!Moves
    <3>2. CASE status[p] # "none"
      <4>1. PICK d \in StatusEvents(p) : Last(d, StatusEvents(p))
        BY <1>1, <3>2
      <4>2. <<Reported[d.type], Reported[e.type]>> \in Lifecycle!Moves
        BY <1>1, <1>6, <3>2, <4>1
      <4>3. QED
        BY <4>1, <4>2
    <3>3. QED
      BY <3>1, <3>2
  <2>6. QED
    BY <1>6, <2>1, <2>2, <2>3, <2>4, <2>5
<1>7. QED
  BY <1>5, <1>6, CommitStatus

\* The event types a request can announce.
LEMMA AnnouncedTypes ==
    ASSUME IInv, RecordsInv, NEW w \in Workers, tx[w].op # "idle", tx[w].step = "commit"
    PROVE  LET t == tx[w] IN
           /\ Announces(t) = "customer.created" <=> t.op = "create_customer"
           /\ Announces(t) = "customer.updated" <=> t.op = "update_customer"
           /\ Announces(t) = "payment.created" <=> t.op = "create_payment"
           /\ Announces(t) = "payment.captured" <=>
                  t.op = "transition_payment" /\ t.target = "captured"
           /\ Announces(t) = "refund.initiated" <=> t.op = "create_refund"
           /\ Announces(t) = "refund.processed" <=> t.op = "process_refund"
           /\ t.op = "transition_payment" =>
                  /\ t.target \in {"authorized", "captured", "failed", "settled"}
                  /\ t.target = "settled" <=> status[t.payment] = "captured"
                  /\ status[t.payment] # "settled"
<1> DEFINE t == tx[w]
<1>1. ReadsHold(t) /\ t.op \in Op
  BY SubjectKinds DEF IInv, Consistent
<1>2. CASE t.op = "transition_payment"
  <2>1. t.payment \in Payments /\ t.target \in VALID_TRANSITIONS[status[t.payment]]
    BY <1>1, <1>2 DEF ReadsHold
  <2>2. status[t.payment] \in PaymentStatus
    BY <2>1 DEF IInv, TypeOK
  <2>3. /\ t.target \in {"authorized", "captured", "failed", "settled"}
        /\ t.target = "settled" <=> status[t.payment] = "captured"
        /\ status[t.payment] # "settled"
    BY <2>1, <2>2 DEF VALID_TRANSITIONS, PaymentStatus
  <2>4. QED
    BY <1>2, <2>3 DEF Announces, event_type_map
<1>3. CASE t.op # "transition_payment"
  BY <1>1, <1>3 DEF Announces, Op
<1>4. QED
  BY <1>2, <1>3

\* A refund still has exactly the events of its state.
LEMMA CommitTellsRefund ==
    ASSUME IInv, RecordsInv, NEW w \in Workers, Commit(w), NEW r \in Refunds
    PROVE  (LET types == {e.type : e \in {x \in outbox : x.entity = r}} IN
            /\ "refund.initiated" \in types <=> refund[r].state # "none"
            /\ "refund.processed" \in types <=> refund[r].state = "processed")'
<1> DEFINE t == tx[w]
<1>1. /\ TypeOK /\ ReadsHold(t) /\ t.op # "idle" /\ t.step = "commit"
      /\ refund \in [Refunds -> [state : RefundStatus, payment : Payments \cup {None},
                                 amount : Nat]]
  BY DEF IInv, Consistent, TypeOK, Commit, ReadsHold
<1>2. PICK e : outbox' = outbox \cup {e} /\ e.type = Announces(t) /\ e.entity = Subject(t)
  BY CommitEvent
<1>3. /\ (\E d \in outbox : d.entity = r /\ d.type = "refund.initiated")
            <=> refund[r].state # "none"
      /\ (\E d \in outbox : d.entity = r /\ d.type = "refund.processed")
            <=> refund[r].state = "processed"
  BY DEF RecordsInv, OutboxSound, OutboxTellsStatus
<1>4. SUFFICES /\ (\E d \in outbox' : d.entity = r /\ d.type = "refund.initiated")
                    <=> refund'[r].state # "none"
               /\ (\E d \in outbox' : d.entity = r /\ d.type = "refund.processed")
                    <=> refund'[r].state = "processed"
  OBVIOUS
<1>5. CASE t.op = "create_refund"
  <2>1. /\ t.refund \in Refunds /\ refund[t.refund].state = "none"
        /\ e.type = "refund.initiated" /\ e.entity = t.refund
    BY <1>1, <1>2, <1>5, AnnouncedTypes, SubjectKinds DEF ReadsHold
  <2>2. refund' = [refund EXCEPT ![t.refund] = [state |-> "initiated", payment |-> t.payment,
                                                amount |-> t.amount]]
    BY <1>5 DEF Commit, Apply, ApplyCreateCustomer, ApplyDeleteCustomer, ApplyCreatePayment,
                ApplyTransition, ApplyRefund, ApplyProcess, ApplyUpdate
  <2>3. QED
    BY <1>1, <1>2, <1>3, <2>1, <2>2
<1>6. CASE t.op = "process_refund"
  <2>1. /\ t.refund \in Refunds /\ refund[t.refund].state = "initiated"
        /\ e.type = "refund.processed" /\ e.entity = t.refund
    BY <1>1, <1>2, <1>6, AnnouncedTypes, SubjectKinds DEF ReadsHold
  <2>2. refund' = [refund EXCEPT ![t.refund] = [state |-> "processed",
                                                payment |-> refund[t.refund].payment,
                                                amount |-> refund[t.refund].amount]]
    BY <1>6 DEF Commit, Apply, ApplyCreateCustomer, ApplyDeleteCustomer, ApplyCreatePayment,
                ApplyTransition, ApplyRefund, ApplyProcess, ApplyUpdate
  <2>3. QED
    BY <1>1, <1>2, <1>3, <2>1, <2>2
<1>7. CASE t.op \notin {"create_refund", "process_refund"}
  <2>1. e.type \notin {"refund.initiated", "refund.processed"}
    BY <1>1, <1>2, <1>7, AnnouncedTypes
  <2>2. refund' = refund
    BY <1>7 DEF Commit, Apply, ApplyCreateCustomer, ApplyDeleteCustomer, ApplyCreatePayment,
                ApplyTransition, ApplyRefund, ApplyProcess, ApplyUpdate, tables
  <2>3. QED
    BY <1>2, <1>3, <2>1, <2>2
<1>8. QED
  BY <1>5, <1>6, <1>7

\* A row that a commit creates or moves on is reported by the event it adds.
LEMMA CommitReports ==
    ASSUME IInv, RecordsInv, NEW w \in Workers, Commit(w)
    PROVE  /\ \A c \in Customers : customer'[c] # "absent" => Reports("customer.created", c)' # {}
           /\ \A p \in Payments :
                  /\ status'[p] # "none" => Reports("payment.created", p)' # {}
                  /\ status'[p] \in Refundable => Reports("payment.captured", p)' # {}
<1> DEFINE t == tx[w]
<1>1. /\ TypeOK /\ ReadsHold(t) /\ t.op # "idle" /\ t.step = "commit"
      /\ customer \in [Customers -> CustomerStatus] /\ status \in [Payments -> PaymentStatus]
  BY DEF IInv, Consistent, TypeOK, Commit, ReadsHold
<1>2. PICK e : outbox' = outbox \cup {e} /\ e.type = Announces(t) /\ e.entity = Subject(t)
  BY CommitEvent
<1>3. \A type, x : Reports(type, x) \subseteq {d \in outbox' : d.type = type /\ d.entity = x}
  BY <1>2 DEF Reports
<1>4. \A type, x : type = e.type /\ x = e.entity => e \in {d \in outbox' : d.type = type /\ d.entity = x}
  BY <1>2
<1>5. ASSUME NEW c \in Customers, customer'[c] # "absent"
      PROVE  {d \in outbox' : d.type = "customer.created" /\ d.entity = c} # {}
  <2>1. CASE customer[c] # "absent"
    BY <1>3, <2>1 DEF RecordsInv, OutboxSound
  <2>2. CASE customer[c] = "absent"
    <3>1. t.op \in {"create_customer", "delete_customer"} /\ t.customer = c
      BY <1>1, <1>5, <2>2
      DEF Commit, Apply, ApplyCreateCustomer, ApplyDeleteCustomer, ApplyCreatePayment,
          ApplyTransition, ApplyRefund, ApplyProcess, ApplyUpdate, tables
    <3>2. t.op = "create_customer"
      BY <1>1, <2>2, <3>1 DEF ReadsHold
    <3>3. QED
      BY <1>1, <1>2, <1>4, <3>1, <3>2, AnnouncedTypes, SubjectKinds
  <2>3. QED
    BY <2>1, <2>2
<1>6. ASSUME NEW p \in Payments, status'[p] # "none"
      PROVE  {d \in outbox' : d.type = "payment.created" /\ d.entity = p} # {}
  <2>1. CASE status[p] # "none"
    BY <1>3, <2>1 DEF RecordsInv, OutboxSound
  <2>2. CASE status[p] = "none"
    <3>1. t.op \in {"create_payment", "transition_payment"} /\ t.payment = p
      BY <1>1, <1>6, <2>2
      DEF Commit, Apply, ApplyCreateCustomer, ApplyDeleteCustomer, ApplyCreatePayment,
          ApplyTransition, ApplyRefund, ApplyProcess, ApplyUpdate, tables
    <3>2. t.op = "create_payment"
      BY <1>1, <2>2, <3>1, SubjectKinds
    <3>3. QED
      BY <1>1, <1>2, <1>4, <3>1, <3>2, AnnouncedTypes, SubjectKinds
  <2>3. QED
    BY <2>1, <2>2
<1>7. ASSUME NEW p \in Payments, status'[p] \in Refundable
      PROVE  {d \in outbox' : d.type = "payment.captured" /\ d.entity = p} # {}
  <2>1. CASE status[p] \in Refundable
    BY <1>3, <2>1 DEF RecordsInv, OutboxSound
  <2>2. CASE status[p] \notin Refundable
    <3>1. t.op = "transition_payment" /\ t.payment = p /\ t.target \in Refundable
      BY <1>1, <1>7, <2>2
      DEF Commit, Apply, ApplyCreateCustomer, ApplyDeleteCustomer, ApplyCreatePayment,
          ApplyTransition, ApplyRefund, ApplyProcess, ApplyUpdate, tables, Refundable
    <3>2. t.target = "captured"
      BY <1>1, <2>2, <3>1, AnnouncedTypes DEF Refundable
    <3>3. QED
      BY <1>1, <1>2, <1>4, <3>1, <3>2, AnnouncedTypes, SubjectKinds
  <2>3. QED
    BY <2>1, <2>2
<1>8. QED
  BY <1>5, <1>6, <1>7 DEF Reports

\* The event a commit adds has its causes before it.
LEMMA CommitCause ==
    ASSUME IInv, RecordsInv, NEW w \in Workers, Commit(w),
           NEW e, outbox' = outbox \cup {e}, e.type = Announces(tx[w]),
           e.entity = Subject(tx[w]), CauseCommitted(tx[w], e)
    PROVE  /\ e.entity \in Payments =>
               /\ e.type = "payment.created" \/ \E d \in Before(e)' : d.type = "payment.created"
               /\ \E d \in outbox' : /\ d.type = "customer.created" /\ d.stamp < e.stamp
                                     /\ d.entity = owner'[e.entity]
           /\ e.type = "refund.initiated" =>
               \E d \in outbox' : /\ d.type = "payment.captured" /\ d.stamp < e.stamp
                                  /\ d.entity = refund'[e.entity].payment
           /\ e.type = "refund.processed" => \E d \in Before(e)' : d.type = "refund.initiated"
           /\ e.type = "customer.updated" =>
               /\ \E d \in Before(e)' : d.type = "customer.created"
               /\ \A d \in Before(e)' : d.type # "customer.deleted"
<1> DEFINE t == tx[w]
<1>1. /\ TypeOK /\ ReadsHold(t) /\ PendingSound(t) /\ t.op \in Op /\ t.step = "commit"
      /\ owner \in [Payments -> Customers \cup {None}]
      /\ refund \in [Refunds -> [state : RefundStatus, payment : Payments \cup {None},
                                 amount : Nat]]
  BY SubjectKinds DEF IInv, Consistent, TypeOK, Commit, RecordsInv, ReadsHold
<1>2. \A type : \A d \in Reports(type, e.entity) : d \in Before(e)' /\ d.type = type
  BY DEF Reports, Before, CauseCommitted
<1>3. \A type, x : \A d \in Reports(type, x) : d \in outbox' /\ d.type = type /\ d.entity = x
  BY DEF Reports
<1>4. ASSUME e.entity \in Payments
      PROVE  /\ e.type = "payment.created" \/ \E d \in Before(e)' : d.type = "payment.created"
             /\ \E d \in outbox' : /\ d.type = "customer.created" /\ d.stamp < e.stamp
                                   /\ d.entity = owner'[e.entity]
  <2>1. t.op \in {"create_payment", "transition_payment", "update_payment"}
        /\ e.entity = t.payment
    BY <1>1, <1>4, SubjectKinds, IdsAssumption DEF Op
  <2>2. CASE t.op = "create_payment"
    <3>1. e.type = "payment.created" /\ t.payment \in Payments
      BY <1>1, <2>2, AnnouncedTypes, SubjectKinds
    <3>2. owner' = [owner EXCEPT ![t.payment] = t.customer]
      BY <2>2 DEF Commit, Apply, ApplyCreateCustomer, ApplyDeleteCustomer, ApplyCreatePayment,
                  ApplyTransition, ApplyRefund, ApplyProcess, ApplyUpdate
    <3>3. owner'[e.entity] = t.customer
      BY <1>1, <2>1, <3>1, <3>2
    <3>4. \E d \in Reports("customer.created", t.customer) : d.stamp < e.stamp
      BY <2>2 DEF CauseCommitted
    <3>5. QED
      BY <1>3, <3>1, <3>3, <3>4
  <2>3. CASE t.op \in {"transition_payment", "update_payment"}
    <3>1. t.payment \in Payments /\ status[t.payment] # "none"
      BY <1>1, <2>3, SubjectKinds
    <3>2. owner'[t.payment] = owner[t.payment]
      BY <3>1, CommitKeepsRows
    <3>3. Reports("payment.created", t.payment) # {}
      BY <3>1 DEF RecordsInv, OutboxSound
    <3>4. \E d \in Reports("customer.created", owner[t.payment]) : d.stamp < e.stamp
      BY <2>3 DEF CauseCommitted
    <3>5. QED
      BY <1>2, <1>3, <2>1, <3>2, <3>3, <3>4
  <2>4. QED
    BY <2>1, <2>2, <2>3
<1>5. ASSUME e.type = "refund.initiated"
      PROVE  \E d \in outbox' : /\ d.type = "payment.captured" /\ d.stamp < e.stamp
                                /\ d.entity = refund'[e.entity].payment
  <2>1. t.op = "create_refund" /\ t.refund \in Refunds /\ e.entity = t.refund
    BY <1>1, <1>5, AnnouncedTypes, SubjectKinds DEF Op
  <2>2. refund' = [refund EXCEPT ![t.refund] = [state |-> "initiated", payment |-> t.payment,
                                                amount |-> t.amount]]
    BY <2>1 DEF Commit, Apply, ApplyCreateCustomer, ApplyDeleteCustomer, ApplyCreatePayment,
                ApplyTransition, ApplyRefund, ApplyProcess, ApplyUpdate
  <2>3. refund'[e.entity].payment = t.payment
    BY <1>1, <2>1, <2>2
  <2>4. \E d \in Reports("payment.captured", t.payment) : d.stamp < e.stamp
    BY <2>1 DEF CauseCommitted
  <2>5. QED
    BY <1>3, <2>3, <2>4
<1>6. ASSUME e.type = "refund.processed"
      PROVE  \E d \in Before(e)' : d.type = "refund.initiated"
  <2>1. /\ t.op = "process_refund" /\ t.refund \in Refunds /\ e.entity = t.refund
        /\ refund[t.refund].state = "initiated"
    BY <1>1, <1>6, AnnouncedTypes, SubjectKinds DEF Op, ReadsHold
  <2>2. \E d \in outbox : d.entity = t.refund /\ d.type = "refund.initiated"
    BY <2>1 DEF RecordsInv, OutboxSound, OutboxTellsStatus
  <2>3. QED
    BY <1>2, <2>1, <2>2 DEF Reports
<1>7. ASSUME e.type = "customer.updated"
      PROVE  /\ \E d \in Before(e)' : d.type = "customer.created"
             /\ \A d \in Before(e)' : d.type # "customer.deleted"
  <2>1. /\ t.op = "update_customer" /\ t.customer \in Customers /\ e.entity = t.customer
        /\ customer[t.customer] = "live"
    BY <1>1, <1>7, AnnouncedTypes, SubjectKinds DEF Op, PendingSound
  <2>2. Reports("customer.created", t.customer) # {}
    BY <2>1, RowsReported
  <2>3. \A d \in outbox' : d.entity = t.customer => d.type # "customer.deleted"
    BY <1>7, <2>1 DEF RecordsInv, OutboxSound
  <2>4. QED
    BY <1>2, <2>1, <2>2, <2>3 DEF Before
<1>8. QED
  BY <1>4, <1>5, <1>6, <1>7

LEMMA CommitCausal ==
    ASSUME IInv, RecordsInv, NEW w \in Workers, Commit(w)
    PROVE  OutboxCausal'
<1> DEFINE t == tx[w]
<1>1. PICK e : /\ outbox' = outbox \cup {e} /\ e.type = Announces(t) /\ e.entity = Subject(t)
               /\ CauseCommitted(t, e) /\ e.stamp \in Nat
  BY CommitEvent
<1>2. ASSUME NEW d \in outbox
      PROVE  /\ Before(d)' = Before(d)
             /\ d.entity \in Payments => owner'[d.entity] = owner[d.entity]
             /\ d.type = "refund.initiated" =>
                    refund'[d.entity].payment = refund[d.entity].payment
  <2>1. d.entity \in Payments => status[d.entity] # "none"
    BY DEF RecordsInv, OutboxSound
  <2>2. d.type = "refund.initiated" => d.entity \in Refunds /\ refund[d.entity].state # "none"
    BY DEF RecordsInv, OutboxSound
  <2>3. /\ ReadsHold(t)
        /\ refund \in [Refunds -> [state : RefundStatus, payment : Payments \cup {None},
                                   amount : Nat]]
    BY DEF IInv, Consistent, TypeOK
  <2>4. \A r \in Refunds : refund[r].state # "none" => refund'[r].payment = refund[r].payment
    BY <2>3 DEF Commit, Apply, ApplyCreateCustomer, ApplyDeleteCustomer, ApplyCreatePayment,
                ApplyTransition, ApplyRefund, ApplyProcess, ApplyUpdate, tables, ReadsHold
  <2>5. QED
    BY <2>1, <2>2, <2>4, CommitKeepsRows, CommitBefore
<1>3. ASSUME NEW d \in outbox'
      PROVE  /\ d.entity \in Payments =>
                /\ d.type = "payment.created" \/ \E b \in Before(d)' : b.type = "payment.created"
                /\ \E b \in outbox' : /\ b.type = "customer.created" /\ b.stamp < d.stamp
                                      /\ b.entity = owner'[d.entity]
             /\ d.type = "refund.initiated" =>
                \E b \in outbox' : /\ b.type = "payment.captured" /\ b.stamp < d.stamp
                                   /\ b.entity = refund'[d.entity].payment
             /\ d.type = "refund.processed" => \E b \in Before(d)' : b.type = "refund.initiated"
             /\ d.type = "customer.updated" =>
                /\ \E b \in Before(d)' : b.type = "customer.created"
                /\ \A b \in Before(d)' : b.type # "customer.deleted"
  <2>1. CASE d = e
    BY <1>1, <2>1, CommitCause
  <2>2. CASE d \in outbox
    BY <1>1, <1>2, <2>2 DEF RecordsInv, OutboxSound, OutboxCausal
  <2>3. QED
    BY <1>1, <1>3, <2>1, <2>2
<1>4. QED
  BY <1>3 DEF OutboxCausal

-----------------------------------------------------------------------------
(* The theorems                                                            *)

LEMMA InitRecords == Init => RecordsInv
<1> SUFFICES ASSUME Init PROVE RecordsInv
  OBVIOUS
<1>1. LedgerSound
  BY DEF Init, LedgerSound, Refundable
<1>2. OutboxSound
  BY DEF Init, OutboxSound, OutboxTellsStatus, OutboxCausal, StatusEvents, Refundable
<1>3. (\A w \in Workers : PendingSound(tx[w])) /\ OneWriter
  BY DEF Init, PendingSound, OneWriter, LocksCustomer, Idle, NewTx
<1>4. QED
  BY <1>1, <1>2, <1>3 DEF RecordsInv

LEMMA RecordsCommit ==
    ASSUME IInv, RecordsInv, NEW w \in Workers, Commit(w)
    PROVE  RecordsInv'
<1>1. OutboxTellsStatus'
  BY CommitTellsPayment, CommitTellsRefund DEF OutboxTellsStatus
<1>2. (\A p \in Payments : status[p] # "none" =>
           \E d \in StatusEvents(p) : \A x \in StatusEvents(p) : x.stamp <= d.stamp)'
  BY CommitTellsPayment
<1>3. OutboxSound'
  BY <1>1, <1>2, CommitEventRows, CommitReports, CommitCausal DEF OutboxSound
<1>4. QED
  BY <1>3, CommitLedger, CommitPending DEF RecordsInv

LEMMA NextRecords == IInv /\ RecordsInv /\ [Next]_vars => RecordsInv'
<1> SUFFICES ASSUME IInv, RecordsInv, [Next]_vars PROVE RecordsInv'
  OBVIOUS
<1>1. CASE UNCHANGED vars
  <2>1. \A w \in Workers : PendingSound(tx[w])'
    <3>1. ASSUME NEW t, PendingSound(t) PROVE PendingSound(t)'
      BY <1>1, <3>1 DEF vars, PendingSound, EntryPending, OneEntry, CauseCommitted, Reports
    <3>2. QED
      BY <1>1, <3>1 DEF vars, RecordsInv
  <2>2. LedgerSound' /\ OneWriter'
    BY <1>1 DEF vars, RecordsInv, LedgerSound, EntriesFor, OneWriter
  <2>3. OutboxSound'
    BY <1>1 DEF vars, RecordsInv, OutboxSound, OutboxTellsStatus, OutboxCausal, StatusEvents,
                Before, Reports
  <2>4. QED
    BY <2>1, <2>2, <2>3 DEF RecordsInv
<1>2. ASSUME NEW w \in Workers, Request(w) PROVE RecordsInv'
  BY <1>2, RecordsRequest
<1>3. ASSUME NEW w \in Workers, Statement(w) PROVE RecordsInv'
  BY <1>3, RecordsStatement
<1>4. ASSUME NEW w \in Workers, Commit(w) PROVE RecordsInv'
  BY <1>4, RecordsCommit
<1>5. ASSUME NEW w \in Workers, Abort(w) PROVE RecordsInv'
  BY <1>5, RecordsRollBack DEF Abort
<1>6. QED
  BY <1>1, <1>2, <1>3, <1>4, <1>5 DEF Next

\* Tables, ledger, outbox and what open transactions hold back agree at all times,
\* however requests interleave and wherever they are cut short.
THEOREM RecordsInvariantHolds == Spec => []RecordsInv
BY InitRecords, NextRecords, InvariantHolds, PTL DEF Spec

\* Replaying the outbox in created_at order rebuilds statuses and refunds.
THEOREM OutboxRebuildsTables == Spec => []OutboxTellsStatus
<1>1. RecordsInv => OutboxTellsStatus
  BY DEF RecordsInv, OutboxSound
<1>2. QED
  BY <1>1, RecordsInvariantHolds, PTL

\* In created_at order no event comes before the one that makes sense of it.
THEOREM EventsFollowCauses == Spec => []OutboxCausal
<1>1. RecordsInv => OutboxCausal
  BY DEF RecordsInv, OutboxSound
<1>2. QED
  BY <1>1, RecordsInvariantHolds, PTL

LEMMA LedgerSoundIsComplete ==
    ASSUME IInv, RecordsInv
    PROVE  LedgerComplete
<1>1. LedgerSound /\ \A e \in ledger : e.payment \in Payments
  BY DEF RecordsInv, IInv, TypeOK, IsEntry
<1>2. ASSUME NEW S, NEW A, A \/ S = {}, A => S # {}, \A d, e \in S : d = e
      PROVE  Cardinality(S) = IF A THEN 1 ELSE 0
  <2>1. CASE S = {}
    BY <1>2, <2>1, FS_EmptySet
  <2>2. CASE S # {}
    <3>1. PICK x \in S : TRUE
      BY <2>2
    <3>2. S = {x}
      BY <1>2, <3>1
    <3>3. QED
      BY <1>2, <2>2, <3>2, FS_Singleton
  <2>3. QED
    BY <2>1, <2>2
<1>3. ASSUME NEW p \in Payments
      PROVE  /\ Cardinality(EntriesFor("payment_created", p))
                    = IF status[p] = "none" THEN 0 ELSE 1
             /\ Cardinality(EntriesFor("payment_captured", p))
                    = IF status[p] \in Refundable THEN 1 ELSE 0
             /\ \A e \in EntriesFor("payment_created", p) \cup EntriesFor("payment_captured", p) :
                    e.amount = amount[p]
  <2> DEFINE C == EntriesFor("payment_created", p)
             D == EntriesFor("payment_captured", p)
  <2>1. /\ status[p] # "none" \/ C = {}
        /\ status[p] # "none" => C # {}
        /\ \A d, e \in C : d = e
    BY <1>1 DEF LedgerSound, EntriesFor
  <2>2. /\ status[p] \in Refundable \/ D = {}
        /\ status[p] \in Refundable => D # {}
        /\ \A d, e \in D : d = e
    BY <1>1 DEF LedgerSound, EntriesFor
  <2>3. Cardinality(C) = IF status[p] # "none" THEN 1 ELSE 0
    BY <1>2, <2>1
  <2>4. Cardinality(D) = IF status[p] \in Refundable THEN 1 ELSE 0
    BY <1>2, <2>2
  <2>5. \A e \in C \cup D : e.amount = amount[p]
    BY <1>1 DEF LedgerSound, EntriesFor
  <2>6. QED
    BY <2>3, <2>4, <2>5
<1>4. ASSUME NEW r \in Refunds
      PROVE  {<<e.payment, e.amount>> : e \in {x \in ledger : x.refund = r}} =
                 IF refund[r].state = "none" THEN {}
                 ELSE {<<refund[r].payment, refund[r].amount>>}
  <2>1. \A e \in ledger : e.refund = r => /\ refund[r].state # "none"
                                          /\ e.payment = refund[r].payment
                                          /\ e.amount = refund[r].amount
    BY <1>1 DEF LedgerSound
  <2>2. refund[r].state # "none" => \E e \in ledger : e.refund = r
    BY <1>1 DEF LedgerSound
  <2>3. QED
    BY <2>1, <2>2
<1>5. QED
  BY <1>3, <1>4 DEF LedgerComplete

\* Each payment, capture and refund has its ledger entry, and no entry is about
\* anything else.
THEOREM LedgerHasEveryEntry == Spec => []LedgerComplete
BY LedgerSoundIsComplete, InvariantHolds, RecordsInvariantHolds, PTL

-----------------------------------------------------------------------------
(* amount_refunded is the sum of the refunds                               *)

LEMMA InitReserved == Init => ReservedInv
<1> SUFFICES ASSUME Init PROVE ReservedInv
  OBVIOUS
<1>1. \A p \in Payments : RefundsOf(p) = {}
  BY NoneAssumption DEF Init, RefundsOf
<1>2. \A p \in Payments : IsFiniteSet(RefundsOf(p))
  BY <1>1, FS_EmptySet
<1>3. \A p \in Payments : refunded[p] = AmountSum(refund, RefundsOf(p))
  BY <1>1, SumOfNone DEF Init
<1>4. RefundsReserved
  BY <1>3 DEF RefundsReserved, AmountSum
<1>5. QED
  BY <1>2, <1>4 DEF ReservedInv, Init

\* A step that leaves the refunds' payments and amounts alone.
LEMMA ReservedSame ==
    ASSUME TypeOK, ReservedInv, UNCHANGED refunded,
           \A r \in Refunds : /\ refund'[r].payment = refund[r].payment
                              /\ refund'[r].amount = refund[r].amount
                              /\ refund'[r].state = "none" => refund[r].state = "none"
    PROVE  ReservedInv'
<1>1. \A p \in Payments : RefundsOf(p)' = RefundsOf(p)
  BY DEF RefundsOf
<1>2. ASSUME NEW p \in Payments
      PROVE  refunded'[p] = AmountSum(refund', RefundsOf(p)')
  <2>1. IsFiniteSet(RefundsOf(p)) /\ NaturalAmounts(refund, RefundsOf(p))
    BY DEF ReservedInv, NaturalAmounts, TypeOK, RefundsOf
  <2>2. \A r \in RefundsOf(p) : refund[r].amount = refund'[r].amount
    BY DEF RefundsOf
  <2>3. AmountSum(refund, RefundsOf(p)) = AmountSum(refund', RefundsOf(p))
    BY <2>1, <2>2, SumOfSameAmounts
  <2>4. refunded[p] = AmountSum(refund, RefundsOf(p))
    BY DEF ReservedInv, RefundsReserved, AmountSum
  <2>5. QED
    BY <1>1, <2>3, <2>4
<1>3. RefundsReserved'
  BY <1>2 DEF RefundsReserved, AmountSum, MapThenSumSet, MapThenFoldSet
<1>4. QED
  BY <1>1, <1>3 DEF ReservedInv

\* A refund that is issued adds its amount to its payment's sum, and to no other.
LEMMA ReservedRefund ==
    ASSUME TypeOK, ReservedInv, NEW p \in Payments, NEW r \in Refunds, NEW a \in Nat,
           refund[r].state = "none",
           refunded' = [refunded EXCEPT ![p] = refunded[p] + a],
           refund' = [refund EXCEPT ![r] = [state |-> "initiated", payment |-> p, amount |-> a]]
    PROVE  ReservedInv'
<1>1. /\ refund \in [Refunds -> [state : RefundStatus, payment : Payments \cup {None},
                                 amount : Nat]]
      /\ refunded \in [Payments -> Nat]
  BY DEF TypeOK
<1>2. refund[r].payment \notin Payments
  BY NoneAssumption DEF ReservedInv
<1>3. ASSUME NEW q \in Payments
      PROVE  RefundsOf(q)' = IF q = p THEN RefundsOf(q) \cup {r} ELSE RefundsOf(q)
  BY <1>1, <1>2, <1>3 DEF RefundsOf
<1>4. ASSUME NEW q \in Payments
      PROVE  /\ IsFiniteSet(RefundsOf(q)) /\ r \notin RefundsOf(q)
             /\ refunded[q] = AmountSum(refund, RefundsOf(q))
             /\ NaturalAmounts(refund, RefundsOf(q))
             /\ AmountSum(refund, RefundsOf(q)) = AmountSum(refund', RefundsOf(q))
  <2>1. IsFiniteSet(RefundsOf(q)) /\ r \notin RefundsOf(q)
    BY <1>2 DEF ReservedInv, RefundsOf
  <2>2. refunded[q] = AmountSum(refund, RefundsOf(q))
    BY DEF ReservedInv, RefundsReserved, AmountSum
  <2>3. NaturalAmounts(refund, RefundsOf(q))
    BY <1>1 DEF NaturalAmounts, RefundsOf
  <2>4. \A x \in RefundsOf(q) : refund[x].amount = refund'[x].amount
    BY <1>1, <2>1 DEF RefundsOf
  <2>5. QED
    BY <2>1, <2>2, <2>3, <2>4, SumOfSameAmounts
<1>5. ASSUME NEW q \in Payments
      PROVE  refunded'[q] = AmountSum(refund', RefundsOf(q)') /\ IsFiniteSet(RefundsOf(q)')
  <2>1. CASE q # p
    BY <1>1, <1>3, <1>4, <2>1
  <2>2. CASE q = p
    <3>1. RefundsOf(q)' = RefundsOf(q) \cup {r} /\ IsFiniteSet(RefundsOf(q) \cup {r})
      BY <1>3, <1>4, <2>2, FS_AddElement
    <3>2. NaturalAmounts(refund', RefundsOf(q) \cup {r}) /\ refund'[r].amount = a
      BY <1>1 DEF NaturalAmounts, RefundsOf
    <3>3. AmountSum(refund', RefundsOf(q) \cup {r})
              = AmountSum(refund', RefundsOf(q)) + refund'[r].amount
      <4>1. \A S : IsFiniteSet(S) /\ r \notin S /\ NaturalAmounts(refund', S \cup {r}) =>
                AmountSum(refund', S \cup {r}) = AmountSum(refund', S) + refund'[r].amount
        BY SumWithRow
      <4>2. QED
        BY <1>4, <3>2, <4>1
    <3>4. QED
      BY <1>1, <1>4, <2>2, <3>1, <3>2, <3>3
  <2>3. QED
    BY <2>1, <2>2
<1>6. RefundsReserved'
  BY <1>5 DEF RefundsReserved, AmountSum, MapThenSumSet, MapThenFoldSet
<1>7. \A x \in Refunds : refund'[x].state = "none" => refund'[x].payment = None
  BY <1>1 DEF ReservedInv
<1>8. QED
  BY <1>5, <1>6, <1>7 DEF ReservedInv

LEMMA NextReserved == IInv /\ ReservedInv /\ [Next]_vars => ReservedInv'
<1> SUFFICES ASSUME IInv, ReservedInv, [Next]_vars PROVE ReservedInv'
  OBVIOUS
<1>t. TypeOK /\ refund \in [Refunds -> [state : RefundStatus, payment : Payments \cup {None},
                                        amount : Nat]]
  BY DEF IInv, TypeOK
<1>1. CASE UNCHANGED <<refund, refunded>>
  BY <1>t, <1>1, ReservedSame
<1>2. ASSUME NEW w \in Workers, Commit(w) PROVE ReservedInv'
  <2> DEFINE t == tx[w]
  <2>1. ReadsHold(t) /\ IsTransaction(t)
    BY <1>t DEF IInv, Consistent, TypeOK
  <2>2. CASE ApplyRefund(t)
    <3>1. t.payment \in Payments /\ t.refund \in Refunds /\ t.amount \in Nat
          /\ refund[t.refund].state = "none"
      BY <2>1, <2>2 DEF ApplyRefund, ReadsHold, IsTransaction
    <3>2. QED
      BY <1>t, <2>2, <3>1, ReservedRefund DEF ApplyRefund
  <2>3. CASE ApplyProcess(t)
    <3>1. /\ refunded' = refunded /\ t.refund \in Refunds
          /\ refund' = [refund EXCEPT ![t.refund] = [state |-> "processed",
                                                     payment |-> refund[t.refund].payment,
                                                     amount |-> refund[t.refund].amount]]
      BY <2>1, <2>3 DEF ApplyProcess, ReadsHold
    <3>2. \A r \in Refunds : /\ refund'[r].payment = refund[r].payment
                             /\ refund'[r].amount = refund[r].amount
                             /\ refund'[r].state = "none" => refund[r].state = "none"
      BY <1>t, <3>1
    <3>3. QED
      BY <1>t, <3>1, <3>2, ReservedSame
  <2>4. CASE ~ApplyRefund(t) /\ ~ApplyProcess(t)
    BY <1>1, <1>2, <2>4 DEF Commit, Apply, ApplyCreateCustomer, ApplyDeleteCustomer,
                            ApplyCreatePayment, ApplyTransition, ApplyUpdate, tables
  <2>5. QED
    BY <2>2, <2>3, <2>4
<1>3. ASSUME NEW w \in Workers, Request(w) \/ Statement(w) \/ Abort(w) PROVE ReservedInv'
  BY <1>1, <1>3
  DEF Request, CreateCustomer, FindCustomer, CreatePayment, TransitionPayment, UpdatePayment,
      CreateRefund, ProcessRefund, Begin, LockForTransition, LockForUpdate, LockForRefund,
      LockForProcess, MoveOn, Statement, InsertCustomer, UpdateCustomerRow,
      DeleteCustomerRow, InsertPayment, InsertPaymentLedger, WriteTransition, WriteUpdate,
      WriteRefund, WriteProcess, Write, RollBack, Abort, tables
<1>4. QED
  BY <1>1, <1>2, <1>3 DEF Next, vars

\* amount_refunded is what the payment's refunds add up to, however many of them
\* race for the remainder.
THEOREM RefundsAddUp == Spec => []RefundsReserved
<1>1. ReservedInv => RefundsReserved
  BY DEF ReservedInv
<1>2. QED
  BY <1>1, InitReserved, NextReserved, InvariantHolds, PTL DEF Spec
=============================================================================
