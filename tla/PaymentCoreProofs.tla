---------------------------- MODULE PaymentCoreProofs ----------------------------
(***************************************************************************)
(* Proofs about the write side, for any ids, amounts, workers and bound:   *)
(* type correctness, the inductive invariant IInv with the safety          *)
(* properties it implies, and the refinement of PaymentLifecycle.          *)
(***************************************************************************)
EXTENDS PaymentCoreProperties, TLAPS

-----------------------------------------------------------------------------
(* Type correctness                                                        *)

\* A step of worker w leaves the other transactions alone.
OnlyTx(w) == DOMAIN tx' = Workers /\ \A v \in Workers : v # w => tx'[v] = tx[v]

\* Replacing one transaction by a well-typed one keeps the types, while the
\* clock only moves on and the tables stay.
LEMMA TypeOfTx ==
    ASSUME TypeOK, NEW w \in Workers, OnlyTx(w), UNCHANGED <<tables, ledger, outbox>>,
           clock' \in {clock, clock + 1}, IsTransaction(tx[w])'
    PROVE  TypeOK'
<1>1. clock' \in Nat /\ 1..clock \subseteq 1..clock'
  BY DEF TypeOK
<1>2. /\ \A e : IsEntry(e) => IsEntry(e)'
      /\ \A e : IsEvent(e) => IsEvent(e)'
  BY <1>1 DEF IsEntry, IsEvent
<1>3. ASSUME NEW v \in Workers PROVE IsTransaction(tx[v])'
  <2>1. CASE v = w
    BY <2>1
  <2>2. CASE v # w
    BY <1>2, <2>2 DEF TypeOK, IsTransaction, OnlyTx
  <2>3. QED
    BY <2>1, <2>2
<1>4. QED
  BY <1>1, <1>2, <1>3 DEF TypeOK, tables, OnlyTx

\* Opening a transaction.
LEMMA TypeOfBegin ==
    ASSUME TypeOK, NEW w \in Workers, NEW op \in Op, NEW step \in {"lock", "write", "insert"},
           NEW c \in Customers \cup {None}, NEW p \in Payments \cup {None},
           NEW r \in Refunds \cup {None}, NEW a \in Nat, NEW target \in PaymentStatus,
           Begin(w, NewTx(op, step, c, p, r, a, target))
    PROVE  TypeOK'
<1>1. OnlyTx(w) /\ tx'[w] = NewTx(op, step, c, p, r, a, target)
  BY DEF TypeOK, Begin, OnlyTx
<1>2. IsTransaction(tx[w])'
  BY <1>1 DEF IsTransaction, NewTx
<1>3. QED
  BY <1>1, <1>2, TypeOfTx DEF Begin

\* Executing a statement, with well-typed rows to insert.
LEMMA TypeOfWrite ==
    ASSUME TypeOK, NEW w \in Workers, NEW entry, NEW event, Write(w, entry, event),
           \A e \in entry : IsEntry(e)', \A e \in event : IsEvent(e)'
    PROVE  TypeOK'
<1>1. OnlyTx(w) /\ tx'[w] = AtStep(tx[w], "commit", entry, event)
  BY DEF TypeOK, Write, OnlyTx
<1>2. IsTransaction(tx[w])
  BY DEF TypeOK
<1>3. IsTransaction(tx[w])'
  BY <1>1, <1>2 DEF IsTransaction, AtStep
<1>4. QED
  BY <1>1, <1>3, TypeOfTx DEF Write

\* Going on to the next statement.
LEMMA TypeOfMove ==
    ASSUME TypeOK, NEW w \in Workers, NEW step \in {"write", "ledger"}, MoveOn(w, step)
    PROVE  TypeOK'
<1>1. OnlyTx(w) /\ tx'[w] = AtStep(tx[w], step, {}, {})
  BY DEF TypeOK, MoveOn, OnlyTx
<1>2. IsTransaction(tx[w])
  BY DEF TypeOK
<1>3. IsTransaction(tx[w])'
  BY <1>1, <1>2 DEF IsTransaction, AtStep
<1>4. QED
  BY <1>1, <1>3, TypeOfTx DEF MoveOn

\* Rolling back.
LEMMA TypeOfRollBack ==
    ASSUME TypeOK, NEW w \in Workers, RollBack(w)
    PROVE  TypeOK'
<1>1. OnlyTx(w) /\ tx'[w] = Idle
  BY DEF TypeOK, RollBack, OnlyTx
<1>2. IsTransaction(tx[w])'
  BY <1>1 DEF IsTransaction, Idle, NewTx, PaymentStatus
<1>3. QED
  BY <1>1, <1>2, TypeOfTx DEF RollBack

\* The rows a statement prepares.
LEMMA TypeOfRows ==
    ASSUME clock \in Nat, clock' = clock + 1
    PROVE  /\ \A type \in EventType, x \in Customers \cup Payments \cup Refunds :
                  \A e \in emit_event(type, x) : IsEvent(e)'
           /\ \A type \in LedgerEntryType, p \in Payments, r \in Refunds \cup {None}, a \in Nat :
                  \A e \in ledger_entry(type, p, r, a) : IsEntry(e)'
BY DEF emit_event, ledger_entry, IsEvent, IsEntry

\* The statements of the requests.
LEMMA TypeOfStatement ==
    ASSUME IInv, NEW w \in Workers, Statement(w)
    PROVE  TypeOK'
<1> USE DEF IInv, Consistent
<1>t. TypeOK /\ ReadsHold(tx[w]) /\ IsTransaction(tx[w]) /\ clock \in Nat
  BY DEF TypeOK
<1>1. ASSUME NEW entry, NEW event, Write(w, entry, event),
             clock' = clock + 1 => \A e \in entry : IsEntry(e)',
             clock' = clock + 1 => \A e \in event : IsEvent(e)'
      PROVE  TypeOK'
  BY <1>1, <1>t, TypeOfWrite DEF Write
<1>2. CASE InsertCustomer(w)
  BY <1>1, <1>2, <1>t, TypeOfRows DEF InsertCustomer, ReadsHold, EventType
<1>3. CASE UpdateCustomerRow(w)
  <2>1. tx[w].customer \in Customers
    BY <1>3, <1>t DEF UpdateCustomerRow, ReadsHold
  <2>2. QED
    BY <1>1, <1>3, <1>t, <2>1, TypeOfRows, TypeOfRollBack DEF UpdateCustomerRow, EventType
<1>4. CASE DeleteCustomerRow(w)
  <2>1. tx[w].customer \in Customers
    BY <1>4, <1>t DEF DeleteCustomerRow, ReadsHold
  <2>2. QED
    BY <1>1, <1>4, <1>t, <2>1, TypeOfRows, TypeOfRollBack DEF DeleteCustomerRow, EventType
<1>5. CASE InsertPayment(w)
  BY <1>5, <1>t, TypeOfMove, TypeOfRollBack DEF InsertPayment
<1>6. CASE InsertPaymentLedger(w)
  <2>1. tx[w].payment \in Payments /\ tx[w].amount \in Nat
    BY <1>6, <1>t DEF InsertPaymentLedger, ReadsHold, IsTransaction
  <2>2. QED
    BY <1>1, <1>6, <1>t, <2>1, TypeOfRows DEF InsertPaymentLedger, EventType, LedgerEntryType
<1>7. CASE WriteTransition(w)
  <2>1. tx[w].payment \in Payments /\ tx[w].target \in VALID_TRANSITIONS[status[tx[w].payment]]
    BY <1>7, <1>t DEF WriteTransition, ReadsHold
  <2>2. amount[tx[w].payment] \in Nat /\ status[tx[w].payment] \in PaymentStatus
    BY <2>1 DEF TypeOK
  <2>3. event_type_map[tx[w].target] \in EventType
    BY <2>1, <2>2 DEF VALID_TRANSITIONS, event_type_map, EventType, PaymentStatus
  <2>4. QED
    BY <1>1, <1>7, <1>t, <2>1, <2>2, <2>3, TypeOfRows DEF WriteTransition, LedgerEntryType
<1>8. CASE WriteUpdate(w)
  BY <1>1, <1>8, <1>t, TypeOfRows DEF WriteUpdate, ReadsHold, EventType
<1>9. CASE WriteRefund(w)
  <2>1. tx[w].payment \in Payments /\ tx[w].refund \in Refunds /\ tx[w].amount \in Nat
    BY <1>9, <1>t DEF WriteRefund, ReadsHold, IsTransaction
  <2>2. QED
    BY <1>1, <1>9, <1>t, <2>1, TypeOfRows DEF WriteRefund, EventType, LedgerEntryType
<1>10. CASE WriteProcess(w)
  BY <1>1, <1>10, <1>t, TypeOfRows DEF WriteProcess, ReadsHold, EventType
<1>11. CASE LockForTransition(w) \/ LockForUpdate(w) \/ LockForRefund(w) \/ LockForProcess(w)
  BY <1>11, <1>t, TypeOfMove, TypeOfRollBack
  DEF LockForTransition, LockForUpdate, LockForRefund, LockForProcess
<1>12. QED
  BY <1>2, <1>3, <1>4, <1>5, <1>6, <1>7, <1>8, <1>9, <1>10, <1>11 DEF Statement

\* Picking up a request.
LEMMA TypeOfRequest ==
    ASSUME IInv, NEW w \in Workers, Request(w)
    PROVE  TypeOK'
<1> USE AmountsAssumption DEF IInv, Op, PaymentStatus
<1>1. ASSUME NEW c \in Customers, CreateCustomer(w, c) PROVE TypeOK'
  BY <1>1, TypeOfBegin DEF CreateCustomer
<1>2. ASSUME NEW c \in Customers, NEW op \in {"update_customer", "delete_customer"},
             FindCustomer(w, c, op)
      PROVE  TypeOK'
  BY <1>2, TypeOfBegin DEF FindCustomer
<1>3. ASSUME NEW p \in Payments, NEW c \in Customers, NEW a \in Amounts, CreatePayment(w, p, c, a)
      PROVE  TypeOK'
  BY <1>3, TypeOfBegin DEF CreatePayment
<1>4. ASSUME NEW p \in Payments, NEW s \in DOMAIN event_type_map, TransitionPayment(w, p, s)
      PROVE  TypeOK'
  BY <1>4, TypeOfBegin DEF TransitionPayment, event_type_map
<1>5. ASSUME NEW p \in Payments, UpdatePayment(w, p) PROVE TypeOK'
  BY <1>5, TypeOfBegin DEF UpdatePayment
<1>6. ASSUME NEW p \in Payments, NEW r \in Refunds, NEW a \in Amounts, CreateRefund(w, p, r, a)
      PROVE  TypeOK'
  BY <1>6, TypeOfBegin DEF CreateRefund
<1>7. ASSUME NEW r \in Refunds, ProcessRefund(w, r) PROVE TypeOK'
  BY <1>7, TypeOfBegin DEF ProcessRefund
<1>8. QED
  BY <1>1, <1>2, <1>3, <1>4, <1>5, <1>6, <1>7 DEF Request

\* Committing.
LEMMA TypeOfCommit ==
    ASSUME IInv, NEW w \in Workers, Commit(w)
    PROVE  TypeOK'
<1> DEFINE t == tx[w]
<1> USE DEF IInv, Consistent
<1>1. TypeOK /\ ReadsHold(t) /\ IsTransaction(t)
  BY DEF TypeOK
<1>2. /\ OnlyTx(w) /\ tx'[w] = Idle /\ clock' = clock
      /\ ledger' = ledger \cup t.entry /\ outbox' = outbox \cup t.event
  BY DEF Commit, TypeOK, OnlyTx
<1>3. /\ \A e : IsEntry(e) => IsEntry(e)'
      /\ \A e : IsEvent(e) => IsEvent(e)'
  BY <1>2 DEF IsEntry, IsEvent
<1>4. \A v \in Workers : IsTransaction(tx[v])'
  BY <1>2, <1>3 DEF TypeOK, OnlyTx, IsTransaction, Idle, NewTx, PaymentStatus
<1>5. /\ \A e \in ledger' : IsEntry(e)'
      /\ \A e \in outbox' : IsEvent(e)'
  BY <1>1, <1>2, <1>3 DEF TypeOK, IsTransaction
<1>6. /\ customer' \in [Customers -> CustomerStatus]
      /\ status' \in [Payments -> PaymentStatus]
      /\ owner' \in [Payments -> Customers \cup {None}]
      /\ amount' \in [Payments -> Nat]
      /\ refunded' \in [Payments -> Nat]
      /\ refund' \in [Refunds -> [state : RefundStatus, payment : Payments \cup {None},
                                  amount : Nat]]
  <2> USE <1>1 DEF TypeOK, IsTransaction, CustomerStatus, PaymentStatus, RefundStatus
  <2>1. CASE ApplyCreateCustomer(t)
    BY <2>1 DEF ApplyCreateCustomer
  <2>2. CASE ApplyDeleteCustomer(t)
    BY <2>2 DEF ApplyDeleteCustomer
  <2>3. CASE ApplyCreatePayment(t)
    BY <2>3 DEF ApplyCreatePayment
  <2>4. CASE ApplyTransition(t)
    BY <2>4 DEF ApplyTransition
  <2>5. CASE ApplyRefund(t)
    <3>1. t.payment \in Payments /\ t.refund \in Refunds
      BY <2>5 DEF ApplyRefund, ReadsHold
    <3>2. QED
      BY <2>5, <3>1 DEF ApplyRefund
  <2>6. CASE ApplyProcess(t)
    <3>1. t.refund \in Refunds
      BY <2>6 DEF ApplyProcess, ReadsHold
    <3>2. QED
      BY <2>6, <3>1 DEF ApplyProcess
  <2>7. CASE ApplyUpdate(t)
    BY <2>7 DEF ApplyUpdate, tables
  <2>8. QED
    BY <2>1, <2>2, <2>3, <2>4, <2>5, <2>6, <2>7 DEF Commit, Apply
<1>7. QED
  BY <1>1, <1>2, <1>4, <1>5, <1>6 DEF TypeOK, OnlyTx

-----------------------------------------------------------------------------
(* The inductive invariant                                                 *)

\* A step that only replaces w's transaction keeps the invariant when the new
\* one's checks hold and it is kept apart from the others.
LEMMA ConsistentTx ==
    ASSUME Consistent, NEW w \in Workers, OnlyTx(w), UNCHANGED tables,
           ReadsHold(tx'[w]),
           \A v \in Workers : v # w => Compatible(tx[v], tx'[w]) /\ Compatible(tx'[w], tx[v])
    PROVE  Consistent'
<1>1. \A v \in Workers : ReadsHold(tx[v])'
  BY DEF Consistent, OnlyTx, tables, ReadsHold
<1>2. \A u, v \in Workers : u # v => Compatible(tx'[u], tx'[v])
  BY DEF Consistent, OnlyTx
<1>3. /\ BlankUntilCreated' /\ RefundsWithinCharge' /\ PaymentsKeepCustomer'
  BY DEF Consistent, tables, BlankUntilCreated, RefundsWithinCharge, PaymentsKeepCustomer
<1>4. QED
  BY <1>1, <1>2, <1>3 DEF Consistent

LEMMA ConsistentRollBack ==
    ASSUME IInv, NEW w \in Workers, RollBack(w)
    PROVE  Consistent'
<1>1. OnlyTx(w) /\ tx'[w] = Idle
  BY DEF IInv, TypeOK, RollBack, OnlyTx
<1>2. ReadsHold(Idle)
  BY DEF ReadsHold, Idle, NewTx
<1>3. \A v \in Workers : Compatible(tx[v], Idle) /\ Compatible(Idle, tx[v])
  BY DEF Compatible, Idle, NewTx, LocksPayment, LocksRefund, LocksCustomer, SharesCustomer
<1>4. QED
  BY <1>1, <1>2, <1>3, ConsistentTx DEF IInv, RollBack

\* A statement other than a DELETE only moves the transaction on.
LEMMA ConsistentWrite ==
    ASSUME IInv, NEW w \in Workers, NEW entry, NEW event, Write(w, entry, event),
           tx[w].op # "idle", tx[w].step # "lock",
           tx[w].op = "delete_customer" =>
               (\A p \in Payments : owner[p] # tx[w].customer) /\ NoSharePending(tx[w].customer),
           tx[w].op = "create_payment" => tx[w].step = "ledger"
    PROVE  Consistent'
<1>1. OnlyTx(w) /\ tx'[w] = AtStep(tx[w], "commit", entry, event)
  BY DEF IInv, TypeOK, Write, OnlyTx
<1>2. ReadsHold(tx[w])
  BY DEF IInv, Consistent
<1>3. ReadsHold(tx'[w])
  BY <1>1, <1>2 DEF ReadsHold, AtStep
<1>4. ASSUME NEW v \in Workers, v # w
      PROVE  Compatible(tx[v], tx'[w]) /\ Compatible(tx'[w], tx[v])
  <2>1. Compatible(tx[v], tx[w]) /\ Compatible(tx[w], tx[v])
    BY <1>4 DEF IInv, Consistent
  <2>2. \A p \in Payments : LocksPayment(tx'[w], p) <=> LocksPayment(tx[w], p)
    BY <1>1 DEF LocksPayment, AtStep
  <2>3. \A r \in Refunds : LocksRefund(tx'[w], r) <=> LocksRefund(tx[w], r)
    BY <1>1 DEF LocksRefund, AtStep
  <2>4. \A c \in Customers : SharesCustomer(tx'[w], c) <=> SharesCustomer(tx[w], c)
    BY <1>1 DEF SharesCustomer, AtStep
  <2>5. \A c \in Customers :
            LocksCustomer(tx'[w], c) /\ tx'[w].op = "delete_customer" => ~SharesCustomer(tx[v], c)
    BY <1>1, <2>1 DEF LocksCustomer, AtStep, NoSharePending
  <2>6. QED
    BY <1>1, <2>1, <2>2, <2>3, <2>4, <2>5 DEF Compatible, AtStep
<1>5. QED
  BY <1>1, <1>3, <1>4, ConsistentTx DEF IInv, Write

\* A statement that gets its lock is kept apart from whoever holds one.
LEMMA ConsistentMove ==
    ASSUME IInv, NEW w \in Workers, MoveOn(w, "write"), tx[w].step = "lock",
           tx[w].op \in {"transition_payment", "create_refund", "update_payment", "process_refund"},
           ReadsHold(AtStep(tx[w], "write", {}, {})),
           tx[w].op # "process_refund" => PaymentFree(tx[w].payment),
           tx[w].op = "process_refund" => RefundFree(tx[w].refund)
    PROVE  Consistent'
<1>1. OnlyTx(w) /\ tx'[w] = AtStep(tx[w], "write", {}, {})
  BY DEF IInv, TypeOK, MoveOn, OnlyTx
<1>2. ASSUME NEW v \in Workers, v # w
      PROVE  Compatible(tx[v], tx'[w]) /\ Compatible(tx'[w], tx[v])
  <2>1. Compatible(tx[v], tx[w]) /\ Compatible(tx[w], tx[v])
    BY <1>2 DEF IInv, Consistent
  <2>2. \A p \in Payments : ~(LocksPayment(tx[v], p) /\ LocksPayment(tx'[w], p))
    BY <1>1 DEF LocksPayment, AtStep, PaymentFree
  <2>3. \A r \in Refunds : ~(LocksRefund(tx[v], r) /\ LocksRefund(tx'[w], r))
    BY <1>1 DEF LocksRefund, AtStep, RefundFree
  <2>4. \A c \in Customers : ~LocksCustomer(tx'[w], c) /\ ~SharesCustomer(tx'[w], c)
    BY <1>1 DEF LocksCustomer, SharesCustomer, AtStep
  <2>5. /\ tx'[w].op = tx[w].op /\ tx'[w].customer = tx[w].customer
        /\ tx'[w].payment = tx[w].payment /\ tx'[w].refund = tx[w].refund
    BY <1>1 DEF AtStep
  <2>6. QED
    BY <2>1, <2>2, <2>3, <2>4, <2>5 DEF Compatible
<1>3. QED
  BY <1>1, <1>2, ConsistentTx DEF IInv, MoveOn

LEMMA ConsistentStatement ==
    ASSUME IInv, NEW w \in Workers, Statement(w)
    PROVE  Consistent'
<1>1. CASE InsertCustomer(w)
  BY <1>1, ConsistentWrite DEF InsertCustomer
<1>2. CASE UpdateCustomerRow(w)
  BY <1>2, ConsistentWrite, ConsistentRollBack DEF UpdateCustomerRow
<1>3. CASE DeleteCustomerRow(w)
  BY <1>3, ConsistentWrite, ConsistentRollBack DEF DeleteCustomerRow
<1>4. CASE InsertPayment(w)
  <2>1. CASE RollBack(w)
    BY <2>1, ConsistentRollBack
  <2>2. CASE customer[tx[w].customer] = "live" /\ MoveOn(w, "ledger")
    <3>1. OnlyTx(w) /\ tx'[w] = AtStep(tx[w], "ledger", {}, {})
      BY <2>2 DEF IInv, TypeOK, OnlyTx, MoveOn
    <3>2. ReadsHold(tx[w]) /\ tx[w].op = "create_payment"
      BY <1>4 DEF IInv, Consistent, InsertPayment
    <3>3. ReadsHold(tx'[w])
      BY <2>2, <3>1, <3>2 DEF ReadsHold, AtStep
    <3>4. ASSUME NEW v \in Workers, v # w
          PROVE  Compatible(tx[v], tx'[w]) /\ Compatible(tx'[w], tx[v])
      <4>1. Compatible(tx[v], tx[w]) /\ Compatible(tx[w], tx[v])
        BY <3>4 DEF IInv, Consistent
      <4>2. ~(LocksCustomer(tx[v], tx[w].customer) /\ tx[v].op = "delete_customer")
        BY <1>4 DEF InsertPayment, NoDeletePending
      <4>3. QED
        BY <3>1, <3>2, <4>1, <4>2
        DEF Compatible, AtStep, LocksPayment, LocksRefund, LocksCustomer, SharesCustomer
    <3>5. QED
      BY <2>2, <3>1, <3>3, <3>4, ConsistentTx DEF IInv, MoveOn
  <2>3. QED
    BY <1>4, <2>1, <2>2 DEF InsertPayment
<1>5. CASE InsertPaymentLedger(w)
  BY <1>5, ConsistentWrite DEF InsertPaymentLedger
<1>6. CASE WriteTransition(w)
  BY <1>6, ConsistentWrite DEF WriteTransition
<1>7. CASE WriteUpdate(w)
  BY <1>7, ConsistentWrite DEF WriteUpdate
<1>8. CASE WriteRefund(w)
  BY <1>8, ConsistentWrite DEF WriteRefund
<1>9. CASE WriteProcess(w)
  BY <1>9, ConsistentWrite DEF WriteProcess
<1>10. CASE LockForTransition(w)
  <2>1. tx[w].target \in VALID_TRANSITIONS[status[tx[w].payment]] =>
            ReadsHold(AtStep(tx[w], "write", {}, {}))
    BY <1>10 DEF LockForTransition, IInv, Consistent, ReadsHold, AtStep
  <2>2. QED
    BY <1>10, <2>1, ConsistentMove, ConsistentRollBack DEF LockForTransition
<1>11. CASE LockForUpdate(w)
  <2>1. ReadsHold(AtStep(tx[w], "write", {}, {}))
    BY <1>11 DEF LockForUpdate, IInv, Consistent, ReadsHold, AtStep
  <2>2. QED
    BY <1>11, <2>1, ConsistentMove DEF LockForUpdate
<1>12. CASE LockForRefund(w)
  <2>1. ReadsHold(tx[w]) /\ tx[w].op = "create_refund"
    BY <1>12 DEF LockForRefund, IInv, Consistent
  <2>2. tx[w].amount \in Nat /\ tx[w].payment \in Payments
    BY <2>1, AmountsAssumption DEF ReadsHold
  <2>3. MayRefund(tx[w].payment, tx[w].amount) => ReadsHold(AtStep(tx[w], "write", {}, {}))
    <3>1. amount[tx[w].payment] \in Nat /\ refunded[tx[w].payment] \in Nat
      BY <2>2 DEF IInv, TypeOK
    <3>2. QED
      BY <2>1, <2>2, <3>1 DEF MayRefund, ReadsHold, AtStep
  <2>4. QED
    BY <1>12, <2>3, ConsistentMove, ConsistentRollBack DEF LockForRefund
<1>13. CASE LockForProcess(w)
  <2>1. refund[tx[w].refund].state = "initiated" => ReadsHold(AtStep(tx[w], "write", {}, {}))
    BY <1>13 DEF LockForProcess, IInv, Consistent, ReadsHold, AtStep
  <2>2. QED
    BY <1>13, <2>1, ConsistentMove, ConsistentRollBack DEF LockForProcess
<1>14. QED
  BY <1>1, <1>2, <1>3, <1>4, <1>5, <1>6, <1>7, <1>8, <1>9, <1>10, <1>11, <1>12, <1>13
  DEF Statement

\* A request starts with no lock, and with ids of its own.
LEMMA ConsistentBegin ==
    ASSUME IInv, NEW w \in Workers, NEW op \in Op, NEW step \in {"lock", "write", "insert"},
           NEW c, NEW p, NEW r, NEW a, NEW target,
           Begin(w, NewTx(op, step, c, p, r, a, target)),
           ReadsHold(NewTx(op, step, c, p, r, a, target)),
           op \in {"transition_payment", "create_refund", "update_payment", "process_refund"} =>
               step = "lock",
           op = "create_customer" => FreshCustomer(c),
           op = "create_payment" => FreshPayment(p),
           op = "create_refund" => FreshRefund(r)
    PROVE  Consistent'
<1> DEFINE t == NewTx(op, step, c, p, r, a, target)
<1>1. OnlyTx(w) /\ tx'[w] = t
  BY DEF IInv, TypeOK, Begin, OnlyTx
<1>2. ASSUME NEW v \in Workers, v # w
      PROVE  Compatible(tx[v], t) /\ Compatible(t, tx[v])
  <2>1. \A q \in Payments : ~(LocksPayment(tx[v], q) /\ LocksPayment(t, q))
    BY DEF LocksPayment, NewTx
  <2>2. \A q \in Refunds : ~(LocksRefund(tx[v], q) /\ LocksRefund(t, q))
    BY DEF LocksRefund, NewTx
  <2>3. \A q \in Customers : ~LocksCustomer(t, q) /\ ~SharesCustomer(t, q)
    BY DEF LocksCustomer, SharesCustomer, NewTx
  <2>4. tx[v].op = t.op =>
            /\ t.op = "create_customer" => t.customer # tx[v].customer
            /\ t.op = "create_payment" => t.payment # tx[v].payment
            /\ t.op = "create_refund" => t.refund # tx[v].refund
    BY DEF NewTx, FreshCustomer, FreshPayment, FreshRefund
  <2>5. QED
    BY <2>1, <2>2, <2>3, <2>4 DEF Compatible
<1>3. QED
  BY <1>1, <1>2, ConsistentTx DEF IInv, Begin

LEMMA ConsistentRequest ==
    ASSUME IInv, NEW w \in Workers, Request(w)
    PROVE  Consistent'
<1> USE DEF Op
<1>1. ASSUME NEW c \in Customers, CreateCustomer(w, c) PROVE Consistent'
  <2>1. ReadsHold(NewTx("create_customer", "write", c, None, None, 0, "none"))
    BY <1>1 DEF CreateCustomer, FreshCustomer, ReadsHold, NewTx
  <2>2. QED
    BY <1>1, <2>1, ConsistentBegin DEF CreateCustomer
<1>2. ASSUME NEW c \in Customers, NEW op \in {"update_customer", "delete_customer"},
             FindCustomer(w, c, op)
      PROVE  Consistent'
  <2>1. ReadsHold(NewTx(op, "write", c, None, None, 0, "none"))
    BY <1>2 DEF FindCustomer, ReadsHold, NewTx
  <2>2. QED
    BY <1>2, <2>1, ConsistentBegin DEF FindCustomer
<1>3. ASSUME NEW p \in Payments, NEW c \in Customers, NEW a \in Amounts, CreatePayment(w, p, c, a)
      PROVE  Consistent'
  <2>1. ReadsHold(NewTx("create_payment", "insert", c, p, None, a, "none"))
    BY <1>3 DEF CreatePayment, FreshPayment, ReadsHold, NewTx
  <2>2. QED
    BY <1>3, <2>1, ConsistentBegin DEF CreatePayment
<1>4. ASSUME NEW p \in Payments, NEW s \in DOMAIN event_type_map, TransitionPayment(w, p, s)
      PROVE  Consistent'
  <2>1. ReadsHold(NewTx("transition_payment", "lock", None, p, None, 0, s))
    BY DEF ReadsHold, NewTx
  <2>2. QED
    BY <1>4, <2>1, ConsistentBegin DEF TransitionPayment
<1>5. ASSUME NEW p \in Payments, UpdatePayment(w, p) PROVE Consistent'
  <2>1. ReadsHold(NewTx("update_payment", "lock", None, p, None, 0, "none"))
    BY DEF ReadsHold, NewTx
  <2>2. QED
    BY <1>5, <2>1, ConsistentBegin DEF UpdatePayment
<1>6. ASSUME NEW p \in Payments, NEW r \in Refunds, NEW a \in Amounts, CreateRefund(w, p, r, a)
      PROVE  Consistent'
  <2>1. ReadsHold(NewTx("create_refund", "lock", None, p, r, a, "none"))
    BY <1>6 DEF CreateRefund, FreshRefund, ReadsHold, NewTx
  <2>2. QED
    BY <1>6, <2>1, ConsistentBegin DEF CreateRefund
<1>7. ASSUME NEW r \in Refunds, ProcessRefund(w, r) PROVE Consistent'
  <2>1. ReadsHold(NewTx("process_refund", "lock", None, None, r, 0, "none"))
    BY DEF ReadsHold, NewTx
  <2>2. QED
    BY <1>7, <2>1, ConsistentBegin DEF ProcessRefund
<1>8. QED
  BY <1>1, <1>2, <1>3, <1>4, <1>5, <1>6, <1>7 DEF Request

\* What one transaction applies leaves the checks of the others standing.
LEMMA ConsistentCommit ==
    ASSUME IInv, NEW w \in Workers, Commit(w)
    PROVE  Consistent'
<1> DEFINE t == tx[w]
<1>1. TypeOK /\ ReadsHold(t) /\ IsTransaction(t) /\ t.step = "commit"
  BY DEF IInv, Consistent, TypeOK, Commit
<1>2. OnlyTx(w) /\ tx'[w] = Idle
  BY DEF Commit, IInv, TypeOK, OnlyTx
<1>3. \A v \in Workers : v # w => /\ ReadsHold(tx[v]) /\ IsTransaction(tx[v])
                                  /\ Compatible(tx[v], t) /\ Compatible(t, tx[v])
  BY DEF IInv, Consistent, TypeOK
<1>4. /\ customer \in [Customers -> CustomerStatus] /\ status \in [Payments -> PaymentStatus]
      /\ owner \in [Payments -> Customers \cup {None}]
      /\ amount \in [Payments -> Nat] /\ refunded \in [Payments -> Nat]
      /\ refund \in [Refunds -> [state : RefundStatus, payment : Payments \cup {None},
                                 amount : Nat]]
  BY <1>1 DEF TypeOK
<1>5. /\ BlankUntilCreated /\ RefundsWithinCharge /\ PaymentsKeepCustomer
  BY DEF IInv, Consistent
<1>6. ReadsHold(Idle)'
  BY DEF ReadsHold, Idle, NewTx
<1>7. \A u, v \in Workers : u # v => Compatible(tx'[u], tx'[v])
  <2>1. \A v \in Workers : Compatible(tx[v], Idle) /\ Compatible(Idle, tx[v])
    BY DEF Compatible, Idle, NewTx, LocksPayment, LocksRefund, LocksCustomer, SharesCustomer
  <2>2. QED
    BY <1>2, <2>1 DEF IInv, Consistent, OnlyTx
<1>8. ASSUME \A v \in Workers : v # w => ReadsHold(tx[v])',
             BlankUntilCreated', RefundsWithinCharge', PaymentsKeepCustomer'
      PROVE  Consistent'
  <2>1. \A v \in Workers : ReadsHold(tx[v])'
    BY <1>2, <1>6, <1>8
  <2>2. QED
    BY <1>7, <1>8, <2>1 DEF Consistent
<1>9. CASE ApplyCreateCustomer(t)
  <2> USE <1>9 DEF ApplyCreateCustomer
  <2>1. t.customer \in Customers /\ customer[t.customer] = "absent"
    BY <1>1 DEF ReadsHold
  <2>2. ASSUME NEW v \in Workers, v # w PROVE ReadsHold(tx[v])'
    <3>1. tx'[v] = tx[v] /\ ReadsHold(tx[v]) /\ Compatible(tx[v], t)
      BY <1>2, <1>3, <2>2 DEF OnlyTx
    <3>2. QED
      BY <1>4, <2>1, <3>1 DEF ReadsHold, Compatible
  <2>3. PaymentsKeepCustomer'
    BY <1>4, <1>5, <2>1 DEF PaymentsKeepCustomer, BlankUntilCreated
  <2>4. BlankUntilCreated' /\ RefundsWithinCharge'
    BY <1>5 DEF BlankUntilCreated, RefundsWithinCharge
  <2>5. QED
    BY <1>8, <2>2, <2>3, <2>4
<1>10. CASE ApplyDeleteCustomer(t)
  <2> USE <1>10 DEF ApplyDeleteCustomer
  <2>1. /\ t.customer \in Customers /\ customer[t.customer] # "absent"
        /\ \A p \in Payments : owner[p] # t.customer
    BY <1>1 DEF ReadsHold
  <2>2. ASSUME NEW v \in Workers, v # w PROVE ReadsHold(tx[v])'
    <3>1. tx'[v] = tx[v] /\ ReadsHold(tx[v]) /\ Compatible(tx[v], t)
      BY <1>2, <1>3, <2>2 DEF OnlyTx
    <3>2. ~SharesCustomer(tx[v], t.customer)
      BY <1>1, <2>1, <3>1 DEF Compatible, LocksCustomer
    <3>3. QED
      BY <1>4, <2>1, <3>1, <3>2 DEF ReadsHold, SharesCustomer
  <2>3. PaymentsKeepCustomer'
    BY <1>4, <1>5, <2>1 DEF PaymentsKeepCustomer, BlankUntilCreated
  <2>4. BlankUntilCreated' /\ RefundsWithinCharge'
    BY <1>5 DEF BlankUntilCreated, RefundsWithinCharge
  <2>5. QED
    BY <1>8, <2>2, <2>3, <2>4
<1>11. CASE ApplyCreatePayment(t)
  <2> USE <1>11 DEF ApplyCreatePayment
  <2>1. /\ t.payment \in Payments /\ t.customer \in Customers /\ t.amount \in Nat
        /\ status[t.payment] = "none" /\ customer[t.customer] = "live"
    BY <1>1 DEF ReadsHold, IsTransaction
  <2>2. ASSUME NEW v \in Workers, v # w PROVE ReadsHold(tx[v])'
    <3>1. /\ tx'[v] = tx[v] /\ ReadsHold(tx[v]) /\ IsTransaction(tx[v])
          /\ Compatible(tx[v], t) /\ Compatible(t, tx[v])
      BY <1>2, <1>3, <2>2 DEF OnlyTx
    <3>2. tx[v].op = "create_payment" => tx[v].payment # t.payment
      BY <3>1 DEF Compatible
    <3>3. tx[v].op = "delete_customer" /\ tx[v].step = "commit" => tx[v].customer # t.customer
      BY <1>1, <2>1, <3>1 DEF Compatible, SharesCustomer, LocksCustomer
    <3>4. tx[v].op \in {"transition_payment", "create_refund"} /\ tx[v].step # "lock" =>
              tx[v].payment # t.payment
      BY <2>1, <3>1 DEF ReadsHold, VALID_TRANSITIONS, Refundable, PaymentStatus
    <3>5. QED
      BY <1>4, <2>1, <3>1, <3>2, <3>3, <3>4 DEF ReadsHold
  <2>3. PaymentsKeepCustomer'
    BY <1>4, <1>5, <2>1 DEF PaymentsKeepCustomer
  <2>4. BlankUntilCreated' /\ RefundsWithinCharge'
    BY <1>4, <1>5, <2>1 DEF BlankUntilCreated, RefundsWithinCharge
  <2>5. QED
    BY <1>8, <2>2, <2>3, <2>4
<1>12. CASE ApplyTransition(t)
  <2> USE <1>12 DEF ApplyTransition
  <2>1. /\ t.payment \in Payments /\ t.target \in PaymentStatus
        /\ t.target \in VALID_TRANSITIONS[status[t.payment]]
    BY <1>1 DEF ReadsHold, IsTransaction
  <2>2. status[t.payment] # "none" /\ t.target # "none"
        /\ (status[t.payment] \in Refundable => t.target \in Refundable)
    BY <1>4, <2>1 DEF VALID_TRANSITIONS, PaymentStatus, Refundable
  <2>3. ASSUME NEW v \in Workers, v # w PROVE ReadsHold(tx[v])'
    <3>1. tx'[v] = tx[v] /\ ReadsHold(tx[v]) /\ Compatible(tx[v], t)
      BY <1>2, <1>3, <2>3 DEF OnlyTx
    <3>2. tx[v].op \in {"transition_payment", "create_refund"} /\ tx[v].step # "lock" =>
              tx[v].payment # t.payment
      BY <1>1, <2>1, <3>1 DEF Compatible, LocksPayment
    <3>3. tx[v].op = "create_payment" => tx[v].payment # t.payment
      BY <2>2, <3>1 DEF ReadsHold
    <3>4. QED
      BY <1>4, <2>1, <3>1, <3>2, <3>3 DEF ReadsHold
  <2>4. BlankUntilCreated' /\ RefundsWithinCharge' /\ PaymentsKeepCustomer'
    BY <1>4, <1>5, <2>1, <2>2 DEF BlankUntilCreated, RefundsWithinCharge, PaymentsKeepCustomer
  <2>5. QED
    BY <1>8, <2>3, <2>4
<1>13. CASE ApplyRefund(t)
  <2> USE <1>13 DEF ApplyRefund
  <2>1. /\ t.payment \in Payments /\ t.refund \in Refunds /\ t.amount \in Nat
        /\ status[t.payment] \in Refundable /\ refund[t.refund].state = "none"
        /\ refunded[t.payment] + t.amount <= amount[t.payment]
    BY <1>1 DEF ReadsHold, IsTransaction
  <2>2. ASSUME NEW v \in Workers, v # w PROVE ReadsHold(tx[v])'
    <3>1. tx'[v] = tx[v] /\ ReadsHold(tx[v]) /\ Compatible(tx[v], t)
      BY <1>2, <1>3, <2>2 DEF OnlyTx
    <3>2. tx[v].op = "create_refund" =>
              /\ tx[v].refund # t.refund
              /\ tx[v].step # "lock" => tx[v].payment # t.payment
      BY <1>1, <2>1, <3>1 DEF Compatible, LocksPayment
    <3>3. tx[v].op = "process_refund" /\ tx[v].step # "lock" => tx[v].refund # t.refund
      BY <2>1, <3>1 DEF ReadsHold
    <3>4. QED
      BY <1>4, <2>1, <3>1, <3>2, <3>3 DEF ReadsHold
  <2>3. BlankUntilCreated' /\ RefundsWithinCharge' /\ PaymentsKeepCustomer'
    BY <1>4, <1>5, <2>1
    DEF BlankUntilCreated, RefundsWithinCharge, PaymentsKeepCustomer, Refundable
  <2>4. QED
    BY <1>8, <2>2, <2>3
<1>14. CASE ApplyProcess(t)
  <2> USE <1>14 DEF ApplyProcess
  <2>1. t.refund \in Refunds /\ refund[t.refund].state = "initiated"
    BY <1>1 DEF ReadsHold
  <2>2. ASSUME NEW v \in Workers, v # w PROVE ReadsHold(tx[v])'
    <3>1. tx'[v] = tx[v] /\ ReadsHold(tx[v]) /\ Compatible(tx[v], t)
      BY <1>2, <1>3, <2>2 DEF OnlyTx
    <3>2. tx[v].op = "process_refund" /\ tx[v].step # "lock" => tx[v].refund # t.refund
      BY <1>1, <2>1, <3>1 DEF Compatible, LocksRefund
    <3>3. tx[v].op = "create_refund" => tx[v].refund # t.refund
      BY <2>1, <3>1 DEF ReadsHold
    <3>4. QED
      BY <1>4, <2>1, <3>1, <3>2, <3>3 DEF ReadsHold
  <2>3. BlankUntilCreated' /\ RefundsWithinCharge' /\ PaymentsKeepCustomer'
    BY <1>5 DEF BlankUntilCreated, RefundsWithinCharge, PaymentsKeepCustomer
  <2>4. QED
    BY <1>8, <2>2, <2>3
<1>15. CASE ApplyUpdate(t)
  <2>1. BlankUntilCreated' /\ RefundsWithinCharge' /\ PaymentsKeepCustomer'
    BY <1>5, <1>15
    DEF ApplyUpdate, tables, BlankUntilCreated, RefundsWithinCharge, PaymentsKeepCustomer
  <2>2. \A v \in Workers : v # w => ReadsHold(tx[v])'
    BY <1>2, <1>3, <1>15 DEF ApplyUpdate, tables, ReadsHold, OnlyTx
  <2>3. QED
    BY <1>8, <2>1, <2>2
<1>16. QED
  BY <1>9, <1>10, <1>11, <1>12, <1>13, <1>14, <1>15 DEF Commit, Apply

-----------------------------------------------------------------------------
(* The theorems                                                            *)

LEMMA InitInvariant == Init => IInv
<1> SUFFICES ASSUME Init PROVE IInv
  OBVIOUS
<1>1. TypeOK
  BY DEF Init, TypeOK, CustomerStatus, PaymentStatus, RefundStatus, IsTransaction, Idle, NewTx
<1>2. BlankUntilCreated /\ RefundsWithinCharge /\ PaymentsKeepCustomer
  BY DEF Init, BlankUntilCreated, RefundsWithinCharge, PaymentsKeepCustomer
<1>3. \A w \in Workers : ReadsHold(tx[w])
  BY DEF Init, ReadsHold, Idle, NewTx
<1>4. \A v, w \in Workers : Compatible(tx[v], tx[w])
  BY DEF Init, Compatible, Idle, NewTx, LocksPayment, LocksRefund, LocksCustomer, SharesCustomer
<1>5. QED
  BY <1>1, <1>2, <1>3, <1>4 DEF IInv, Consistent

LEMMA NextInvariant == IInv /\ [Next]_vars => IInv'
<1> SUFFICES ASSUME IInv, [Next]_vars PROVE IInv'
  OBVIOUS
<1>1. CASE UNCHANGED vars
  <2>1. TypeOK'
    BY <1>1 DEF vars, IInv, TypeOK, IsEntry, IsEvent, IsTransaction
  <2>2. \A w \in Workers : ReadsHold(tx[w])'
    BY <1>1 DEF vars, IInv, Consistent, ReadsHold
  <2>3. BlankUntilCreated' /\ RefundsWithinCharge' /\ PaymentsKeepCustomer'
    BY <1>1 DEF vars, IInv, Consistent, BlankUntilCreated, RefundsWithinCharge,
                PaymentsKeepCustomer
  <2>4. QED
    BY <1>1, <2>1, <2>2, <2>3 DEF vars, IInv, Consistent
<1>2. ASSUME NEW w \in Workers, Request(w) PROVE IInv'
  BY <1>2, TypeOfRequest, ConsistentRequest DEF IInv
<1>3. ASSUME NEW w \in Workers, Statement(w) PROVE IInv'
  BY <1>3, TypeOfStatement, ConsistentStatement DEF IInv
<1>4. ASSUME NEW w \in Workers, Commit(w) PROVE IInv'
  BY <1>4, TypeOfCommit, ConsistentCommit DEF IInv
<1>5. ASSUME NEW w \in Workers, Abort(w) PROVE IInv'
  BY <1>5, TypeOfRollBack, ConsistentRollBack DEF IInv, Abort
<1>6. QED
  BY <1>1, <1>2, <1>3, <1>4, <1>5 DEF Next

\* No transaction acts on a row that changed since it was read, however many
\* requests run at once and wherever they are cut short: IInv is inductive.
THEOREM InvariantHolds == Spec => []IInv
BY InitInvariant, NextInvariant, PTL DEF Spec

\* Every row of the service's tables keeps its type.
THEOREM TypeCorrect == Spec => []TypeOK
<1>1. IInv => TypeOK
  BY DEF IInv
<1>2. QED
  BY <1>1, InvariantHolds, PTL

\* create_refund never lets the refunds of a payment exceed its charge.
THEOREM RefundsNeverExceedCharge == Spec => []RefundsWithinCharge
<1>1. IInv => RefundsWithinCharge
  BY DEF IInv, Consistent
<1>2. QED
  BY <1>1, InvariantHolds, PTL

\* delete_customer never removes the customer of a payment.
THEOREM PaymentsNeverOrphaned == Spec => []PaymentsKeepCustomer
<1>1. IInv => PaymentsKeepCustomer
  BY DEF IInv, Consistent
<1>2. QED
  BY <1>1, InvariantHolds, PTL

-----------------------------------------------------------------------------
(* Refinement: only Commit changes the tables, and each commit is one step *)
(* of PaymentLifecycle or leaves its variables alone.                      *)

LEMMA InitRefines == Init => Lifecycle!LifecycleInit
BY DEF Init, Lifecycle!LifecycleInit, Lifecycle!NoRefund

LEMMA CommitRefines ==
    ASSUME IInv, NEW w \in Workers, Commit(w)
    PROVE  [Lifecycle!LifecycleNext]_(Lifecycle!lifecycleVars)
<1> DEFINE t == tx[w]
<1>1. TypeOK /\ ReadsHold(t) /\ IsTransaction(t) /\ t.step = "commit"
  BY DEF IInv, Consistent, TypeOK, Commit
<1>2. /\ customer \in [Customers -> CustomerStatus] /\ status \in [Payments -> PaymentStatus]
      /\ owner \in [Payments -> Customers \cup {None}]
  BY <1>1 DEF TypeOK
<1>3. CASE ApplyCreateCustomer(t)
  <2>1. t.customer \in Customers /\ Lifecycle!AddCustomer(t.customer)
    BY <1>1, <1>3 DEF ApplyCreateCustomer, ReadsHold, Lifecycle!AddCustomer
  <2>2. QED
    BY <2>1 DEF Lifecycle!LifecycleNext
<1>4. CASE ApplyDeleteCustomer(t)
  <2>1. /\ t.customer \in Customers /\ customer[t.customer] # "absent"
        /\ \A p \in Payments : owner[p] # t.customer
    BY <1>1, <1>4 DEF ApplyDeleteCustomer, ReadsHold
  <2>2. CASE customer[t.customer] = "live"
    <3>1. Lifecycle!RemoveCustomer(t.customer)
      BY <1>4, <2>1, <2>2 DEF ApplyDeleteCustomer, Lifecycle!RemoveCustomer
    <3>2. QED
      BY <2>1, <3>1 DEF Lifecycle!LifecycleNext
  <2>3. CASE customer[t.customer] = "deleted"
    BY <1>2, <1>4, <2>1, <2>3 DEF ApplyDeleteCustomer, Lifecycle!lifecycleVars
  <2>4. QED
    BY <1>2, <2>1, <2>2, <2>3 DEF CustomerStatus
<1>5. CASE ApplyCreatePayment(t)
  <2>1. /\ t.payment \in Payments /\ t.customer \in Customers /\ t.amount \in Amounts
        /\ Lifecycle!OpenPayment(t.payment, t.customer, t.amount)
    BY <1>1, <1>5 DEF ApplyCreatePayment, ReadsHold, Lifecycle!OpenPayment
  <2>2. QED
    BY <2>1 DEF Lifecycle!LifecycleNext
<1>6. CASE ApplyTransition(t)
  <2>1. t.payment \in Payments /\ t.target \in VALID_TRANSITIONS[status[t.payment]]
    BY <1>1, <1>6 DEF ApplyTransition, ReadsHold
  <2>2. /\ t.target \in {"authorized", "failed", "captured", "settled"}
        /\ <<status[t.payment], t.target>> \in Lifecycle!Moves
    BY <1>2, <2>1 DEF VALID_TRANSITIONS, PaymentStatus, Lifecycle!Moves
  <2>3. Lifecycle!MovePayment(t.payment, t.target)
    BY <1>6, <2>2 DEF ApplyTransition, Lifecycle!MovePayment
  <2>4. QED
    BY <2>1, <2>2, <2>3 DEF Lifecycle!LifecycleNext
<1>7. CASE ApplyRefund(t)
  <2>1. /\ t.payment \in Payments /\ t.refund \in Refunds /\ t.amount \in Amounts
        /\ Lifecycle!IssueRefund(t.refund, t.payment, t.amount)
    BY <1>1, <1>7 DEF ApplyRefund, ReadsHold, Refundable, Lifecycle!IssueRefund
  <2>2. QED
    BY <2>1 DEF Lifecycle!LifecycleNext
<1>8. CASE ApplyProcess(t)
  <2>1. t.refund \in Refunds /\ Lifecycle!ProcessRefund(t.refund)
    BY <1>1, <1>8 DEF ApplyProcess, ReadsHold, Lifecycle!ProcessRefund
  <2>2. QED
    BY <2>1 DEF Lifecycle!LifecycleNext
<1>9. CASE ApplyUpdate(t)
  BY <1>9 DEF ApplyUpdate, tables, Lifecycle!lifecycleVars
<1>10. QED
  BY <1>3, <1>4, <1>5, <1>6, <1>7, <1>8, <1>9 DEF Commit, Apply

LEMMA NextRefines ==
    IInv /\ [Next]_vars => [Lifecycle!LifecycleNext]_(Lifecycle!lifecycleVars)
<1> SUFFICES ASSUME IInv, [Next]_vars
             PROVE  [Lifecycle!LifecycleNext]_(Lifecycle!lifecycleVars)
  OBVIOUS
<1>1. CASE UNCHANGED tables
  BY <1>1 DEF tables, Lifecycle!lifecycleVars
<1>2. ASSUME NEW w \in Workers, Request(w) PROVE UNCHANGED tables
  BY <1>2 DEF Request, CreateCustomer, FindCustomer, CreatePayment, TransitionPayment,
              UpdatePayment, CreateRefund, ProcessRefund, Begin
<1>3. ASSUME NEW w \in Workers, Statement(w) PROVE UNCHANGED tables
  BY <1>3 DEF Statement, InsertCustomer, UpdateCustomerRow, DeleteCustomerRow, InsertPayment,
              InsertPaymentLedger, LockForTransition, WriteTransition, LockForUpdate, WriteUpdate,
              LockForRefund, WriteRefund, LockForProcess, WriteProcess,
              Write, MoveOn, RollBack
<1>4. ASSUME NEW w \in Workers, Abort(w) PROVE UNCHANGED tables
  BY <1>4 DEF Abort, RollBack
<1>5. CASE UNCHANGED vars
  BY <1>1, <1>5 DEF vars, tables
<1>6. QED
  BY <1>1, <1>2, <1>3, <1>4, <1>5, CommitRefines DEF Next

\* Interleaved transactions have the effect of the atomic requests of
\* PaymentLifecycle.
THEOREM Refinement == Spec => ImplementsLifecycle
<1>1. Spec => [][Lifecycle!LifecycleNext]_(Lifecycle!lifecycleVars)
  BY InvariantHolds, NextRefines, PTL DEF Spec
<1>2. QED
  BY <1>1, InitRefines DEF Spec, ImplementsLifecycle, Lifecycle!LifecycleSpec
=============================================================================
