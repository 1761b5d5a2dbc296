------------------------------- MODULE PaymentCore -------------------------------
(***************************************************************************)
(* The write side of one tenant (payment-core-service): every request is a *)
(* PostgreSQL transaction at READ COMMITTED, cut at the statements between *)
(* which another transaction can get in.  A statement reads what has been  *)
(* committed (or waits for a row lock); what it writes stays in tx[w]      *)
(* until Commit, and is dropped when the transaction rolls back.           *)
(* Requests come from the FastAPI coroutines of the service; a worker is   *)
(* one of the connections of its pool.                                     *)
(***************************************************************************)
EXTENDS Integers, FiniteSets

CONSTANTS
    Workers,    \* pooled connections, each serving one request at a time
    Customers, Payments, Refunds,   \* the ids uuid7() can hand out
    Amounts,    \* the amounts requests carry (condecimal(gt=0))
    None,       \* an unset column
    MaxClock    \* bound: requests stop once this many events were stamped

ASSUME AmountsAssumption == Amounts \subseteq Nat \ {0}
ASSUME NoneAssumption == None \notin Customers \cup Payments \cup Refunds
\* uuid7() gives out every id once, whatever it is for.
ASSUME IdsAssumption ==
    Customers \cap Payments = {} /\ Customers \cap Refunds = {} /\ Payments \cap Refunds = {}
ASSUME MaxClockAssumption == MaxClock \in Nat

VARIABLES
    customer, status, owner, amount, refunded, refund,  \* the committed tables
    ledger,     \* committed ledger_entries
    outbox,     \* committed domain_events
    clock,      \* the service's clock: stamps events and orders ledger ids
    tx          \* tx[w]: the open transaction of worker w

tables == <<customer, status, owner, amount, refunded, refund>>
vars == <<customer, status, owner, amount, refunded, refund, ledger, outbox, clock, tx>>

CustomerStatus == {"absent", "live", "deleted"}
PaymentStatus == {"none", "created", "authorized", "captured", "settled", "failed"}
RefundStatus == {"none", "initiated", "processed"}

\* Mutant: a capture straight from created.
VALID_TRANSITIONS_SkipAuthorize ==
    [s \in PaymentStatus |->
        CASE s = "created" -> {"authorized", "failed", "captured"}
          [] s = "authorized" -> {"captured"}
          [] s = "captured" -> {"settled"}
          [] OTHER -> {}]

\* The status machine: where a payment may go from each status.
VALID_TRANSITIONS ==
    [s \in PaymentStatus |->
        CASE s = "created" -> {"authorized", "failed"}
          [] s = "authorized" -> {"captured"}
          [] s = "captured" -> {"settled"}
          [] OTHER -> {}]

Refundable == {"captured", "settled"}

\* event_type_map, and the other event types the services emit.
event_type_map ==
    [s \in {"authorized", "captured", "failed", "settled"} |->
        CASE s = "authorized" -> "payment.authorized"
          [] s = "captured" -> "payment.captured"
          [] s = "failed" -> "payment.failed"
          [] s = "settled" -> "payment.settled"]

\* A transaction: the request, how far it has come, and the rows it will leave.
NewTx(op, step, c, p, r, a, target) ==
    [op |-> op, step |-> step, customer |-> c, payment |-> p, refund |-> r,
     amount |-> a, target |-> target, entry |-> {}, event |-> {}]

AtStep(t, step, entry, event) ==
    [op |-> t.op, step |-> step, customer |-> t.customer, payment |-> t.payment,
     refund |-> t.refund, amount |-> t.amount, target |-> t.target,
     entry |-> entry, event |-> event]

Idle == NewTx("idle", "idle", None, None, None, 0, "none")

Init ==
    /\ customer = [c \in Customers |-> "absent"]
    /\ status = [p \in Payments |-> "none"]
    /\ owner = [p \in Payments |-> None]
    /\ amount = [p \in Payments |-> 0]
    /\ refunded = [p \in Payments |-> 0]
    /\ refund = [r \in Refunds |-> [state |-> "none", payment |-> None, amount |-> 0]]
    /\ ledger = {}
    /\ outbox = {}
    /\ clock = 0
    /\ tx = [w \in Workers |-> Idle]

-----------------------------------------------------------------------------
(* Row locks, read off the transactions that hold them until they end.  A  *)
(* transaction at step "lock" has sent the statement that takes its lock   *)
(* and waits.                                                              *)

\* Mutant: create_refund reads the payment without FOR UPDATE.
LocksPayment_NotForRefund(t, p) ==
    /\ t.payment = p
    /\ t.op \in {"transition_payment", "update_payment"}
    /\ t.step # "lock"

\* SELECT ... FOR UPDATE on the payment, or the UPDATE of update_payment.
LocksPayment(t, p) ==
    /\ t.payment = p
    /\ t.op \in {"transition_payment", "create_refund", "update_payment"}
    /\ t.step # "lock"

\* Mutant: process_refund reads the refund without FOR UPDATE.
LocksRefund_NoForUpdate(t, r) == FALSE

\* SELECT ... FOR UPDATE on the refund.
LocksRefund(t, r) == t.op = "process_refund" /\ t.refund = r /\ t.step # "lock"

\* UPDATE or DELETE of the customer row, once the statement has run.
LocksCustomer(t, c) ==
    /\ t.customer = c
    /\ t.op \in {"update_customer", "delete_customer"}
    /\ t.step = "commit"

\* Mutant: payments without a foreign key to their customer.
SharesCustomer_NoForeignKey(t, c) == FALSE

\* The foreign key of an inserted payment holds its customer FOR KEY SHARE.
SharesCustomer(t, c) ==
    /\ t.customer = c
    /\ t.op = "create_payment"
    /\ t.step \in {"ledger", "commit"}

PaymentFree(p) == \A w \in Workers : ~LocksPayment(tx[w], p)
RefundFree(r) == \A w \in Workers : ~LocksRefund(tx[w], r)

\* What a KEY SHARE lock waits for: only a DELETE of the row conflicts.
NoDeletePending(c) ==
    \A w \in Workers : ~(LocksCustomer(tx[w], c) /\ tx[w].op = "delete_customer")

\* A plain UPDATE of the row waits for other writers, a DELETE also for key shares.
NoWriterPending(c) == \A w \in Workers : ~LocksCustomer(tx[w], c)
NoSharePending(c) == \A w \in Workers : ~SharesCustomer(tx[w], c)

\* uuid7() never repeats an id, committed or not.
FreshCustomer(c) == customer[c] = "absent" /\ \A w \in Workers : tx[w].customer # c
FreshPayment(p) == status[p] = "none" /\ \A w \in Workers : tx[w].payment # p
FreshRefund(r) == refund[r].state = "none" /\ \A w \in Workers : tx[w].refund # r

-----------------------------------------------------------------------------
(* Rows the statements insert.                                             *)

\* emit_event: the row carries the clock of the emit, not of the commit.
emit_event(type, entity) == {[type |-> type, entity |-> entity, stamp |-> clock + 1]}

\* balance_after, a sum over the ledger that no handler reads back, is left out.
ledger_entry(type, p, r, a) ==
    {[type |-> type, payment |-> p, refund |-> r, amount |-> a, id |-> clock + 1]}

-----------------------------------------------------------------------------
(* How a request begins, moves on and is cut short.                        *)

\* A worker picks up a request; Room bounds how many the model admits.
Room == clock + Cardinality({w \in Workers : tx[w].op # "idle"}) < MaxClock
Begin(w, t) ==
    /\ tx[w].op = "idle"
    /\ Room
    /\ tx' = [tx EXCEPT ![w] = t]
    /\ UNCHANGED <<tables, ledger, outbox, clock>>

\* A statement that writes nothing another transaction could see.
MoveOn(w, step) ==
    /\ tx' = [tx EXCEPT ![w] = AtStep(tx[w], step, {}, {})]
    /\ UNCHANGED <<tables, ledger, outbox, clock>>

\* The last statements of a transaction: its rows and its event are written.
Write(w, entry, event) ==
    /\ tx' = [tx EXCEPT ![w] = AtStep(tx[w], "commit", entry, event)]
    /\ clock' = clock + 1
    /\ UNCHANGED <<tables, ledger, outbox>>

\* An exception leaves the transaction block, which rolls back.
RollBack(w) ==
    /\ tx' = [tx EXCEPT ![w] = Idle]
    /\ UNCHANGED <<tables, ledger, outbox, clock>>

-----------------------------------------------------------------------------
(* Customers                                                               *)

CreateCustomer(w, c) ==
    /\ FreshCustomer(c)
    /\ Begin(w, NewTx("create_customer", "write", c, None, None, 0, "none"))

InsertCustomer(w) ==
    /\ tx[w].op = "create_customer"
    /\ tx[w].step = "write"
    /\ Write(w, {}, emit_event("customer.created", tx[w].customer))

\* The SELECT of update_customer and delete_customer takes no lock.
FindCustomer(w, c, op) ==
    /\ customer[c] = "live"
    /\ Begin(w, NewTx(op, "write", c, None, None, 0, "none"))

\* Mutant: the event is emitted whether or not the UPDATE found the row.
UpdateCustomerRow_EventAnyway(w) ==
    /\ tx[w].op = "update_customer"
    /\ tx[w].step = "write"
    /\ NoWriterPending(tx[w].customer)
    /\ Write(w, {}, emit_event("customer.updated", tx[w].customer))

UpdateCustomerRow(w) ==
    LET c == tx[w].customer IN
    /\ tx[w].op = "update_customer"
    /\ tx[w].step = "write"
    /\ NoWriterPending(c)
    /\ \/ /\ customer[c] = "live"
          /\ Write(w, {}, emit_event("customer.updated", c))
       \* The row went away since the SELECT: dict(None) raises.
       \/ /\ customer[c] # "live"
          /\ RollBack(w)

\* A DELETE that finds no row is not an error, and the event is still emitted.
DeleteCustomerRow(w) ==
    LET c == tx[w].customer IN
    /\ tx[w].op = "delete_customer"
    /\ tx[w].step = "write"
    /\ NoWriterPending(c)
    /\ NoSharePending(c)
    /\ \/ /\ \A p \in Payments : owner[p] # c
          /\ Write(w, {}, emit_event("customer.deleted", c))
       \* A payment refers to the row: the foreign key raises.
       \/ /\ \E p \in Payments : owner[p] = c
          /\ RollBack(w)

-----------------------------------------------------------------------------
(* Payments                                                                *)

\* The customer is looked up without a lock; none found is a ValueError.
CreatePayment(w, p, c, a) ==
    /\ customer[c] = "live"
    /\ FreshPayment(p)
    /\ Begin(w, NewTx("create_payment", "insert", c, p, None, a, "none"))

\* The INSERT takes the customer's key share, or fails on the foreign key.
InsertPayment(w) ==
    /\ tx[w].op = "create_payment"
    /\ tx[w].step = "insert"
    /\ NoDeletePending(tx[w].customer)
    /\ \/ /\ customer[tx[w].customer] = "live"
          /\ MoveOn(w, "ledger")
       \/ /\ customer[tx[w].customer] # "live"
          /\ RollBack(w)

InsertPaymentLedger(w) ==
    LET t == tx[w] IN
    /\ t.op = "create_payment"
    /\ t.step = "ledger"
    /\ Write(w, ledger_entry("payment_created", t.payment, None, t.amount),
             emit_event("payment.created", t.payment))

\* The request arrives: its first statement is the SELECT ... FOR UPDATE.
TransitionPayment(w, p, target) ==
    /\ status[p] # "none"
    /\ Begin(w, NewTx("transition_payment", "lock", None, p, None, 0, target))

\* Mutant: the status is read without FOR UPDATE.
LockForTransition_NoWait(w) ==
    LET t == tx[w] IN
    /\ t.op = "transition_payment"
    /\ t.step = "lock"
    /\ \/ /\ t.target \in VALID_TRANSITIONS[status[t.payment]]
          /\ MoveOn(w, "write")
       \/ /\ t.target \notin VALID_TRANSITIONS[status[t.payment]]
          /\ RollBack(w)

\* Mutant: a refused transition is answered with its transaction left open.
LockForTransition_LeavesOpen(w) ==
    LET t == tx[w] IN
    /\ t.op = "transition_payment"
    /\ t.step = "lock"
    /\ PaymentFree(t.payment)
    /\ \/ /\ t.target \in VALID_TRANSITIONS[status[t.payment]]
          /\ MoveOn(w, "write")
       \/ /\ t.target \notin VALID_TRANSITIONS[status[t.payment]]
          /\ MoveOn(w, "answered")

\* The lock is granted and the row read; a target VALID_TRANSITIONS does not have
\* raises.
LockForTransition(w) ==
    LET t == tx[w] IN
    /\ t.op = "transition_payment"
    /\ t.step = "lock"
    /\ PaymentFree(t.payment)
    /\ \/ /\ t.target \in VALID_TRANSITIONS[status[t.payment]]
          /\ MoveOn(w, "write")
       \/ /\ t.target \notin VALID_TRANSITIONS[status[t.payment]]
          /\ RollBack(w)

\* Mutant: the capture is booked again when the payment settles.
WriteTransition_BooksSettlement(w) ==
    LET t == tx[w]
        entry == IF t.target \in Refundable
                 THEN ledger_entry("payment_captured", t.payment, None, amount[t.payment])
                 ELSE {}
    IN  /\ t.op = "transition_payment"
        /\ t.step = "write"
        /\ Write(w, entry, emit_event(event_type_map[t.target], t.payment))

\* A captured payment enters the ledger with the sum as it was.
WriteTransition(w) ==
    LET t == tx[w]
        entry == IF t.target = "captured"
                 THEN ledger_entry("payment_captured", t.payment, None, amount[t.payment])
                 ELSE {}
    IN  /\ t.op = "transition_payment"
        /\ t.step = "write"
        /\ Write(w, entry, emit_event(event_type_map[t.target], t.payment))

\* Description and metadata only: the UPDATE is the first statement.
UpdatePayment(w, p) ==
    /\ status[p] # "none"
    /\ Begin(w, NewTx("update_payment", "lock", None, p, None, 0, "none"))

LockForUpdate(w) ==
    /\ tx[w].op = "update_payment"
    /\ tx[w].step = "lock"
    /\ PaymentFree(tx[w].payment)
    /\ MoveOn(w, "write")

WriteUpdate(w) ==
    /\ tx[w].op = "update_payment"
    /\ tx[w].step = "write"
    /\ Write(w, {}, emit_event("payment.updated", tx[w].payment))

-----------------------------------------------------------------------------
(* Refunds                                                                 *)

\* The refund's id is handed out with the request.
CreateRefund(w, p, r, a) ==
    /\ status[p] # "none"
    /\ FreshRefund(r)
    /\ Begin(w, NewTx("create_refund", "lock", None, p, r, a, "none"))

\* What create_refund asks of the payment it has locked.
MayRefund(p, a) == status[p] \in Refundable /\ a <= amount[p] - refunded[p]

LockForRefund(w) ==
    LET t == tx[w] IN
    /\ t.op = "create_refund"
    /\ t.step = "lock"
    /\ PaymentFree(t.payment)
    /\ \/ /\ MayRefund(t.payment, t.amount)
          /\ MoveOn(w, "write")
       \/ /\ ~MayRefund(t.payment, t.amount)
          /\ RollBack(w)

WriteRefund(w) ==
    LET t == tx[w] IN
    /\ t.op = "create_refund"
    /\ t.step = "write"
    /\ Write(w, ledger_entry("refund_issued", t.payment, t.refund, t.amount),
             emit_event("refund.initiated", t.refund))

ProcessRefund(w, r) ==
    /\ refund[r].state # "none"
    /\ Begin(w, NewTx("process_refund", "lock", None, None, r, 0, "none"))

LockForProcess(w) ==
    LET t == tx[w] IN
    /\ t.op = "process_refund"
    /\ t.step = "lock"
    /\ RefundFree(t.refund)
    /\ \/ /\ refund[t.refund].state = "initiated"
          /\ MoveOn(w, "write")
       \/ /\ refund[t.refund].state # "initiated"
          /\ RollBack(w)

WriteProcess(w) ==
    /\ tx[w].op = "process_refund"
    /\ tx[w].step = "write"
    /\ Write(w, {}, emit_event("refund.processed", tx[w].refund))

-----------------------------------------------------------------------------
(* The end of a transaction                                                *)

\* What a committed transaction leaves in the tables.
ApplyCreateCustomer(t) ==
    /\ t.op = "create_customer"
    /\ customer' = [customer EXCEPT ![t.customer] = "live"]
    /\ UNCHANGED <<status, owner, amount, refunded, refund>>

ApplyDeleteCustomer(t) ==
    /\ t.op = "delete_customer"
    /\ customer' = [customer EXCEPT ![t.customer] = "deleted"]
    /\ UNCHANGED <<status, owner, amount, refunded, refund>>

\* Mutant: the payment's own id in customer_ref.
ApplyCreatePayment_WrongRef(t) ==
    /\ t.op = "create_payment"
    /\ status' = [status EXCEPT ![t.payment] = "created"]
    /\ owner' = [owner EXCEPT ![t.payment] = t.payment]
    /\ amount' = [amount EXCEPT ![t.payment] = t.amount]
    /\ UNCHANGED <<customer, refunded, refund>>

ApplyCreatePayment(t) ==
    /\ t.op = "create_payment"
    /\ status' = [status EXCEPT ![t.payment] = "created"]
    /\ owner' = [owner EXCEPT ![t.payment] = t.customer]
    /\ amount' = [amount EXCEPT ![t.payment] = t.amount]
    /\ UNCHANGED <<customer, refunded, refund>>

ApplyTransition(t) ==
    /\ t.op = "transition_payment"
    /\ status' = [status EXCEPT ![t.payment] = t.target]
    /\ UNCHANGED <<customer, owner, amount, refunded, refund>>

\* Mutant: amount_refunded is set to the refund's amount, not raised by it.
ApplyRefund_Overwrites(t) ==
    /\ t.op = "create_refund"
    /\ refunded' = [refunded EXCEPT ![t.payment] = t.amount]
    /\ refund' = [refund EXCEPT ![t.refund] = [state |-> "initiated",
                                               payment |-> t.payment, amount |-> t.amount]]
    /\ UNCHANGED <<customer, status, owner, amount>>

ApplyRefund(t) ==
    /\ t.op = "create_refund"
    /\ refunded' = [refunded EXCEPT ![t.payment] = refunded[t.payment] + t.amount]
    /\ refund' = [refund EXCEPT ![t.refund] = [state |-> "initiated",
                                               payment |-> t.payment, amount |-> t.amount]]
    /\ UNCHANGED <<customer, status, owner, amount>>

ApplyProcess(t) ==
    /\ t.op = "process_refund"
    /\ refund' = [refund EXCEPT ![t.refund] = [state |-> "processed",
                                               payment |-> refund[t.refund].payment,
                                               amount |-> refund[t.refund].amount]]
    /\ UNCHANGED <<customer, status, owner, amount, refunded>>

\* update_customer and update_payment change only columns the model leaves out.
ApplyUpdate(t) ==
    /\ t.op \in {"update_customer", "update_payment"}
    /\ UNCHANGED tables

Apply(t) ==
    \/ ApplyCreateCustomer(t)
    \/ ApplyDeleteCustomer(t)
    \/ ApplyCreatePayment(t)
    \/ ApplyTransition(t)
    \/ ApplyRefund(t)
    \/ ApplyProcess(t)
    \/ ApplyUpdate(t)

\* The outbox row becomes visible together with what it reports.
Commit(w) ==
    /\ tx[w].step = "commit"
    /\ Apply(tx[w])
    /\ ledger' = ledger \cup tx[w].entry
    /\ outbox' = outbox \cup tx[w].event
    /\ tx' = [tx EXCEPT ![w] = Idle]
    /\ UNCHANGED clock

\* A crash, a dropped connection or a cancelled request, at any await.
Abort(w) ==
    /\ tx[w].op # "idle"
    /\ RollBack(w)

-----------------------------------------------------------------------------

Request(w) ==
    \/ \E c \in Customers : CreateCustomer(w, c)
    \/ \E c \in Customers, op \in {"update_customer", "delete_customer"} :
           FindCustomer(w, c, op)
    \/ \E p \in Payments, c \in Customers, a \in Amounts : CreatePayment(w, p, c, a)
    \/ \E p \in Payments, s \in DOMAIN event_type_map : TransitionPayment(w, p, s)
    \/ \E p \in Payments : UpdatePayment(w, p)
    \/ \E p \in Payments, r \in Refunds, a \in Amounts : CreateRefund(w, p, r, a)
    \/ \E r \in Refunds : ProcessRefund(w, r)

Statement(w) ==
    \/ InsertCustomer(w) \/ UpdateCustomerRow(w) \/ DeleteCustomerRow(w)
    \/ InsertPayment(w) \/ InsertPaymentLedger(w)
    \/ LockForTransition(w) \/ WriteTransition(w)
    \/ LockForUpdate(w) \/ WriteUpdate(w)
    \/ LockForRefund(w) \/ WriteRefund(w)
    \/ LockForProcess(w) \/ WriteProcess(w)

Next == \E w \in Workers : Request(w) \/ Statement(w) \/ Commit(w) \/ Abort(w)

Spec == Init /\ [][Next]_vars

\* A statement that waits for a row lock is not passed over for ever: PostgreSQL
\* queues the waiters first come, first served.
Fairness == \A w \in Workers : SF_vars(Statement(w) \/ Commit(w))

FairSpec == Spec /\ Fairness
=============================================================================
