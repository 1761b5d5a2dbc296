-------------------------- MODULE PaymentCoreProperties --------------------------
(***************************************************************************)
(* What must hold of the write side, whatever requests interleave and      *)
(* wherever a transaction is cut short.                                    *)
(***************************************************************************)
EXTENDS PaymentCore, FiniteSetsExt

\* The committed tables are the lifecycle's variables; transactions, locks, ledger
\* and outbox are hidden.
Lifecycle == INSTANCE PaymentLifecycle WITH
    customer <- customer, status <- status, owner <- owner,
    amount <- amount, refunded <- refunded, refund <- refund

LedgerEntryType == {"payment_created", "payment_captured", "refund_issued"}
EventType ==
    {"customer.created", "customer.updated", "customer.deleted", "payment.created",
     "payment.authorized", "payment.captured", "payment.failed", "payment.settled",
     "payment.updated", "refund.initiated", "refund.processed"}
Op == {"create_customer", "update_customer", "delete_customer", "create_payment",
       "transition_payment", "update_payment", "create_refund", "process_refund"}

IsEntry(e) ==
    /\ e.type \in LedgerEntryType
    /\ e.payment \in Payments
    /\ e.refund \in Refunds \cup {None}
    /\ e.amount \in Nat
    /\ e.id \in 1..clock

IsEvent(e) ==
    /\ e.type \in EventType
    /\ e.entity \in Customers \cup Payments \cup Refunds
    /\ e.stamp \in 1..clock

IsTransaction(t) ==
    /\ t.op \in Op \cup {"idle"}
    /\ t.step \in {"idle", "lock", "write", "insert", "ledger", "commit"}
    /\ t.customer \in Customers \cup {None}
    /\ t.payment \in Payments \cup {None}
    /\ t.refund \in Refunds \cup {None}
    /\ t.amount \in Nat
    /\ t.target \in PaymentStatus
    /\ \A e \in t.entry : IsEntry(e)
    /\ \A e \in t.event : IsEvent(e)

\* Every row and every open transaction holds values of its columns' types.
TypeOK ==
    /\ customer \in [Customers -> CustomerStatus]
    /\ status \in [Payments -> PaymentStatus]
    /\ owner \in [Payments -> Customers \cup {None}]
    /\ amount \in [Payments -> Nat]
    /\ refunded \in [Payments -> Nat]
    /\ refund \in [Refunds -> [state : RefundStatus, payment : Payments \cup {None},
                               amount : Nat]]
    /\ \A e \in ledger : IsEntry(e)
    /\ \A e \in outbox : IsEvent(e)
    /\ clock \in Nat
    /\ DOMAIN tx = Workers
    /\ \A w \in Workers : IsTransaction(tx[w])

-----------------------------------------------------------------------------

RefundsOf(p) == {r \in Refunds : refund[r].payment = p}

\* A payment's refunds never reserve more than was charged, and only a captured
\* or settled payment has any: two concurrent create_refund calls cannot both
\* spend the same remainder.
RefundsWithinCharge ==
    \A p \in Payments :
        /\ refunded[p] <= amount[p]
        /\ refunded[p] > 0 => status[p] \in Refundable

\* amount_refunded is exactly what the payment's refunds add up to: no
\* reservation is lost to a concurrent one, none is kept by a refund that was
\* rolled back.
RefundsReserved ==
    \A p \in Payments :
        refunded[p] = MapThenSumSet(LAMBDA r : refund[r].amount, RefundsOf(p))

\* A payment never outlives the customer it refers to, although create_payment
\* looks the customer up without a lock while delete_customer may be running.
PaymentsKeepCustomer ==
    \A p \in Payments : status[p] # "none" => customer[owner[p]] = "live"

EntriesFor(type, p) == {e \in ledger : e.type = type /\ e.payment = p}

\* The ledger has one entry for every payment created, every capture and every
\* refund, with its amount, and none for anything else: no transaction leaves a
\* payment behind without its entry or an entry without its payment.
LedgerComplete ==
    /\ \A p \in Payments :
        /\ Cardinality(EntriesFor("payment_created", p)) = IF status[p] = "none" THEN 0 ELSE 1
        /\ Cardinality(EntriesFor("payment_captured", p)) =
               IF status[p] \in Refundable THEN 1 ELSE 0
        /\ \A e \in EntriesFor("payment_created", p) \cup EntriesFor("payment_captured", p) :
               e.amount = amount[p]
    /\ \A r \in Refunds :
        {<<e.payment, e.amount>> : e \in {x \in ledger : x.refund = r}} =
            IF refund[r].state = "none" THEN {} ELSE {<<refund[r].payment, refund[r].amount>>}

-----------------------------------------------------------------------------

\* The status a consumer gives a payment when it sees an event of this type.
Reported ==
    [type \in {"payment.created", "payment.authorized", "payment.captured",
               "payment.failed", "payment.settled"} |->
        CASE type = "payment.created" -> "created"
          [] type = "payment.authorized" -> "authorized"
          [] type = "payment.captured" -> "captured"
          [] type = "payment.failed" -> "failed"
          [] type = "payment.settled" -> "settled"]

StatusEvents(p) == {e \in outbox : e.entity = p /\ e.type \in DOMAIN Reported}
Before(e) == {d \in outbox : d.entity = e.entity /\ d.stamp < e.stamp}

\* Replaying the outbox in created_at order rebuilds the tables: the last status
\* event of a payment names its status, each one follows its predecessor along a
\* legal move, and a refund has been initiated or processed exactly when its
\* events say so.  created_at is taken before the commit, so this leans on the
\* row locks that are held from the read to the commit.
OutboxTellsStatus ==
    /\ \A p \in Payments :
        /\ status[p] = "none" <=> StatusEvents(p) = {}
        /\ \A e \in StatusEvents(p) :
            LET earlier == Before(e) \cap StatusEvents(p) IN
            /\ (\A d \in StatusEvents(p) : d.stamp <= e.stamp) => status[p] = Reported[e.type]
            /\ \/ earlier = {} /\ e.type = "payment.created"
               \/ \E d \in earlier : /\ \A x \in earlier : x.stamp <= d.stamp
                                     /\ <<Reported[d.type], Reported[e.type]>> \in Lifecycle!Moves
    /\ \A r \in Refunds :
        LET types == {e.type : e \in {x \in outbox : x.entity = r}} IN
        /\ "refund.initiated" \in types <=> refund[r].state # "none"
        /\ "refund.processed" \in types <=> refund[r].state = "processed"

\* In created_at order no event comes before the one that makes sense of it: a
\* payment's events follow its creation, which follows its customer's; a refund
\* follows the capture it pays back and its own initiation; and nothing but
\* another deletion is reported of a customer after its deletion.
OutboxCausal ==
    \A e \in outbox :
        /\ e.entity \in Payments =>
            /\ e.type = "payment.created" \/ \E d \in Before(e) : d.type = "payment.created"
            /\ \E d \in outbox : /\ d.type = "customer.created" /\ d.stamp < e.stamp
                                 /\ d.entity = owner[e.entity]
        /\ e.type = "refund.initiated" =>
            \E d \in outbox : /\ d.type = "payment.captured" /\ d.stamp < e.stamp
                              /\ d.entity = refund[e.entity].payment
        /\ e.type = "refund.processed" => \E d \in Before(e) : d.type = "refund.initiated"
        /\ e.type = "customer.updated" =>
            /\ \E d \in Before(e) : d.type = "customer.created"
            /\ \A d \in Before(e) : d.type # "customer.deleted"

\* Seen through its committed tables, the service takes only the atomic steps of
\* PaymentLifecycle: interleaved transactions have the effect of whole requests.
ImplementsLifecycle == Lifecycle!LifecycleSpec

\* No request waits for a row lock for ever, at the SELECT ... FOR UPDATE of
\* transition_payment, create_refund and process_refund, at an UPDATE, a DELETE or
\* the key share of an INSERT: each one commits or rolls back.
TransactionsFinish ==
    \A w \in Workers : tx[w].op # "idle" ~> tx[w].op = "idle"

-----------------------------------------------------------------------------
(* Why the above hold: what each open transaction has checked, or has been *)
(* handed as a fresh id, still holds when it commits.                      *)

ReadsHold(t) ==
    /\ t.op = "idle" <=> t.step = "idle"
    /\ t.op = "create_customer" =>
        /\ t.customer \in Customers
        /\ customer[t.customer] = "absent"
    /\ t.op \in {"update_customer", "delete_customer"} =>
        /\ t.customer \in Customers
        /\ customer[t.customer] # "absent"
    /\ t.op = "delete_customer" /\ t.step = "commit" =>
        \A p \in Payments : owner[p] # t.customer
    /\ t.op = "create_payment" =>
        /\ t.payment \in Payments
        /\ t.customer \in Customers
        /\ t.amount \in Amounts
        /\ status[t.payment] = "none"
        /\ t.step \in {"insert", "ledger", "commit"}
        /\ t.step # "insert" => customer[t.customer] = "live"
    /\ t.op \in {"transition_payment", "create_refund", "update_payment"} =>
        t.payment \in Payments
    /\ t.op \in {"create_refund", "process_refund"} => t.refund \in Refunds
    /\ t.op = "transition_payment" /\ t.step # "lock" =>
        t.target \in VALID_TRANSITIONS[status[t.payment]]
    /\ t.op = "create_refund" =>
        /\ t.amount \in Amounts
        /\ refund[t.refund].state = "none"
        /\ t.step # "lock" =>
            /\ status[t.payment] \in Refundable
            /\ refunded[t.payment] + t.amount <= amount[t.payment]
    /\ t.op = "process_refund" /\ t.step # "lock" =>
        refund[t.refund].state = "initiated"

\* Two open transactions that the locks, the foreign key or uuid7() keep apart.
Compatible(t, u) ==
    /\ \A p \in Payments : ~(LocksPayment(t, p) /\ LocksPayment(u, p))
    /\ \A r \in Refunds : ~(LocksRefund(t, r) /\ LocksRefund(u, r))
    /\ \A c \in Customers :
        ~(SharesCustomer(t, c) /\ u.op = "delete_customer" /\ LocksCustomer(u, c))
    /\ t.op = u.op =>
        /\ t.op = "create_customer" => t.customer # u.customer
        /\ t.op = "create_payment" => t.payment # u.payment
        /\ t.op = "create_refund" => t.refund # u.refund

\* A payment that does not exist yet has nothing in its columns.
BlankUntilCreated ==
    \A p \in Payments :
        /\ status[p] = "none" => owner[p] = None /\ amount[p] = 0 /\ refunded[p] = 0
        /\ status[p] # "none" => owner[p] \in Customers

Consistent ==
    /\ BlankUntilCreated
    /\ RefundsWithinCharge
    /\ PaymentsKeepCustomer
    /\ \A w \in Workers : ReadsHold(tx[w])
    /\ \A v, w \in Workers : v # w => Compatible(tx[v], tx[w])

\* The inductive invariant: no transaction acts on a row that another one has
\* changed since it was read.
IInv == TypeOK /\ Consistent

=============================================================================
