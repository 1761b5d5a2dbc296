-------------------------------- MODULE ReadModel --------------------------------
(***************************************************************************)
(* The read database of one tenant: the handlers of sync_service turn the  *)
(* tenant's events into denormalised tables and running totals.  Upstream  *)
(* is PaymentLifecycle, each step with the event its request emits; the    *)
(* events arrive once and in causal order, as EventFeed has it, or are     *)
(* dropped.                                                                *)
(*                                                                         *)
(* A read table is a function on the keys of its rows: an UPDATE of a row  *)
(* that is not there changes nothing.                                      *)
(***************************************************************************)
EXTENDS Integers, Sequences

CONSTANTS
    Customers, Payments, Refunds, Amounts, None,    \* as in PaymentLifecycle
    Names,          \* what a customer, or the merchant, may be called
    Texts,          \* what is said of a payment: its description with its metadata
    Methods,        \* payment methods
    Prices,         \* bound: those of the amounts that payments are about
    MaxDay,         \* bound: days that go by
    MaxLag,         \* bound: events the consumer is behind
    MaxEdits,       \* bound: updates of merchant, customers and payments
    MaxDropped      \* bound: events that are lost or dead-lettered

\* Ids are uuid7 of their own; the merchant's name is NOT NULL; Amounts as in PaymentCore.
ASSUME ReadIdsAssumption ==
    /\ Customers \cap Payments = {} /\ Customers \cap Refunds = {} /\ Payments \cap Refunds = {}
    /\ None \notin Customers \cup Payments \cup Refunds \cup Names
ASSUME ReadAmountsAssumption == Amounts \subseteq Nat /\ Prices \subseteq Amounts
ASSUME ReadBoundsAssumption == MaxDay \in Nat \ {0} /\ MaxLag \in Nat /\ MaxDropped \in Nat

VARIABLES
    customer, status, owner, amount, refunded, refund,  \* the write side
    name, method, born, today,      \* its names, methods and created_at dates
    booked,                         \* history: refunds issued after their day's first payment
    merchant, text,                 \* the merchant's name, None without one; what is said
    feed,                           \* the events on their way
    merchants, customers, payments, refunds, daily_revenue, payment_method_stats,  \* read-db
    dropped, edits

Write == INSTANCE PaymentLifecycle

lifecycle == <<customer, status, owner, amount, refunded, refund>>
columns == <<name, method, born, today, booked>>
profile == <<merchant, text>>
readTables == <<merchants, customers, payments, refunds, daily_revenue, payment_method_stats>>
readVars == <<lifecycle, columns, profile, feed, readTables, dropped, edits>>

NoRows == [k \in {} |-> None]

ReadInit ==
    /\ Write!LifecycleInit
    /\ name = [c \in Customers |-> None]
    /\ method = [p \in Payments |-> None]
    /\ born = [x \in Payments \cup Refunds |-> 0]
    /\ today = 1
    /\ booked = {}
    /\ merchant = None
    /\ text = [p \in Payments |-> None]
    /\ feed = <<>>
    /\ merchants = NoRows
    /\ customers = NoRows
    /\ payments = NoRows
    /\ refunds = NoRows
    /\ daily_revenue = NoRows
    /\ payment_method_stats = NoRows
    /\ dropped = 0
    /\ edits = 0

-----------------------------------------------------------------------------
(* The write side.  An event names its row; of the payload only the        *)
(* names, the description and what the type says can be different later.   *)

Publish(type, id, v) ==
    /\ Len(feed) < MaxLag
    /\ feed' = Append(feed, [type |-> type, id |-> id, value |-> v])
    /\ UNCHANGED <<readTables, dropped>>

\* An update, one of so many.
Edit(type, id, v) ==
    /\ edits < MaxEdits
    /\ edits' = edits + 1
    /\ Publish(type, id, v)

Once(type, id, v) == Publish(type, id, v) /\ UNCHANGED edits

\* The merchant comes first: its customers go to a schema created with it.
CreateMerchant(n) ==
    /\ merchant = None
    /\ merchant' = n
    /\ Once("merchant.created", None, n)
    /\ UNCHANGED <<lifecycle, columns, text>>

UpdateMerchant(n) ==
    /\ merchant # None
    /\ merchant' = n
    /\ Edit("merchant.updated", None, n)
    /\ UNCHANGED <<lifecycle, columns, text>>

CreateCustomer(c, n) ==
    /\ merchant # None
    /\ Write!AddCustomer(c)
    /\ name' = [name EXCEPT ![c] = n]
    /\ Once("customer.created", c, n)
    /\ UNCHANGED <<method, born, today, booked, profile>>

UpdateCustomer(c, n) ==
    /\ customer[c] = "live"
    /\ name' = [name EXCEPT ![c] = n]
    /\ Edit("customer.updated", c, n)
    /\ UNCHANGED <<lifecycle, method, born, today, booked, profile>>

DeleteCustomer(c) ==
    /\ Write!RemoveCustomer(c)
    /\ Once("customer.deleted", c, None)
    /\ UNCHANGED <<columns, profile>>

CreatePayment(p, c, a, m, x) ==
    /\ Write!OpenPayment(p, c, a)
    /\ method' = [method EXCEPT ![p] = m]
    /\ born' = [born EXCEPT ![p] = today]
    /\ text' = [text EXCEPT ![p] = x]
    /\ Once("payment.created", p, x)
    /\ UNCHANGED <<name, today, booked, merchant>>

UpdatePayment(p, x) ==
    /\ status[p] # "none"
    /\ text' = [text EXCEPT ![p] = x]
    /\ Edit("payment.updated", p, x)
    /\ UNCHANGED <<lifecycle, columns, merchant>>

TransitionPayment(p, s, type) ==
    /\ Write!MovePayment(p, s)
    /\ Once(type, p, None)
    /\ UNCHANGED <<columns, profile>>

CreateRefund(r, p, a) ==
    /\ Write!IssueRefund(r, p, a)
    /\ born' = [born EXCEPT ![r] = today]
    /\ booked' = IF \E q \in Payments : status[q] # "none" /\ born[q] = today
                 THEN booked \cup {r} ELSE booked
    /\ Once("refund.initiated", r, None)
    /\ UNCHANGED <<name, method, today, profile>>

ProcessRefund(r) ==
    /\ Write!ProcessRefund(r)
    /\ Once("refund.processed", r, None)
    /\ UNCHANGED <<columns, profile>>

NextDay ==
    /\ today < MaxDay
    /\ today' = today + 1
    /\ UNCHANGED <<lifecycle, name, method, born, booked, profile, feed, readTables, dropped, edits>>

-----------------------------------------------------------------------------
(* SQL on tables                                                           *)

Row(table, k, default) == IF k \in DOMAIN table THEN table[k] ELSE default
Upsert(table, k, row) == [x \in DOMAIN table \cup {k} |-> IF x = k THEN row ELSE table[x]]
Update(table, keys, Set(_)) ==
    [x \in DOMAIN table |-> IF x \in keys THEN Set(table[x]) ELSE table[x]]

\* json.dumps makes a string of the metadata object; the jsonb codec of the connection
\* is another json.dumps, so what the column holds is that string, not the object.
Dumps(x) == [json |-> x]

-----------------------------------------------------------------------------
(* The handlers                                                            *)

OnlyMerchants == UNCHANGED <<customers, payments, refunds, daily_revenue, payment_method_stats>>

_sync_merchant_created(n) == merchants' = Upsert(merchants, None, n) /\ OnlyMerchants

_sync_merchant_updated(n) ==
    merchants' = Update(merchants, {None}, LAMBDA row : n) /\ OnlyMerchants

\* ON CONFLICT keeps the totals and takes the columns of the event.
_sync_customer_created(c, n) ==
    LET old == Row(customers, c, [name |-> n, total_payments |-> 0, total_spent |-> 0]) IN
    /\ customers' = Upsert(customers, c, [old EXCEPT !.name = n])
    /\ UNCHANGED <<merchants, payments, refunds, daily_revenue, payment_method_stats>>

PaymentsOf(c) == {p \in DOMAIN payments : payments[p].customer = c}

\* Mutant: the name is not carried on to the refunds.
_sync_customer_updated_NoCascade(c, n) ==
    LET rename(row) == [row EXCEPT !.name = n] IN
    /\ customers' = Update(customers, {c}, rename)
    /\ payments' = Update(payments, PaymentsOf(c), rename)
    /\ UNCHANGED <<merchants, refunds, daily_revenue, payment_method_stats>>

\* The new name goes to the customer, its payments and their refunds.
_sync_customer_updated(c, n) ==
    LET rename(row) == [row EXCEPT !.name = n]
        theirs == {r \in DOMAIN refunds : refunds[r].payment \in PaymentsOf(c)}
    IN  /\ customers' = Update(customers, {c}, rename)
        /\ payments' = Update(payments, PaymentsOf(c), rename)
        /\ refunds' = Update(refunds, theirs, rename)
        /\ UNCHANGED <<merchants, daily_revenue, payment_method_stats>>

_sync_customer_deleted(c) ==
    /\ customers' = [x \in DOMAIN customers \ {c} |-> customers[x]]
    /\ UNCHANGED <<merchants, payments, refunds, daily_revenue, payment_method_stats>>

NoRevenue == [total_amount |-> 0, payment_count |-> 0, net_revenue |-> 0,
              success_count |-> 0, failed_count |-> 0, refund_amount |-> 0]
NoStats == [total_amount |-> 0, count |-> 0, success_count |-> 0]

\* The payment takes its customer's name with it; day, method and customer count it.
_sync_payment_created(p, x) ==
    LET a == amount[p]
        c == owner[p]
        day == Row(daily_revenue, born[p], NoRevenue)
        stats == Row(payment_method_stats, method[p], NoStats)
    IN  /\ payments' = Upsert(payments, p,
                           IF p \in DOMAIN payments
                           THEN [payments[p] EXCEPT !.status = "created"]
                           ELSE [status |-> "created", customer |-> c, amount |-> a,
                                 text |-> x, metadata |-> Dumps(x),
                                 name |-> Row(customers, c, [name |-> None]).name])
        /\ daily_revenue' = Upsert(daily_revenue, born[p],
                                [day EXCEPT !.total_amount = @ + a,
                                            !.payment_count = @ + 1,
                                            !.net_revenue = @ + a])
        /\ payment_method_stats' = Upsert(payment_method_stats, method[p],
                                       [stats EXCEPT !.total_amount = @ + a, !.count = @ + 1])
        /\ customers' = Update(customers, {c},
                            LAMBDA row : [row EXCEPT !.total_payments = @ + 1])
        /\ UNCHANGED <<merchants, refunds>>

_sync_payment_updated(p, x) ==
    /\ payments' = Update(payments, {p}, LAMBDA row : [row EXCEPT !.text = x, !.metadata = Dumps(x)])
    /\ UNCHANGED <<merchants, customers, refunds, daily_revenue, payment_method_stats>>

SetStatus(p, s) == payments' = Update(payments, {p}, LAMBDA row : [row EXCEPT !.status = s])

\* Mutant: the authorization handler is the capture's, copied.
_sync_payment_authorized_AsCaptured(p) ==
    /\ SetStatus(p, "captured")
    /\ UNCHANGED <<merchants, customers, refunds, daily_revenue, payment_method_stats>>

_sync_payment_authorized(p) ==
    /\ SetStatus(p, "authorized")
    /\ UNCHANGED <<merchants, customers, refunds, daily_revenue, payment_method_stats>>

\* The success counts on the day of the payment.
_sync_payment_captured(p) ==
    /\ SetStatus(p, "captured")
    /\ daily_revenue' = Update(daily_revenue, {born[p]},
                            LAMBDA row : [row EXCEPT !.success_count = @ + 1])
    /\ payment_method_stats' = Update(payment_method_stats, {method[p]},
                                   LAMBDA row : [row EXCEPT !.success_count = @ + 1])
    /\ customers' = Update(customers, {owner[p]},
                        LAMBDA row : [row EXCEPT !.total_spent = @ + amount[p]])
    /\ UNCHANGED <<merchants, refunds>>

\* Mutant: the day counts the failure, and the payment stays as it was.
_sync_payment_failed_CountOnly(p) ==
    /\ daily_revenue' = Update(daily_revenue, {born[p]},
                            LAMBDA row : [row EXCEPT !.failed_count = @ + 1])
    /\ UNCHANGED <<merchants, customers, payments, refunds, payment_method_stats>>

_sync_payment_failed(p) ==
    /\ SetStatus(p, "failed")
    /\ daily_revenue' = Update(daily_revenue, {born[p]},
                            LAMBDA row : [row EXCEPT !.failed_count = @ + 1])
    /\ UNCHANGED <<merchants, customers, refunds, payment_method_stats>>

\* Mutant: the revenue stays as it was.
_sync_refund_initiated_KeepsRevenue(r) ==
    LET p == refund[r].payment
        a == refund[r].amount
        copied == Row(payments, p, [name |-> None]).name
    IN  /\ refunds' = Upsert(refunds, r, [status |-> "initiated", payment |-> p, amount |-> a,
                                          name |-> copied])
        /\ customers' = Update(customers, {owner[p]},
                            LAMBDA row : [row EXCEPT !.total_spent = @ - a])
        /\ UNCHANGED <<merchants, payments, daily_revenue, payment_method_stats>>

\* The revenue is that of the day of the refund, which may have no row.
_sync_refund_initiated(r) ==
    LET p == refund[r].payment
        a == refund[r].amount
    IN  /\ refunds' = Upsert(refunds, r,
                          IF r \in DOMAIN refunds
                          THEN [refunds[r] EXCEPT !.status = "initiated"]
                          ELSE [status |-> "initiated", payment |-> p, amount |-> a,
                                name |-> Row(payments, p, [name |-> None]).name])
        /\ daily_revenue' = Update(daily_revenue, {born[r]},
                                LAMBDA row : [row EXCEPT !.refund_amount = @ + a,
                                                         !.net_revenue = @ - a])
        /\ customers' = Update(customers, {owner[p]},
                            LAMBDA row : [row EXCEPT !.total_spent = @ - a])
        /\ UNCHANGED <<merchants, payments, payment_method_stats>>

\* Mutant: an upsert, so that a refund nobody has seen gets a row.
_sync_refund_processed_Upsert(r) ==
    /\ refunds' = Upsert(refunds, r, [status |-> "processed"])
    /\ UNCHANGED <<merchants, customers, payments, daily_revenue, payment_method_stats>>

_sync_refund_processed(r) ==
    /\ refunds' = Update(refunds, {r}, LAMBDA row : [row EXCEPT !.status = "processed"])
    /\ UNCHANGED <<merchants, customers, payments, daily_revenue, payment_method_stats>>

\* SYNC_HANDLERS, which has none for payment.settled.
SYNC_HANDLERS(e) ==
    \/ e.type = "merchant.created" /\ _sync_merchant_created(e.value)
    \/ e.type = "merchant.updated" /\ _sync_merchant_updated(e.value)
    \/ e.type = "customer.created" /\ _sync_customer_created(e.id, e.value)
    \/ e.type = "customer.updated" /\ _sync_customer_updated(e.id, e.value)
    \/ e.type = "customer.deleted" /\ _sync_customer_deleted(e.id)
    \/ e.type = "payment.created" /\ _sync_payment_created(e.id, e.value)
    \/ e.type = "payment.updated" /\ _sync_payment_updated(e.id, e.value)
    \/ e.type = "payment.authorized" /\ _sync_payment_authorized(e.id)
    \/ e.type = "payment.captured" /\ _sync_payment_captured(e.id)
    \/ e.type = "payment.failed" /\ _sync_payment_failed(e.id)
    \/ e.type = "payment.settled" /\ UNCHANGED readTables
    \/ e.type = "refund.initiated" /\ _sync_refund_initiated(e.id)
    \/ e.type = "refund.processed" /\ _sync_refund_processed(e.id)

sync_event ==
    /\ feed # <<>>
    /\ feed' = Tail(feed)
    /\ SYNC_HANDLERS(Head(feed))
    /\ UNCHANGED <<lifecycle, columns, profile, dropped, edits>>

\* A dead letter, or an event claimed and lost in a restart: nobody applies it.
Drop ==
    /\ feed # <<>>
    /\ dropped < MaxDropped
    /\ feed' = Tail(feed)
    /\ dropped' = dropped + 1
    /\ UNCHANGED <<lifecycle, columns, profile, readTables, edits>>

-----------------------------------------------------------------------------

Transitions == {<<"authorized", "payment.authorized">>, <<"captured", "payment.captured">>,
                <<"failed", "payment.failed">>, <<"settled", "payment.settled">>}

WriteNext ==
    \/ \E n \in Names : CreateMerchant(n) \/ UpdateMerchant(n)
    \/ \E c \in Customers, n \in Names : CreateCustomer(c, n) \/ UpdateCustomer(c, n)
    \/ \E c \in Customers : DeleteCustomer(c)
    \/ \E p \in Payments, c \in Customers, a \in Prices, m \in Methods, x \in Texts :
           CreatePayment(p, c, a, m, x)
    \/ \E p \in Payments, x \in Texts : UpdatePayment(p, x)
    \/ \E p \in Payments, t \in Transitions : TransitionPayment(p, t[1], t[2])
    \/ \E r \in Refunds, p \in Payments, a \in Amounts : CreateRefund(r, p, a)
    \/ \E r \in Refunds : ProcessRefund(r)

ReadNext == WriteNext \/ NextDay \/ sync_event \/ Drop

ReadSpec == ReadInit /\ [][ReadNext]_readVars
=============================================================================
