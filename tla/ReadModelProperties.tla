--------------------------- MODULE ReadModelProperties ---------------------------
(***************************************************************************)
(* What the read database shows of the write side.                         *)
(***************************************************************************)
EXTENDS ReadModel, FiniteSetsExt

PartialOn(keys, table) == DOMAIN table \subseteq keys

\* Each read table has rows for known keys only, with values of its columns' types;
\* totals of customers may be negative once an event was dropped.
ReadTypeOK ==
    /\ PartialOn({None}, merchants)
    /\ \A m \in DOMAIN merchants : merchants[m] \in Names
    /\ PartialOn(Customers, customers)
    /\ \A c \in DOMAIN customers :
        customers[c] \in [name : Names, total_payments : Nat, total_spent : Int]
    /\ PartialOn(Payments, payments)
    /\ \A p \in DOMAIN payments :
        payments[p] \in [status : {"created", "authorized", "captured", "failed"},
                         customer : Customers, amount : Amounts, name : Names \cup {None},
                         text : Texts, metadata : [json : Texts]]
    /\ PartialOn(Refunds, refunds)
    /\ \A r \in DOMAIN refunds :
        refunds[r] \in [status : {"initiated", "processed"}, payment : Payments,
                        amount : Amounts, name : Names \cup {None}]
    /\ PartialOn(1..MaxDay, daily_revenue)
    /\ PartialOn(Methods, payment_method_stats)
    /\ Len(feed) <= MaxLag
    /\ dropped \in 0..MaxDropped

\* What the read side shows of a payment's status: settlement has no handler, so a
\* settled payment stays captured there.
Shown(s) == IF s = "settled" THEN "captured" ELSE s

\* Every event has been applied.
CaughtUp == feed = <<>> /\ dropped = 0

\* Once every event has been applied, each read table holds what its handlers make of
\* the last state of the write tables: the merchant as last updated, the same customers
\* under the same names, the same payments, each with its last description, its
\* metadata as the string the handlers write and not the object, its status with
\* captured for settled, and the same refunds.
ReplicaConverges ==
    CaughtUp =>
        /\ merchant # None => merchants = [m \in {None} |-> merchant]
        /\ DOMAIN customers = {c \in Customers : customer[c] = "live"}
        /\ \A c \in DOMAIN customers : customers[c].name = name[c]
        /\ DOMAIN payments = {p \in Payments : status[p] # "none"}
        /\ \A p \in DOMAIN payments :
            /\ payments[p].status = Shown(status[p])
            /\ payments[p].customer = owner[p]
            /\ payments[p].amount = amount[p]
            /\ payments[p].text = text[p] /\ payments[p].metadata = Dumps(text[p])
        /\ DOMAIN refunds = {r \in Refunds : refund[r].state # "none"}
        /\ \A r \in DOMAIN refunds :
            /\ refunds[r].status = refund[r].state
            /\ refunds[r].payment = refund[r].payment
            /\ refunds[r].amount = refund[r].amount

\* The statuses a payment has gone through on its way to s.
History(s) ==
    CASE s = "created" -> {"created"}
      [] s = "authorized" -> {"created", "authorized"}
      [] s = "failed" -> {"created", "failed"}
      [] s \in {"captured", "settled"} -> {"created", "authorized", "captured"}
      [] OTHER -> {}

\* The read side may be late, and may have missed events, but never shows a status
\* the payment or refund has not had, or a row of something that never existed.
NeverAhead ==
    /\ \A p \in DOMAIN payments : payments[p].status \in History(status[p])
    /\ \A r \in DOMAIN refunds :
        /\ refund[r].state # "none"
        /\ refunds[r].status = "processed" => refund[r].state = "processed"

\* The copies of a customer's name in its payments and in their refunds never
\* differ from the customer's row, whatever events were dropped.
NamesAgree ==
    /\ \A p \in DOMAIN payments :
        payments[p].customer \in DOMAIN customers =>
            payments[p].name = customers[payments[p].customer].name
    /\ \A r \in DOMAIN refunds :
        refunds[r].payment \in DOMAIN payments =>
            refunds[r].name = payments[refunds[r].payment].name

With(s) == {p \in DOMAIN payments : payments[p].status = s}
Total(S) == MapThenSumSet(LAMBDA p : payments[p].amount, S)
RefundTotal(S) == MapThenSumSet(LAMBDA r : refunds[r].amount, S)

\* As long as no event was dropped, the totals that the handlers keep up step by
\* step are those of the rows: each day's, each method's and each customer's.  A day's
\* refunds are, to the last one, those issued on it after its first payment: the others
\* found no row to come off, and adjust no revenue.
AggregatesAddUp ==
    dropped = 0 =>
        /\ \A d \in DOMAIN daily_revenue :
            LET ofDay == {p \in DOMAIN payments : born[p] = d}
                day == daily_revenue[d]
            IN  /\ day.payment_count = Cardinality(ofDay) /\ ofDay # {}
                /\ day.total_amount = Total(ofDay)
                /\ day.success_count = Cardinality(ofDay \cap With("captured"))
                /\ day.failed_count = Cardinality(ofDay \cap With("failed"))
                /\ day.net_revenue = day.total_amount - day.refund_amount
                /\ day.refund_amount = RefundTotal({r \in DOMAIN refunds \cap booked : born[r] = d})
        /\ \A m \in DOMAIN payment_method_stats :
            LET by == {p \in DOMAIN payments : method[p] = m}
                stats == payment_method_stats[m]
            IN  /\ stats.count = Cardinality(by)
                /\ stats.total_amount = Total(by)
                /\ stats.success_count = Cardinality(by \cap With("captured"))
        /\ \A c \in DOMAIN customers :
            LET captured == PaymentsOf(c) \cap With("captured") IN
            /\ customers[c].total_payments = Cardinality(PaymentsOf(c))
            /\ customers[c].total_spent =
                   Total(captured)
                       - RefundTotal({r \in DOMAIN refunds : refunds[r].payment \in captured})

=============================================================================
