---------------------------- MODULE PaymentLifecycle ----------------------------
(***************************************************************************)
(* What the write side of the gateway promises about one tenant schema,    *)
(* with every request taking effect in a single step: the life of a        *)
(* payment, the money its refunds reserve, and the customers its payments  *)
(* point to.  PaymentCore, where requests are database transactions that   *)
(* interleave statement by statement, is shown to implement this module.   *)
(***************************************************************************)
EXTENDS Naturals

CONSTANTS
    Customers,  \* customer ids of the tenant
    Payments,   \* payment ids
    Refunds,    \* refund ids
    Amounts,    \* the amounts a request may carry
    None        \* "no such row"

VARIABLES
    customer,   \* customer[c]: "absent", "live" or "deleted"
    status,     \* status[p]: the payment's status, "none" before it exists
    owner,      \* owner[p]: the customer the payment belongs to
    amount,     \* amount[p]: what was charged
    refunded,   \* refunded[p]: what its refunds have reserved
    refund      \* refund[r]: the refund's state, payment and amount

lifecycleVars == <<customer, status, owner, amount, refunded, refund>>

\* The arrows a payment may follow.
Moves == {<<"created", "authorized">>, <<"created", "failed">>,
          <<"authorized", "captured">>, <<"captured", "settled">>}

NoRefund == [state |-> "none", payment |-> None, amount |-> 0]

LifecycleInit ==
    /\ customer = [c \in Customers |-> "absent"]
    /\ status = [p \in Payments |-> "none"]
    /\ owner = [p \in Payments |-> None]
    /\ amount = [p \in Payments |-> 0]
    /\ refunded = [p \in Payments |-> 0]
    /\ refund = [r \in Refunds |-> NoRefund]

-----------------------------------------------------------------------------

AddCustomer(c) ==
    /\ customer[c] = "absent"
    /\ customer' = [customer EXCEPT ![c] = "live"]
    /\ UNCHANGED <<status, owner, amount, refunded, refund>>

\* A customer that owns a payment cannot be removed.
RemoveCustomer(c) ==
    /\ customer[c] = "live"
    /\ \A p \in Payments : owner[p] # c
    /\ customer' = [customer EXCEPT ![c] = "deleted"]
    /\ UNCHANGED <<status, owner, amount, refunded, refund>>

OpenPayment(p, c, a) ==
    /\ status[p] = "none"
    /\ customer[c] = "live"
    /\ status' = [status EXCEPT ![p] = "created"]
    /\ owner' = [owner EXCEPT ![p] = c]
    /\ amount' = [amount EXCEPT ![p] = a]
    /\ UNCHANGED <<customer, refunded, refund>>

MovePayment(p, s) ==
    /\ <<status[p], s>> \in Moves
    /\ status' = [status EXCEPT ![p] = s]
    /\ UNCHANGED <<customer, owner, amount, refunded, refund>>

\* A refund takes its amount out of what the payment still has.
IssueRefund(r, p, a) ==
    /\ refund[r].state = "none"
    /\ status[p] \in {"captured", "settled"}
    /\ refunded[p] + a <= amount[p]
    /\ refunded' = [refunded EXCEPT ![p] = refunded[p] + a]
    /\ refund' = [refund EXCEPT ![r] = [state |-> "initiated", payment |-> p, amount |-> a]]
    /\ UNCHANGED <<customer, status, owner, amount>>

ProcessRefund(r) ==
    /\ refund[r].state = "initiated"
    /\ refund' = [refund EXCEPT ![r] = [state |-> "processed",
                                         payment |-> refund[r].payment,
                                         amount |-> refund[r].amount]]
    /\ UNCHANGED <<customer, status, owner, amount, refunded>>

LifecycleNext ==
    \/ \E c \in Customers : AddCustomer(c) \/ RemoveCustomer(c)
    \/ \E p \in Payments, c \in Customers, a \in Amounts : OpenPayment(p, c, a)
    \/ \E p \in Payments, s \in {"authorized", "failed", "captured", "settled"} :
           MovePayment(p, s)
    \/ \E r \in Refunds, p \in Payments, a \in Amounts : IssueRefund(r, p, a)
    \/ \E r \in Refunds : ProcessRefund(r)

LifecycleSpec == LifecycleInit /\ [][LifecycleNext]_lifecycleVars
=============================================================================
