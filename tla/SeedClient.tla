------------------------------- MODULE SeedClient -------------------------------
(***************************************************************************)
(* The seed endpoint: a client of payment-core's own API that fills a      *)
(* merchant with customers, payments and refunds, phase by phase, a few    *)
(* requests at a time, each sent again when it is refused or not answered. *)
(* A request that is not answered may still be served, later or not at     *)
(* all.  The API is PaymentLifecycle, which PaymentCore implements; one    *)
(* merchant stands for all, whose phases only follow each other.           *)
(***************************************************************************)
EXTENDS Budgets, Sequences, FiniteSetsExt

CONSTANTS
    SeedCustomers, SeedPayments, SeedRefunds,   \* ids, the numbers the tenant gives out
    Price,          \* what a payment is about
    Tasks,          \* requests at a time, MAX_CONCURRENCY
    MAX_RETRIES,
    MinRows,        \* MIN_CUSTOMERS_PER_MERCHANT and MIN_PAYMENTS_PER_MERCHANT
    Need,           \* rows to create where there are fewer
    RefundEvery,    \* one refund for so many refundable payments
    None

ASSUME SeedAssumption == MAX_RETRIES \in Nat \ {0} /\ Price > 1
ASSUME NumbersAssumption ==
    /\ SeedCustomers \cup SeedPayments \cup SeedRefunds \subseteq Nat \ {0}
    /\ MinRows \in Nat /\ Need \in Nat
    /\ IsFiniteSet(Tasks)

VARIABLES
    customer, status, owner, amount, refunded, refund,  \* the tenant, see PaymentLifecycle
    tenant,     \* is there a merchant
    had,        \* how many customers and payments it had before
    phase,      \* where _generate_seed_data is
    todo,       \* the phase's jobs nobody has taken
    slot,       \* slot[t]: the requests task t has yet to make, the first is on its way
    known,      \* the customers it was shown
    sample,     \* the payments it was shown, where there were enough
    told,       \* told[op]: the rows that the results count for op
    late,       \* the requests without an answer that may still be served, numbered
    lost        \* how many there have been

lifecycle == <<customer, status, owner, amount, refunded, refund>>
tenantVars == <<lifecycle, tenant>>
seedVars == <<tenantVars, had, phase, todo, slot, known, sample, told, late, lost>>

Write == INSTANCE PaymentLifecycle WITH
    Customers <- SeedCustomers, Payments <- SeedPayments, Refunds <- SeedRefunds,
    Amounts <- 1..Price, None <- None,
    customer <- customer, status <- status, owner <- owner, amount <- amount,
    refunded <- refunded, refund <- refund

Idle == [plan |-> <<>>, on |-> None, tries |-> 0]
Busy == {t \in Tasks : slot[t] # Idle}
Target == [fail |-> "failed", authorize |-> "authorized", capture |-> "captured",
           settle |-> "settled"]

SeedInit ==
    /\ had \in 0..MinRows
    /\ tenant \in {had > 0, TRUE}
    /\ customer = [c \in SeedCustomers |-> IF c <= had THEN "live" ELSE "absent"]
    /\ status = [p \in SeedPayments |-> IF p <= had THEN "created" ELSE "none"]
    /\ owner = [p \in SeedPayments |-> IF p <= had THEN p ELSE None]
    /\ amount = [p \in SeedPayments |-> IF p <= had THEN Price ELSE 0]
    /\ refunded = [p \in SeedPayments |-> 0]
    /\ refund = [r \in SeedRefunds |-> Write!NoRefund]
    /\ phase = "idle"
    /\ todo = {}
    /\ slot = [t \in Tasks |-> Idle]
    /\ known = {}
    /\ sample = {}
    /\ told = [op \in DOMAIN Target \cup {"customer", "payment", "refund", "process"} |-> {}]
    /\ late = {}
    /\ lost = 0

-----------------------------------------------------------------------------
(* The API                                                                 *)

UnusedCustomers == {c \in SeedCustomers : customer[c] = "absent"}
UnusedPayments == {p \in SeedPayments : status[p] = "none"}
UnusedRefunds == {r \in SeedRefunds : refund[r].state = "none"}
NewCustomer == Min(UnusedCustomers)
NewPayment == Min(UnusedPayments)
NewRefund == Min(UnusedRefunds)

Part(op, p) == IF op = "full" THEN amount[p] ELSE 1

\* A merchant's email is unique, and made up once for all its tries.  Rows are made as
\* long as there are ids (a bound).
Serve(op, on) ==
    \/ op = "merchant" /\ ~tenant /\ tenant' = TRUE /\ UNCHANGED lifecycle
    \/ /\ UNCHANGED tenant
       /\ \/ op = "customer" /\ UnusedCustomers # {} /\ Write!AddCustomer(NewCustomer)
          \/ op = "payment" /\ UnusedPayments # {} /\ Write!OpenPayment(NewPayment, on, Price)
          \/ op \in DOMAIN Target /\ Write!MovePayment(on, Target[op])
          \/ /\ op \in {"full", "partial"} /\ UnusedRefunds # {}
             /\ Write!IssueRefund(NewRefund, on, Part(op, on))
          \/ op = "process" /\ Write!ProcessRefund(on)

Accepts(op, on) ==
    CASE op = "merchant" -> ~tenant
      [] op \in {"customer", "payment"} -> TRUE
      [] op \in DOMAIN Target -> <<status[on], Target[op]>> \in Write!Moves
      [] op \in {"full", "partial"} ->
            status[on] \in {"captured", "settled"} /\ refunded[on] + Part(op, on) <= amount[on]
      [] op = "process" -> refund[on].state = "initiated"

\* A request is refused for its state, or for a passing trouble of the server.
Refuse(op, on) ==
    /\ \/ ~Accepts(op, on) /\ NoCost
       \/ Accepts(op, on) /\ Spend("refuse")
    /\ UNCHANGED tenantVars

\* The row an answer is about.
RowOf(op, on) ==
    CASE op = "customer" -> NewCustomer
      [] op = "payment" -> NewPayment
      [] op \in {"full", "partial"} -> NewRefund
      [] OTHER -> on

\* A request that went unanswered is served after all.
LateServe ==
    /\ \E q \in late : Serve(q.op, q.on) /\ late' = late \ {q}
    /\ NoCost
    /\ UNCHANGED <<had, phase, todo, slot, known, sample, told, lost>>

-----------------------------------------------------------------------------
(* _retry_request                                                          *)

LastTry(t) == slot[t].tries + 1 = MAX_RETRIES
Request(t) == [op |-> Head(slot[t].plan), on |-> slot[t].on]
GivenUp(t) == [op |-> Head(slot[t].plan), on |-> slot[t].on, by |-> t, nr |-> lost]
TryAgain(t) == slot' = [slot EXCEPT ![t].tries = @ + 1]

\* What the results count: a payment under the last request of its plan, a refund
\* once it is created, and again when it was asked to be processed.
Tell(t, row) ==
    LET op == Head(slot[t].plan)
        kind == IF op \in {"full", "partial"} THEN "refund" ELSE op
        counts == kind = "refund" \/ (op \in DOMAIN told /\ Len(slot[t].plan) = 1)
    IN  told' = IF counts THEN [told EXCEPT ![kind] = @ \cup {row}] ELSE told

Continue(t, row) ==
    slot' = [slot EXCEPT ![t] = IF Len(@.plan) = 1 THEN Idle
                                ELSE [plan |-> Tail(@.plan), on |-> row, tries |-> 0]]

\* The endpoint answers 500; what is on its way is no longer waited for.
AbortWith(tasks) ==
    /\ phase' = "aborted"
    /\ todo' = {}
    /\ slot' = [t \in Tasks |-> Idle]
    /\ late' = late \cup {GivenUp(t) : t \in tasks}
    /\ lost' = lost + Cardinality(tasks)

\* Mutant: only 200 is a success, not the 201 that a creation is answered with.
Succeeded_Not201(t) ==
    LET q == Request(t)
        created == q.op \notin DOMAIN Target \cup {"process"}
    IN  /\ Serve(q.op, q.on)
        /\ \/ created /\ ~LastTry(t) /\ TryAgain(t) /\ UNCHANGED told
           \/ /\ created => LastTry(t)
              /\ Tell(t, RowOf(q.op, q.on))
              /\ Continue(t, RowOf(q.op, q.on))
        /\ NoCost
        /\ UNCHANGED <<had, phase, todo, known, sample, late, lost>>

Succeeded(t) ==
    LET q == Request(t) IN
    /\ Serve(q.op, q.on)
    /\ Tell(t, RowOf(q.op, q.on))
    /\ Continue(t, RowOf(q.op, q.on))
    /\ NoCost
    /\ UNCHANGED <<had, phase, todo, known, sample, late, lost>>

\* Mutant: a refusal does not use up a try.
Refused_TriesForEver(t) ==
    /\ Refuse(Head(slot[t].plan), slot[t].on)
    /\ UNCHANGED <<had, phase, todo, slot, known, sample, told, late, lost>>

\* After the last try the job has no result; without its merchant nothing goes on.
\* The answer to the processing of a refund is not looked at: it counts all the same.
Refused(t) ==
    /\ Refuse(Head(slot[t].plan), slot[t].on)
    /\ \/ ~LastTry(t) /\ TryAgain(t) /\ UNCHANGED <<phase, todo, told, late, lost>>
       \/ LastTry(t) /\ phase = "merchants" /\ AbortWith(Busy \ {t}) /\ UNCHANGED told
       \/ /\ LastTry(t) /\ phase # "merchants"
          /\ IF Head(slot[t].plan) = "process" THEN Tell(t, slot[t].on) ELSE UNCHANGED told
          /\ slot' = [slot EXCEPT ![t] = Idle]
          /\ UNCHANGED <<phase, todo, late, lost>>
    /\ UNCHANGED <<had, known, sample>>

\* An exception after the last try ends the whole run.
Unanswered(t) ==
    /\ Spend("drop")
    /\ \/ /\ ~LastTry(t) /\ TryAgain(t)
          /\ late' = late \cup {GivenUp(t)}
          /\ lost' = lost + 1
          /\ UNCHANGED <<phase, todo>>
       \/ LastTry(t) /\ AbortWith(Busy)
    /\ UNCHANGED <<tenantVars, had, known, sample, told>>

-----------------------------------------------------------------------------
(* _generate_seed_data                                                     *)

Quiet == todo = {} /\ Busy = {}

Live == {c \in SeedCustomers : customer[c] = "live"}
Opened == {p \in SeedPayments : status[p] # "none"}

\* A list request: refused three times it reads as an empty list.
Listed(rows, seen) ==
    \/ seen = rows /\ NoCost
    \/ seen # rows /\ Spend("refuse")

EnterPhase(from, to) ==
    /\ phase = from /\ Quiet
    /\ phase' = to
    /\ UNCHANGED <<tenantVars, had, slot, told, late, lost>>

\* Step 1: an existing merchant of the name is used, or one is created.  A list that was
\* refused reads as empty, and another is made beside the one there is: that is the
\* seeding of a tenant that is not there yet.
CreateMerchants ==
    /\ Spend("seed")
    /\ EnterPhase("idle", "merchants")
    /\ todo' = IF tenant THEN {} ELSE {1}
    /\ UNCHANGED <<known, sample>>

\* Step 2, unless there are enough.
CreateCustomers ==
    /\ EnterPhase("merchants", "customers")
    /\ \E seen \in {Live, {}} :
        /\ Listed(Live, seen)
        /\ known' = seen
        /\ todo' = IF Cardinality(seen) >= MinRows THEN {} ELSE 1..Need
    /\ UNCHANGED sample

\* Step 3, unless there are enough, or no customers.
CreatePayments ==
    /\ EnterPhase("customers", "payments")
    /\ known' = known \cup told["customer"]
    /\ \E seen \in {Opened, {}} :
        /\ Listed(Opened, seen)
        /\ LET enough == Cardinality(seen) >= MinRows IN
           /\ todo' = IF known' = {} \/ enough THEN {} ELSE 1..Need
           /\ sample' = IF known' # {} /\ enough THEN seen ELSE {}

\* Step 4: every payment of step 3, created or listed.
ProcessPayments ==
    /\ EnterPhase("payments", "processing")
    /\ NoCost
    /\ todo' = sample \cup told["payment"]
    /\ UNCHANGED <<known, sample>>

\* Step 5: some of the payments that were captured or settled.
CreateRefunds ==
    /\ EnterPhase("processing", "refunds")
    /\ NoCost
    /\ LET refundable == told["capture"] \cup told["settle"] IN
       todo' \in kSubset(Cardinality(refundable) \div RefundEvery, refundable)
    /\ UNCHANGED <<known, sample>>

Finish == EnterPhase("refunds", "done") /\ NoCost /\ UNCHANGED <<todo, known, sample>>

\* _check_timeout, once past its limit, skips every phase to come.
TimedOut ==
    /\ phase \in {"merchants", "customers", "payments", "processing"}
    /\ Spend("late")
    /\ EnterPhase(phase, "done")
    /\ UNCHANGED <<todo, known, sample>>

\* A list request without an answer: nothing catches the exception.
ListFails ==
    /\ Quiet
    /\ \/ phase = "idle" /\ left.seed > 0
       \/ phase = "merchants"
       \/ phase = "customers" /\ known \cup told["customer"] # {}
    /\ Spend("drop")
    /\ AbortWith({})
    /\ UNCHANGED <<tenantVars, had, known, sample, told>>

Plans == {<<"fail">>, <<"authorize">>, <<"authorize", "capture">>,
          <<"authorize", "capture", "settle">>}
RefundPlans == {<<"full">>, <<"full", "process">>, <<"partial">>, <<"partial", "process">>}

\* What may become of a job, by the dice it throws; of the customers any is as good.
JobPlans(j) ==
    CASE phase = "merchants" -> {<<"merchant">>} \X {None}
      [] phase = "customers" -> {<<"customer">>} \X {None}
      [] phase = "payments" -> {<<"payment">>} \X {Min(known)}
      [] phase = "processing" -> Plans \X {j}
      [] phase = "refunds" -> RefundPlans \X {j}

\* A task passes the semaphore, in the order of the jobs, and sends its first
\* request.  Which of the free tasks it is makes no difference.
Take ==
    /\ todo # {} /\ Busy # Tasks
    /\ todo' = todo \ {Min(todo)}
    /\ \E w \in JobPlans(Min(todo)) :
           slot' = [slot EXCEPT ![CHOOSE t \in Tasks \ Busy : TRUE] =
                       [plan |-> w[1], on |-> w[2], tries |-> 0]]
    /\ NoCost
    /\ UNCHANGED <<tenantVars, had, phase, known, sample, told, late, lost>>

\* What the client does as long as its requests are answered.
Seeding ==
    \/ CreateCustomers \/ CreatePayments \/ ProcessPayments \/ CreateRefunds \/ Finish \/ Take
    \/ \E t \in Busy : Succeeded(t) \/ Refused(t)

SeedNext ==
    \/ CreateMerchants \/ Seeding \/ TimedOut \/ ListFails \/ LateServe
    \/ \E t \in Busy : Unanswered(t)
=============================================================================
