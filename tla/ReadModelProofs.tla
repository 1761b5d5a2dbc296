------------------------------ MODULE ReadModelProofs ------------------------------
(***************************************************************************)
(* What the read database shows, for any customers, payments, refunds,     *)
(* amounts and edits, any lag of the consumer and any dropped events.      *)
(***************************************************************************)
EXTENDS ReadModelProperties, FiniteSums, SequenceTheorems

-----------------------------------------------------------------------------
(* The inductive invariant: the write side, the events on their way and    *)
(* the rows of the read side, each against the others.                     *)

\* What the requests guarantee about their own tables: a payment has a live customer
\* and a day, a refund has a payment that was captured.
WriteSound ==
    /\ merchant \in Names \cup {None} /\ today \in 1..MaxDay
    /\ customer \in [Customers -> {"absent", "live", "deleted"}]
    /\ status \in [Payments -> {"none", "created", "authorized", "captured", "failed", "settled"}]
    /\ refund \in [Refunds -> [state : {"none", "initiated", "processed"},
                               payment : Payments \cup {None}, amount : Amounts \cup {0}]]
    /\ owner \in [Payments -> Customers \cup {None}]
    /\ amount \in [Payments -> Amounts \cup {0}]
    /\ name \in [Customers -> Names \cup {None}]
    /\ method \in [Payments -> Methods \cup {None}]
    /\ text \in [Payments -> Texts \cup {None}]
    /\ born \in [Payments \cup Refunds -> 0..MaxDay]
    /\ booked \subseteq Refunds /\ \A r \in booked : refund[r].state # "none"
    /\ \A c \in Customers : customer[c] # "absent" => merchant # None /\ name[c] \in Names
    /\ \A p \in Payments :
        IF status[p] = "none" THEN owner[p] = None
        ELSE /\ owner[p] \in Customers /\ customer[owner[p]] = "live"
             /\ amount[p] \in Amounts /\ method[p] \in Methods /\ text[p] \in Texts
             /\ born[p] \in 1..MaxDay
    /\ \A r \in Refunds :
        IF refund[r].state = "none" THEN refund[r].payment = None
        ELSE /\ refund[r].payment \in Payments /\ refund[r].amount \in Amounts
             /\ status[refund[r].payment] \in {"captured", "settled"}
             /\ born[r] \in 1..MaxDay

FeedEvents ==
    [type : {"merchant.created", "merchant.updated"}, id : {None}, value : Names]
        \cup [type : {"customer.created", "customer.updated"}, id : Customers, value : Names]
        \cup [type : {"customer.deleted"}, id : Customers, value : {None}]
        \cup [type : {"payment.created", "payment.updated"}, id : Payments, value : Texts]
        \cup [type : {"payment.authorized", "payment.captured", "payment.failed",
                      "payment.settled"}, id : Payments, value : {None}]
        \cup [type : {"refund.initiated", "refund.processed"}, id : Refunds, value : {None}]

\* The status a handler sets.
StatusTypes == {"payment.created", "payment.authorized", "payment.captured", "payment.failed"}
StatusOf(type) ==
    CASE type = "payment.created" -> "created"
      [] type = "payment.authorized" -> "authorized"
      [] type = "payment.captured" -> "captured"
      [] OTHER -> "failed"

\* The write side has seen what the event says.
Happened(e) ==
    /\ e.type \in {"merchant.created", "merchant.updated"} => merchant # None
    /\ e.type \in {"customer.created", "customer.updated"} => customer[e.id] # "absent"
    /\ e.type = "customer.deleted" => customer[e.id] = "deleted"
    /\ e.type \in {"payment.updated", "payment.settled"} => status[e.id] # "none"
    /\ e.type \in StatusTypes => StatusOf(e.type) \in History(status[e.id])
    /\ e.type = "refund.initiated" => refund[e.id].state # "none"
    /\ e.type = "refund.processed" => refund[e.id].state = "processed"

FeedSound == feed \in Seq(FeedEvents) /\ \A i \in 1..Len(feed) : Happened(feed[i])

Creations == {"merchant.created", "customer.created", "payment.created", "refund.initiated"}

\* f cannot come after e: a row is created before all else, once, and after the rows
\* it points to; a payment's statuses are told in their order.
TooLate(e, f) ==
    \/ f.type \in Creations /\ f.id = e.id
    \/ /\ f.type = "customer.created" /\ e.type = "payment.created"
       /\ owner[e.id] = f.id
    \/ /\ f.type \in {"payment.created", "payment.captured"} /\ e.type = "refund.initiated"
       /\ refund[e.id].payment = f.id
    \/ /\ f.type \in StatusTypes /\ e.type \in StatusTypes /\ f.id = e.id
       /\ StatusOf(f.type) \in History(StatusOf(e.type))

FeedInOrder == \A i, j \in 1..Len(feed) : i < j => ~TooLate(feed[i], feed[j])

\* The rows stand for the events that made them: f can still come.
CanCome(f) ==
    /\ f.type = "merchant.created" => f.id \notin DOMAIN merchants
    /\ f.type = "customer.created" =>
        f.id \notin DOMAIN customers /\ \A p \in DOMAIN payments : owner[p] # f.id
    /\ f.type = "payment.created" => f.id \notin DOMAIN payments
    /\ f.type = "refund.initiated" => f.id \notin DOMAIN refunds
    /\ f.type \in {"payment.created", "payment.captured"} =>
        \A r \in DOMAIN refunds : refund[r].payment # f.id
    /\ f.type \in StatusTypes /\ f.id \in DOMAIN payments =>
        StatusOf(f.type) \notin History(payments[f.id].status)

RowsInOrder == \A i \in 1..Len(feed) : CanCome(feed[i])

\* A row repeats what the write side will not change.
RowsSound ==
    /\ IsFiniteSet(DOMAIN payments) /\ IsFiniteSet(DOMAIN refunds)
    /\ None \in DOMAIN merchants => merchant # None
    /\ \A c \in DOMAIN customers : customer[c] # "absent"
    /\ \A p \in DOMAIN payments :
        /\ status[p] # "none" /\ payments[p].customer = owner[p] /\ payments[p].amount = amount[p]
        /\ payments[p].metadata = Dumps(payments[p].text)
    /\ \A r \in DOMAIN refunds :
        refunds[r].payment = refund[r].payment /\ refunds[r].amount = refund[r].amount

\* In a feed, the last of the events F is one of E, or there is none.
LastOf(events, E, F) ==
    \E i \in 1..Len(events) :
        /\ events[i] \in E
        /\ \A j \in 1..Len(events) : i < j => events[j] \notin F
Silent(events, F) == \A i \in 1..Len(events) : events[i] \notin F
Coming(events, type, id) ==
    \E i \in 1..Len(events) : events[i].type = type /\ events[i].id = id

Telling(types, id) == {e \in FeedEvents : e.type \in types /\ e.id = id}
Saying(types, id, v) == {e \in Telling(types, id) : e.value = v}
MerchantNames == {"merchant.created", "merchant.updated"}
CustomerNames == {"customer.created", "customer.updated"}
PaymentTexts == {"payment.created", "payment.updated"}
RefundStates == {"refund.initiated", "refund.processed"}
Showing(p, s) == {e \in Telling(StatusTypes, p) : StatusOf(e.type) = s}
StateOf(type) == IF type = "refund.initiated" THEN "initiated" ELSE "processed"
Setting(r, s) == {e \in Telling(RefundStates, r) : StateOf(e.type) = s}

\* Each row is there or coming.
RowsComplete ==
    /\ merchant # None => None \in DOMAIN merchants \/ Coming(feed, "merchant.created", None)
    /\ \A c \in Customers :
        /\ customer[c] = "live" =>
            \/ c \in DOMAIN customers
            \/ Coming(feed, "customer.created", c)
        /\ customer[c] = "deleted" =>
            \/ Coming(feed, "customer.deleted", c)
            \/ c \notin DOMAIN customers /\ ~Coming(feed, "customer.created", c)
    /\ \A p \in Payments :
        status[p] # "none" => p \in DOMAIN payments \/ Coming(feed, "payment.created", p)
    /\ \A r \in Refunds :
        refund[r].state # "none" => r \in DOMAIN refunds \/ Coming(feed, "refund.initiated", r)

\* Each value is there, or the last event that says something of it says it.
ValuesComplete ==
    /\ merchant # None =>
        \/ LastOf(feed, Saying(MerchantNames, None, merchant), Telling(MerchantNames, None))
        \/ Silent(feed, Telling(MerchantNames, None)) /\ merchants = [m \in {None} |-> merchant]
    /\ \A c \in Customers : customer[c] = "live" =>
        \/ LastOf(feed, Saying(CustomerNames, c, name[c]), Telling(CustomerNames, c))
        \/ Silent(feed, Telling(CustomerNames, c)) /\ customers[c].name = name[c]
    /\ \A p \in Payments : status[p] # "none" =>
        /\ \/ LastOf(feed, Saying(PaymentTexts, p, text[p]), Telling(PaymentTexts, p))
           \/ Silent(feed, Telling(PaymentTexts, p)) /\ payments[p].text = text[p]
        /\ \/ LastOf(feed, Showing(p, Shown(status[p])), Telling(StatusTypes, p))
           \/ Silent(feed, Telling(StatusTypes, p)) /\ payments[p].status = Shown(status[p])
    /\ \A r \in Refunds : refund[r].state # "none" =>
        \/ LastOf(feed, Setting(r, refund[r].state), Telling(RefundStates, r))
        \/ Silent(feed, Telling(RefundStates, r)) /\ refunds[r].status = refund[r].state

\* The totals have a row for each payment, and none without; refunds have a captured
\* payment, and those that are booked a day.
TotalsReady ==
    /\ \A p \in DOMAIN payments :
        born[p] \in DOMAIN daily_revenue /\ method[p] \in DOMAIN payment_method_stats
    /\ \A d \in DOMAIN daily_revenue : \E p \in DOMAIN payments : born[p] = d
    /\ \A r \in DOMAIN refunds :
        /\ refunds[r].payment \in DOMAIN payments
        /\ payments[refunds[r].payment].status = "captured"
        /\ r \in booked => born[r] \in DOMAIN daily_revenue

\* A day has its row, or the payment that brings it is before an event on its way.
DayOpens(events, i, d) ==
    \/ d \in DOMAIN daily_revenue
    \/ \E j \in 1..Len(events) :
          j < i /\ events[j].type = "payment.created" /\ born[events[j].id] = d

\* A refund on its way finds the row of its day exactly if it is booked.
BookingReady ==
    \A i \in 1..Len(feed) : feed[i].type = "refund.initiated" =>
        (feed[i].id \in booked <=> DayOpens(feed, i, born[feed[i].id]))

\* The types of the running totals.
TotalsTypeOK ==
    /\ \A d \in DOMAIN daily_revenue : daily_revenue[d] \in
        [total_amount : Int, payment_count : Int, net_revenue : Int,
         success_count : Int, failed_count : Int, refund_amount : Int]
    /\ \A m \in DOMAIN payment_method_stats : payment_method_stats[m] \in
        [total_amount : Int, count : Int, success_count : Int]

\* Whatever is dropped: what is on its way and what is shown come in order.
ReadInv ==
    /\ ReadTypeOK /\ TotalsTypeOK /\ WriteSound
    /\ FeedSound /\ FeedInOrder
    /\ RowsSound /\ RowsInOrder
    /\ NeverAhead /\ NamesAgree

\* As long as nothing was dropped: nothing is missing, nor a total to add to.
ReplicaInv == dropped = 0 => RowsComplete /\ ValuesComplete /\ TotalsReady /\ BookingReady

-----------------------------------------------------------------------------
(* Feeds: what an event that arrives, or leaves, does to them.             *)

\* An event that is appended is the last one.
LEMMA Arrival ==
  ASSUME NEW s \in Seq(FeedEvents), NEW e \in FeedEvents
  PROVE  /\ Append(s, e) \in Seq(FeedEvents) /\ Len(s) \in Nat
         /\ Len(Append(s, e)) = Len(s) + 1
         /\ \A i \in 1..Len(s) : Append(s, e)[i] = s[i] /\ s[i] \in FeedEvents
         /\ Append(s, e)[Len(s) + 1] = e
  BY AppendProperties, ElementOfSeq, LenProperties

LEMMA ArrivalTells ==
  ASSUME NEW s \in Seq(FeedEvents), NEW e \in FeedEvents
  PROVE  /\ \A E, F : e \in E => LastOf(Append(s, e), E, F)
         /\ \A E, F : e \notin F /\ LastOf(s, E, F) => LastOf(Append(s, e), E, F)
         /\ \A F : e \notin F /\ Silent(s, F) => Silent(Append(s, e), F)
         /\ \A t, x : Coming(Append(s, e), t, x) <=>
                          Coming(s, t, x) \/ (e.type = t /\ e.id = x)
<1> DEFINE u == Append(s, e)
           n == Len(s)
<1>1. /\ n \in Nat /\ Len(u) = n + 1 /\ \A i \in 1..n : u[i] = s[i]
      /\ u[n + 1] = e
  BY Arrival
<1>2. \A i \in 1..Len(u) : (i \in 1..n \/ i = n + 1)
  BY <1>1
<1>3. n + 1 \in 1..Len(u) /\ \A i \in 1..n : i \in 1..Len(u) /\ i < n + 1
  BY <1>1
<1> HIDE DEF u, n
<1>4. \A E, F : e \in E => LastOf(u, E, F)
  <2>1. \A j \in 1..Len(u) : ~(n + 1 < j)
    BY <1>1
  <2> QED  BY <1>1, <1>3, <2>1 DEF LastOf
<1>5. \A E, F : e \notin F /\ LastOf(s, E, F) => LastOf(u, E, F)
  BY <1>1, <1>2, <1>3 DEF LastOf, n
<1>6. \A F : e \notin F /\ Silent(s, F) => Silent(u, F)
  BY <1>1, <1>2 DEF Silent, n
<1>7. \A t, x : Coming(u, t, x) <=> Coming(s, t, x) \/ (e.type = t /\ e.id = x)
  BY <1>1, <1>2, <1>3 DEF Coming, n
<1> QED  BY <1>4, <1>5, <1>6, <1>7 DEF u

\* An event that leaves was the first one.
LEMMA Departure ==
  ASSUME NEW s \in Seq(FeedEvents), s # <<>>
  PROVE  /\ Tail(s) \in Seq(FeedEvents) /\ Len(s) \in Nat /\ Len(Tail(s)) = Len(s) - 1
         /\ 1 \in 1..Len(s) /\ s[1] = Head(s) /\ Head(s) \in FeedEvents
         /\ \A i \in 1..Len(Tail(s)) :
                i + 1 \in 1..Len(s) /\ Tail(s)[i] = s[i + 1] /\ Tail(s)[i] \in FeedEvents
         /\ \A i \in 1..Len(s) : i # 1 => i - 1 \in 1..Len(Tail(s)) /\ Tail(s)[i - 1] = s[i]
<1>1. /\ Tail(s) \in Seq(FeedEvents) /\ Len(s) \in Nat /\ Len(Tail(s)) = Len(s) - 1
      /\ Head(s) \in FeedEvents /\ Len(Tail(s)) \in Nat
      /\ \A i \in 1..Len(Tail(s)) : Tail(s)[i] = s[i + 1]
  BY HeadTailProperties, LenProperties
<1>2. Len(s) # 0 /\ s[1] = Head(s)
  BY EmptySeq, LenProperties
<1>3. \A i \in 1..Len(Tail(s)) :
                i + 1 \in 1..Len(s) /\ Tail(s)[i] = s[i + 1] /\ Tail(s)[i] \in FeedEvents
  BY <1>1, ElementOfSeq
<1>4. \A i \in 1..Len(s) : i # 1 => i - 1 \in 1..Len(Tail(s)) /\ Tail(s)[i - 1] = s[i]
  <2> TAKE i \in 1..Len(s)
  <2> HAVE i # 1
  <2>1. i - 1 \in 1..Len(Tail(s)) /\ (i - 1) + 1 = i
    BY <1>1
  <2> QED  BY <2>1, <1>1
<1> QED  BY <1>1, <1>2, <1>3, <1>4

LEMMA DepartureTells ==
  ASSUME NEW s \in Seq(FeedEvents), s # <<>>
  PROVE  /\ \A E, F : LastOf(s, E, F) =>
                LastOf(Tail(s), E, F) \/ (Head(s) \in E /\ Silent(Tail(s), F))
         /\ \A F : Silent(s, F) => Silent(Tail(s), F) /\ Head(s) \notin F
         /\ \A t, x : Coming(s, t, x) <=>
                Coming(Tail(s), t, x) \/ (Head(s).type = t /\ Head(s).id = x)
<1> DEFINE u == Tail(s)
<1>1. /\ 1 \in 1..Len(s) /\ s[1] = Head(s) /\ Len(s) \in Nat /\ Len(u) = Len(s) - 1
      /\ \A i \in 1..Len(u) : i + 1 \in 1..Len(s) /\ u[i] = s[i + 1]
      /\ \A i \in 1..Len(s) : i # 1 => i - 1 \in 1..Len(u) /\ u[i - 1] = s[i]
  BY Departure
<1> HIDE DEF u
<1>2. \A E, F : LastOf(s, E, F) => LastOf(u, E, F) \/ (Head(s) \in E /\ Silent(u, F))
  <2> TAKE E, F
  <2> HAVE LastOf(s, E, F)
  <2>1. PICK i \in 1..Len(s) : s[i] \in E /\ \A j \in 1..Len(s) : i < j => s[j] \notin F
    BY DEF LastOf
  <2>2. CASE i = 1
    <3>1. \A j \in 1..Len(u) : 1 < j + 1  BY <1>1
    <3>2. Silent(u, F)  BY <1>1, <2>1, <2>2, <3>1 DEF Silent
    <3> QED  BY <1>1, <2>1, <2>2, <3>2
  <2>3. CASE i # 1
    <3>1. \A j \in 1..Len(u) : i - 1 < j => i < j + 1  BY <1>1
    <3>2. i - 1 \in 1..Len(u) /\ u[i - 1] \in E  BY <1>1, <2>1, <2>3
    <3>3. \A j \in 1..Len(u) : i - 1 < j => u[j] \notin F  BY <1>1, <2>1, <3>1
    <3> QED  BY <3>2, <3>3 DEF LastOf
  <2> QED  BY <2>2, <2>3
<1>3. \A F : Silent(s, F) => Silent(u, F) /\ Head(s) \notin F
  BY <1>1 DEF Silent
<1>4. \A t, x : Coming(s, t, x) <=> Coming(u, t, x) \/ (Head(s).type = t /\ Head(s).id = x)
  <2> TAKE t, x
  <2>1. Coming(s, t, x) => Coming(u, t, x) \/ (Head(s).type = t /\ Head(s).id = x)
    BY <1>1 DEF Coming
  <2>2. Coming(u, t, x) => Coming(s, t, x)
    BY <1>1 DEF Coming
  <2>3. Head(s).type = t /\ Head(s).id = x => Coming(s, t, x)
    BY <1>1 DEF Coming
  <2> QED  BY <2>1, <2>2, <2>3
<1> QED  BY <1>2, <1>3, <1>4 DEF u

-----------------------------------------------------------------------------
(* The write side: a request appends one event and leaves the read tables  *)
(* alone.                                                                  *)

\* What an event of each type names.
LEMMA EventKinds ==
  \A e \in FeedEvents :
    /\ e.type \in MerchantNames => e.id = None /\ e.value \in Names
    /\ e.type \in CustomerNames => e.id \in Customers /\ e.value \in Names
    /\ e.type = "customer.deleted" => e.id \in Customers
    /\ e.type \in PaymentTexts => e.id \in Payments /\ e.value \in Texts
    /\ e.type \in StatusTypes \cup {"payment.settled"} => e.id \in Payments
    /\ e.type \in RefundStates => e.id \in Refunds
    /\ e.type \in MerchantNames \cup CustomerNames \cup PaymentTexts \cup StatusTypes
                    \cup RefundStates \cup {"customer.deleted", "payment.settled"}
  BY DEF FeedEvents, MerchantNames, CustomerNames, PaymentTexts, StatusTypes, RefundStates

\* Nothing that exists goes away, and its fixed columns stay.
Keeps ==
    /\ merchant # None => merchant' # None
    /\ \A c \in Customers :
        /\ customer[c] # "absent" => customer'[c] # "absent"
        /\ customer[c] = "deleted" => customer'[c] = "deleted"
    /\ \A p \in Payments : status[p] # "none" =>
        /\ status'[p] # "none" /\ History(status[p]) \subseteq History(status'[p])
        /\ owner'[p] = owner[p] /\ amount'[p] = amount[p]
        /\ born'[p] = born[p] /\ method'[p] = method[p]
    /\ \A r \in Refunds : refund[r].state # "none" =>
        /\ refund'[r].state # "none" /\ born'[r] = born[r] /\ (r \in booked' <=> r \in booked)
        /\ refund[r].state = "processed" => refund'[r].state = "processed"
        /\ refund'[r].payment = refund[r].payment /\ refund'[r].amount = refund[r].amount

\* The step's event.
Sends(e) ==
    /\ e \in FeedEvents /\ Len(feed) < MaxLag /\ feed' = Append(feed, e)
    /\ UNCHANGED <<readTables, dropped>>

\* The event has happened, and may come after all that have.
IsNews(e) ==
    /\ Happened(e)' /\ CanCome(e)'
    /\ \A f \in FeedEvents : Happened(f) => ~TooLate(f, e)'

\* What did not exist before is created by the event, what changes is told by it.
SaysAll(e) ==
    /\ merchant' # None =>
        /\ merchant # None \/ (e.type = "merchant.created" /\ e.id = None)
        /\ \/ e \in Saying(MerchantNames, None, merchant')
           \/ merchant # None /\ merchant' = merchant /\ e \notin Telling(MerchantNames, None)
    /\ \A c \in Customers :
        /\ customer'[c] = "live" =>
            /\ customer[c] = "live" \/ (e.type = "customer.created" /\ e.id = c)
            /\ \/ e \in Saying(CustomerNames, c, name'[c])
               \/ /\ customer[c] = "live" /\ name'[c] = name[c]
                  /\ e \notin Telling(CustomerNames, c)
        /\ customer'[c] = "deleted" =>
            \/ e.type = "customer.deleted" /\ e.id = c
            \/ customer[c] = "deleted" /\ ~(e.type = "customer.created" /\ e.id = c)
    /\ \A p \in Payments : status'[p] # "none" =>
        /\ status[p] # "none" \/ (e.type = "payment.created" /\ e.id = p)
        /\ \/ e \in Saying(PaymentTexts, p, text'[p])
           \/ /\ status[p] # "none" /\ text'[p] = text[p]
              /\ e \notin Telling(PaymentTexts, p)
        /\ \/ e \in Showing(p, Shown(status'[p]))
           \/ /\ status[p] # "none" /\ Shown(status'[p]) = Shown(status[p])
              /\ e \notin Telling(StatusTypes, p)
    /\ \A r \in Refunds : refund'[r].state # "none" =>
        /\ refund[r].state # "none" \/ (e.type = "refund.initiated" /\ e.id = r)
        /\ \/ e \in Setting(r, refund'[r].state)
           \/ /\ refund[r].state # "none" /\ refund'[r].state = refund[r].state
              /\ e \notin Telling(RefundStates, r)
    /\ e.type = "refund.initiated" =>
        (e.id \in booked' <=> \E p \in Payments : status[p] # "none" /\ born[p] = born'[e.id])

\* Events that have happened still have, and orders between them do not change.
LEMMA PastStays ==
  ASSUME ReadInv, Keeps
  PROVE  \A e \in FeedEvents : Happened(e) =>
            /\ Happened(e)'
            /\ CanCome(e) /\ UNCHANGED readTables => CanCome(e)'
            /\ \A f \in FeedEvents : TooLate(e, f)' => TooLate(e, f)
<1> SUFFICES ASSUME NEW e \in FeedEvents, Happened(e)
             PROVE /\ Happened(e)'
                   /\ CanCome(e) /\ UNCHANGED readTables => CanCome(e)'
                   /\ \A f \in FeedEvents : TooLate(e, f)' => TooLate(e, f)
  OBVIOUS
<1> USE DEF ReadInv
<1>1. Happened(e)'
  <2>1. /\ e.type \in MerchantNames => merchant' # None
        /\ e.type \in CustomerNames => customer'[e.id] # "absent"
        /\ e.type = "customer.deleted" => customer'[e.id] = "deleted"
    BY EventKinds DEF Happened, Keeps, MerchantNames, CustomerNames
  <2>2. e.type \in {"payment.updated", "payment.settled"} => status'[e.id] # "none"
    BY EventKinds DEF Happened, Keeps, PaymentTexts
  <2>3. e.type \in StatusTypes => StatusOf(e.type) \in History(status'[e.id])
    <3> SUFFICES ASSUME e.type \in StatusTypes
                 PROVE StatusOf(e.type) \in History(status'[e.id])
      OBVIOUS
    <3>1. e.id \in Payments /\ StatusOf(e.type) \in History(status[e.id])
      BY EventKinds DEF Happened
    <3>2. status[e.id] # "none"
      BY <3>1 DEF History
    <3> QED  BY <3>1, <3>2 DEF Keeps
  <2>4. /\ e.type = "refund.initiated" => refund'[e.id].state # "none"
        /\ e.type = "refund.processed" => refund'[e.id].state = "processed"
    BY EventKinds DEF Happened, Keeps, RefundStates
  <2> QED  BY <2>1, <2>2, <2>3, <2>4 DEF Happened, MerchantNames, CustomerNames
<1>2. ASSUME CanCome(e), UNCHANGED readTables  PROVE CanCome(e)'
  <2>1. \A p \in DOMAIN payments : owner'[p] = owner[p]
    BY <1>2 DEF RowsSound, Keeps, ReadTypeOK, PartialOn
  <2>2. \A r \in DOMAIN refunds : refund'[r].payment = refund[r].payment
    BY <1>2 DEF NeverAhead, Keeps, ReadTypeOK, PartialOn, RowsSound
  <2> QED  BY <1>2, <2>1, <2>2 DEF CanCome, readTables
<1>3. ASSUME NEW f \in FeedEvents, TooLate(e, f)'  PROVE TooLate(e, f)
  <2>1. e.type = "payment.created" => owner'[e.id] = owner[e.id]
    BY EventKinds DEF Happened, Keeps, StatusTypes, StatusOf, History, WriteSound
  <2>2. e.type = "refund.initiated" => refund'[e.id].payment = refund[e.id].payment
    BY EventKinds DEF Happened, Keeps, RefundStates
  <2> QED  BY <1>3, <2>1, <2>2 DEF TooLate
<1> QED  BY <1>1, <1>2, <1>3

\* What is on its way and what is shown stay in order when an event joins them.
LEMMA NewsKeepsOrder ==
  ASSUME ReadInv, Keeps, WriteSound', NEW e, Sends(e), IsNews(e)
  PROVE  ReadInv'
<1> USE DEF ReadInv
<1>0. /\ e \in FeedEvents /\ feed \in Seq(FeedEvents) /\ feed' = Append(feed, e)
      /\ merchants' = merchants /\ customers' = customers /\ payments' = payments
      /\ refunds' = refunds /\ daily_revenue' = daily_revenue
      /\ payment_method_stats' = payment_method_stats /\ dropped' = dropped
  BY DEF Sends, FeedSound, readTables
<1> DEFINE n == Len(feed)
<1>1. /\ feed' \in Seq(FeedEvents) /\ n \in Nat /\ Len(feed') = n + 1
      /\ \A i \in 1..n : feed'[i] = feed[i] /\ feed[i] \in FeedEvents
      /\ feed'[n + 1] = e
  BY <1>0, Arrival
<1>2. \A i \in 1..Len(feed') : (i \in 1..n /\ feed'[i] = feed[i]) \/ (i = n + 1 /\ feed'[i] = e)
  BY <1>1
<1> HIDE DEF n
<1>3. (ReadTypeOK /\ TotalsTypeOK)'
  <2>1. Len(feed') <= MaxLag
    BY <1>0, <1>1, ReadBoundsAssumption DEF Sends, n
  <2> QED  BY <1>0, <2>1 DEF ReadTypeOK, TotalsTypeOK, PartialOn
<1>4. FeedSound'
  BY <1>1, <1>2, PastStays DEF FeedSound, IsNews, n
<1>5. FeedInOrder'
  <2> SUFFICES ASSUME NEW i \in 1..Len(feed'), NEW j \in 1..Len(feed'), i < j
               PROVE  ~TooLate(feed[i], feed[j])'
    BY DEF FeedInOrder
  <2>1. i \in 1..n /\ feed'[i] = feed[i] /\ feed[i] \in FeedEvents /\ Happened(feed[i])
    BY <1>1, <1>2 DEF FeedSound, n
  <2>2. CASE j \in 1..n
    <3>1. ~TooLate(feed[i], feed[j])  BY <2>1, <2>2 DEF FeedInOrder, n
    <3>2. PICK f \in FeedEvents, g \in FeedEvents : f = feed[i] /\ g = feed[j]
      BY <1>1, <2>1, <2>2
    <3>3. Happened(f) /\ ~TooLate(f, g) /\ feed'[i] = f /\ feed'[j] = g
      BY <1>1, <2>1, <2>2, <3>1, <3>2
    <3>4. ~TooLate(f, g)'
      BY <3>3, PastStays
    <3> QED  BY <3>3, <3>4 DEF TooLate
  <2>3. CASE j = n + 1
    BY <1>1, <2>1, <2>3 DEF IsNews
  <2> QED  BY <1>2, <2>2, <2>3
<1>6. RowsSound'
  BY <1>0 DEF RowsSound, Keeps, ReadTypeOK, PartialOn, NeverAhead
<1>7. RowsInOrder'
  BY <1>0, <1>1, <1>2, PastStays DEF RowsInOrder, IsNews, readTables, n, FeedSound
<1>8. NeverAhead'
  BY <1>0 DEF NeverAhead, Keeps, ReadTypeOK, PartialOn, RowsSound
<1>9. NamesAgree'
  BY <1>0 DEF NamesAgree
<1> QED  BY <1>3, <1>4, <1>5, <1>6, <1>7, <1>8, <1>9

\* Nothing is missing when the event says all that changed.
LEMMA NewsKeepsReplica ==
  ASSUME ReadInv, ReplicaInv, Keeps, NEW e, Sends(e), SaysAll(e)
  PROVE  ReplicaInv'
<1> USE DEF ReadInv
<1> SUFFICES ASSUME dropped' = 0  PROVE (RowsComplete /\ ValuesComplete /\ TotalsReady /\ BookingReady)'
  BY DEF ReplicaInv
<1>0. /\ e \in FeedEvents /\ feed \in Seq(FeedEvents) /\ feed' = Append(feed, e)
      /\ merchants' = merchants /\ customers' = customers /\ payments' = payments
      /\ refunds' = refunds /\ daily_revenue' = daily_revenue
      /\ payment_method_stats' = payment_method_stats
      /\ RowsComplete /\ ValuesComplete /\ TotalsReady /\ BookingReady
  BY DEF Sends, FeedSound, readTables, ReplicaInv
<1>1. /\ \A E, F : e \in E => LastOf(feed', E, F)
      /\ \A E, F : e \notin F /\ LastOf(feed, E, F) => LastOf(feed', E, F)
      /\ \A F : e \notin F /\ Silent(feed, F) => Silent(feed', F)
      /\ \A t, x : Coming(feed', t, x) <=> Coming(feed, t, x) \/ (e.type = t /\ e.id = x)
  BY <1>0, ArrivalTells
<1>2. RowsComplete'
  <2>1. merchant' # None => None \in DOMAIN merchants \/ Coming(feed', "merchant.created", None)
    BY <1>0, <1>1 DEF RowsComplete, SaysAll
  <2>2. ASSUME NEW c \in Customers
        PROVE /\ customer'[c] = "live" => c \in DOMAIN customers \/ Coming(feed', "customer.created", c)
              /\ customer'[c] = "deleted" =>
                  \/ Coming(feed', "customer.deleted", c)
                  \/ c \notin DOMAIN customers /\ ~Coming(feed', "customer.created", c)
    BY <1>0, <1>1 DEF RowsComplete, SaysAll
  <2>3. ASSUME NEW p \in Payments, status'[p] # "none"
        PROVE p \in DOMAIN payments \/ Coming(feed', "payment.created", p)
    BY <1>0, <1>1, <2>3 DEF RowsComplete, SaysAll
  <2>4. ASSUME NEW r \in Refunds, refund'[r].state # "none"
        PROVE r \in DOMAIN refunds \/ Coming(feed', "refund.initiated", r)
    BY <1>0, <1>1, <2>4 DEF RowsComplete, SaysAll
  <2> QED  BY <1>0, <2>1, <2>2, <2>3, <2>4 DEF RowsComplete
<1>3. ValuesComplete'
  <2>1. ASSUME merchant' # None
        PROVE \/ LastOf(feed', Saying(MerchantNames, None, merchant'), Telling(MerchantNames, None))
              \/ /\ Silent(feed', Telling(MerchantNames, None))
                 /\ merchants = [m \in {None} |-> merchant']
    BY <1>0, <1>1, <2>1 DEF ValuesComplete, SaysAll
  <2>2. ASSUME NEW c \in Customers, customer'[c] = "live"
        PROVE \/ LastOf(feed', Saying(CustomerNames, c, name'[c]), Telling(CustomerNames, c))
              \/ Silent(feed', Telling(CustomerNames, c)) /\ customers[c].name = name'[c]
    BY <1>0, <1>1, <2>2 DEF ValuesComplete, SaysAll
  <2>3. ASSUME NEW p \in Payments, status'[p] # "none"
        PROVE \/ LastOf(feed', Saying(PaymentTexts, p, text'[p]), Telling(PaymentTexts, p))
              \/ Silent(feed', Telling(PaymentTexts, p)) /\ payments[p].text = text'[p]
    BY <1>0, <1>1, <2>3 DEF ValuesComplete, SaysAll
  <2>4. ASSUME NEW p \in Payments, status'[p] # "none"
        PROVE \/ LastOf(feed', Showing(p, Shown(status'[p])), Telling(StatusTypes, p))
              \/ Silent(feed', Telling(StatusTypes, p)) /\ payments[p].status = Shown(status'[p])
    BY <1>0, <1>1, <2>4 DEF ValuesComplete, SaysAll
  <2>5. ASSUME NEW r \in Refunds, refund'[r].state # "none"
        PROVE \/ LastOf(feed', Setting(r, refund'[r].state), Telling(RefundStates, r))
              \/ Silent(feed', Telling(RefundStates, r)) /\ refunds[r].status = refund'[r].state
    BY <1>0, <1>1, <2>5 DEF ValuesComplete, SaysAll
  <2> QED  BY <1>0, <2>1, <2>2, <2>3, <2>4, <2>5 DEF ValuesComplete
<1>4. TotalsReady'
  <2>1. /\ \A p \in DOMAIN payments : born'[p] = born[p] /\ method'[p] = method[p]
        /\ \A r \in DOMAIN refunds : born'[r] = born[r] /\ (r \in booked' <=> r \in booked)
    BY DEF Keeps, ReadTypeOK, PartialOn, RowsSound, NeverAhead
  <2> QED  BY <1>0, <2>1 DEF TotalsReady
<1>5. BookingReady'
  <2>1. /\ Len(feed) \in Nat /\ Len(feed') = Len(feed) + 1 /\ feed'[Len(feed) + 1] = e
        /\ \A i \in 1..Len(feed) : feed'[i] = feed[i] /\ feed[i] \in FeedEvents
    BY <1>0, Arrival
  <2>2. \A i \in 1..Len(feed) : Happened(feed[i])
    BY DEF FeedSound
  <2>3. ASSUME NEW j \in 1..Len(feed), feed[j].type = "payment.created"
        PROVE  /\ feed[j].id \in Payments /\ status[feed[j].id] # "none"
               /\ born'[feed[j].id] = born[feed[j].id]
    <3>1. feed[j].id \in Payments
      BY <2>1, <2>3, EventKinds DEF StatusTypes
    <3>2. status[feed[j].id] # "none"
      BY <2>2, <2>3 DEF Happened, StatusTypes, StatusOf, History
    <3> QED  BY <3>1, <3>2 DEF Keeps
  <2>4. ASSUME NEW i \in 1..Len(feed), feed[i].type = "refund.initiated"
        PROVE  feed'[i].id \in booked' <=> DayOpens(feed, i, born[feed[i].id])'
    <3> DEFINE r == feed[i].id
    <3>1. r \in Refunds /\ refund[r].state # "none"
      BY <2>1, <2>2, <2>4, EventKinds DEF Happened, RefundStates
    <3>2. born'[r] = born[r] /\ (r \in booked' <=> r \in booked) /\ feed'[i].id = r
      BY <2>1, <3>1 DEF Keeps
    <3>3. r \in booked <=> DayOpens(feed, i, born[r])
      BY <1>0, <2>4 DEF BookingReady
    <3> HIDE DEF r
    <3>4. \A j \in Int : j < i => (j \in 1..Len(feed) <=> j \in 1..Len(feed'))
      BY <2>1
    <3>5. (\E j \in 1..Len(feed) :
              j < i /\ feed[j].type = "payment.created" /\ born[feed[j].id] = born[r])
            <=> \E j \in 1..Len(feed') :
              j < i /\ feed'[j].type = "payment.created" /\ born'[feed'[j].id] = born[r]
      BY <2>1, <2>3, <3>4
    <3> QED  BY <1>0, <3>2, <3>3, <3>5 DEF DayOpens
  <2>5. ASSUME e.type = "refund.initiated"
        PROVE  \A i \in Int : i = Len(feed) + 1 =>
                  (e.id \in booked' <=> DayOpens(feed, i, born[feed[i].id])')
    <3> SUFFICES ASSUME NEW i \in Int, i = Len(feed) + 1
                 PROVE  e.id \in booked' <=> DayOpens(feed, i, born[feed[i].id])'
      OBVIOUS
    <3> DEFINE d == born'[e.id]
    <3>1. e.id \in booked' <=> \E p \in Payments : status[p] # "none" /\ born[p] = d
      BY <2>5 DEF SaysAll
    <3> HIDE DEF d
    <3>2. ASSUME NEW p \in Payments, status[p] # "none", born[p] = d
          PROVE  \/ d \in DOMAIN daily_revenue
                 \/ \E j \in 1..Len(feed') : /\ j < i /\ feed'[j].type = "payment.created"
                                             /\ born'[feed'[j].id] = d
      <4>1. CASE p \in DOMAIN payments
        BY <1>0, <3>2, <4>1 DEF TotalsReady
      <4>2. CASE Coming(feed, "payment.created", p)
        <5>1. PICK j \in 1..Len(feed) : feed[j].type = "payment.created" /\ feed[j].id = p
          BY <4>2 DEF Coming
        <5>2. j \in 1..Len(feed') /\ j < i
          BY <2>1
        <5> QED  BY <2>1, <2>3, <3>2, <5>1, <5>2
      <4> QED  BY <1>0, <3>2, <4>1, <4>2 DEF RowsComplete
    <3>3. ASSUME d \in DOMAIN daily_revenue
          PROVE  \E p \in Payments : status[p] # "none" /\ born[p] = d
      BY <1>0, <3>3 DEF TotalsReady, RowsSound, ReadTypeOK, PartialOn
    <3>4. ASSUME NEW j \in 1..Len(feed'), j < i, feed'[j].type = "payment.created",
                 born'[feed'[j].id] = d
          PROVE  \E p \in Payments : status[p] # "none" /\ born[p] = d
      <4>1. j \in 1..Len(feed)
        BY <2>1, <3>4
      <4> QED  BY <2>1, <2>3, <3>4, <4>1
    <3>5. feed'[i] = e
      BY <2>1
    <3> QED  BY <1>0, <3>1, <3>2, <3>3, <3>4, <3>5 DEF DayOpens, d
  <2>6. \A i \in 1..Len(feed') : i \in 1..Len(feed) \/ i = Len(feed) + 1
    BY <2>1
  <2>7. ASSUME NEW i \in 1..Len(feed'), feed'[i].type = "refund.initiated"
        PROVE  feed'[i].id \in booked' <=> DayOpens(feed, i, born[feed[i].id])'
    <3>1. CASE i \in 1..Len(feed)
      BY <2>1, <2>4, <2>7, <3>1
    <3>2. CASE i = Len(feed) + 1
      BY <2>1, <2>5, <2>7, <3>2
    <3> QED  BY <2>6, <3>1, <3>2
  <2> QED  BY <2>7 DEF BookingReady
<1> QED  BY <1>2, <1>3, <1>4, <1>5

-----------------------------------------------------------------------------
(* The running totals, as a relation between the read tables.              *)

In(pays, s) == {p \in DOMAIN pays : pays[p].status = s}
OfDay(rows, b, d) == {x \in DOMAIN rows : b[x] = d}
BookedOn(rows, b, d, B) == {x \in DOMAIN rows \cap B : b[x] = d}

DayAddsUp(day, pays, P, refs, R) ==
    /\ day.payment_count = Cardinality(P) /\ P # {}
    /\ day.total_amount = AmountSum(pays, P)
    /\ day.success_count = Cardinality(P \cap In(pays, "captured"))
    /\ day.failed_count = Cardinality(P \cap In(pays, "failed"))
    /\ day.net_revenue = day.total_amount - day.refund_amount
    /\ day.refund_amount = AmountSum(refs, R)

StatsAddUp(stats, pays, P) ==
    /\ stats.count = Cardinality(P)
    /\ stats.total_amount = AmountSum(pays, P)
    /\ stats.success_count = Cardinality(P \cap In(pays, "captured"))

Bought(pays, c) == {p \in DOMAIN pays : pays[p].customer = c}
Returned(refs, P) == {r \in DOMAIN refs : refs[r].payment \in P}

BuyerAddsUp(buyer, pays, P, refs) ==
    /\ buyer.total_payments = Cardinality(P)
    /\ buyer.total_spent = AmountSum(pays, P \cap In(pays, "captured"))
                              - AmountSum(refs, Returned(refs, P \cap In(pays, "captured")))

AddUp(days, stats, buyers, pays, refs, b, m, B) ==
    /\ \A d \in DOMAIN days :
           DayAddsUp(days[d], pays, OfDay(pays, b, d), refs, BookedOn(refs, b, d, B))
    /\ \A k \in DOMAIN stats : StatsAddUp(stats[k], pays, OfDay(pays, m, k))
    /\ \A c \in DOMAIN buyers : BuyerAddsUp(buyers[c], pays, Bought(pays, c), refs)

TotalsNow ==
    AddUp(daily_revenue, payment_method_stats, customers, payments, refunds, born, method, booked)

LEMMA TotalsAddUp ==
  AggregatesAddUp <=>
    (dropped = 0 => AddUp(daily_revenue, payment_method_stats, customers, payments, refunds,
                          born, method, booked))
<1>1. /\ \A S : Total(S) = AmountSum(payments, S)
      /\ \A S : RefundTotal(S) = AmountSum(refunds, S)
  BY DEF Total, RefundTotal, AmountSum
<1>2. /\ \A s : With(s) = In(payments, s)
      /\ \A c : PaymentsOf(c) = Bought(payments, c)
      /\ \A P : {r \in DOMAIN refunds : refunds[r].payment \in P} = Returned(refunds, P)
      /\ \A b, d : {p \in DOMAIN payments : b[p] = d} = OfDay(payments, b, d)
      /\ \A b, d : {r \in DOMAIN refunds \cap booked : b[r] = d} = BookedOn(refunds, b, d, booked)
  BY DEF With, In, PaymentsOf, Bought, Returned, OfDay, BookedOn
<1>3. \A d \in DOMAIN daily_revenue :
        DayAddsUp(daily_revenue[d], payments, OfDay(payments, born, d), refunds,
                  BookedOn(refunds, born, d, booked))
          <=> LET ofDay == {p \in DOMAIN payments : born[p] = d}
                  day == daily_revenue[d]
              IN  /\ day.payment_count = Cardinality(ofDay) /\ ofDay # {}
                  /\ day.total_amount = Total(ofDay)
                  /\ day.success_count = Cardinality(ofDay \cap With("captured"))
                  /\ day.failed_count = Cardinality(ofDay \cap With("failed"))
                  /\ day.net_revenue = day.total_amount - day.refund_amount
                  /\ day.refund_amount = RefundTotal({r \in DOMAIN refunds \cap booked : born[r] = d})
  BY <1>1, <1>2 DEF DayAddsUp
<1>4. \A m \in DOMAIN payment_method_stats :
        StatsAddUp(payment_method_stats[m], payments, OfDay(payments, method, m))
          <=> LET by == {p \in DOMAIN payments : method[p] = m}
                  stats == payment_method_stats[m]
              IN  /\ stats.count = Cardinality(by)
                  /\ stats.total_amount = Total(by)
                  /\ stats.success_count = Cardinality(by \cap With("captured"))
  BY <1>1, <1>2 DEF StatsAddUp
<1>5. \A c \in DOMAIN customers :
        BuyerAddsUp(customers[c], payments, Bought(payments, c), refunds)
          <=> LET captured == PaymentsOf(c) \cap With("captured") IN
              /\ customers[c].total_payments = Cardinality(PaymentsOf(c))
              /\ customers[c].total_spent =
                     Total(captured)
                       - RefundTotal({r \in DOMAIN refunds : refunds[r].payment \in captured})
  BY <1>1, <1>2 DEF BuyerAddsUp
<1> QED  BY <1>3, <1>4, <1>5 DEF AggregatesAddUp, AddUp

\* The same of the next state.
LEMMA TotalsAddUpNext ==
  AggregatesAddUp' <=>
    (dropped' = 0 => AddUp(daily_revenue', payment_method_stats', customers', payments', refunds',
                           born', method', booked'))
<1>1. (AggregatesAddUp <=>
        (dropped = 0 => AddUp(daily_revenue, payment_method_stats, customers, payments, refunds,
                              born, method, booked)))'
  BY TotalsAddUp, PTL
<1> QED  BY <1>1

\* Requests leave the totals alone, and the days and methods of the rows.
LEMMA RequestsKeepTotals ==
  ASSUME ReadInv, AggregatesAddUp, Keeps, UNCHANGED <<readTables, dropped>>
  PROVE  AggregatesAddUp'
<1> USE DEF ReadInv
<1>0. /\ customers' = customers /\ payments' = payments /\ refunds' = refunds
      /\ daily_revenue' = daily_revenue /\ payment_method_stats' = payment_method_stats
      /\ dropped' = dropped
  BY DEF readTables
<1>1. /\ \A p \in DOMAIN payments : born'[p] = born[p] /\ method'[p] = method[p]
      /\ \A r \in DOMAIN refunds : born'[r] = born[r] /\ (r \in booked' <=> r \in booked)
  BY DEF Keeps, ReadTypeOK, PartialOn, RowsSound, NeverAhead
<1>2. /\ \A d : {p \in DOMAIN payments : born'[p] = d} = {p \in DOMAIN payments : born[p] = d}
      /\ \A d : {r \in DOMAIN refunds \cap booked' : born'[r] = d}
                  = {r \in DOMAIN refunds \cap booked : born[r] = d}
      /\ \A m : {p \in DOMAIN payments : method'[p] = m} = {p \in DOMAIN payments : method[p] = m}
  BY <1>1
<1>4. AddUp(daily_revenue, payment_method_stats, customers, payments, refunds, born, method, booked)
        => AddUp(daily_revenue, payment_method_stats, customers, payments, refunds,
                 born', method', booked')
  BY <1>2 DEF AddUp, OfDay, BookedOn
<1> QED  BY <1>0, <1>4, TotalsAddUp, TotalsAddUpNext

-----------------------------------------------------------------------------
(* The requests, one by one.                                               *)

Advances(e) == WriteSound' /\ Keeps /\ Sends(e) /\ IsNews(e) /\ SaysAll(e)

LEMMA CreateMerchantAdvances ==
  ASSUME ReadInv, NEW n \in Names, CreateMerchant(n), NEW e, Sends(e),
         e.type = "merchant.created", e.id = None, e.value = n
  PROVE  Advances(e)
<1> USE ReadIdsAssumption DEF ReadInv, lifecycle, columns
<1>1. /\ merchant = None /\ merchant' = n /\ n # None /\ e \in FeedEvents
      /\ UNCHANGED <<customer, status, owner, amount, refund, name, method, born, today, booked, text>>
  BY DEF CreateMerchant, Sends
<1>2. WriteSound' /\ Keeps
  BY <1>1 DEF WriteSound, Keeps
<1>3. IsNews(e)
  <2>1. Happened(e)'  BY <1>1 DEF Happened, StatusTypes
  <2>2. CanCome(e)'
    BY <1>1 DEF CanCome, StatusTypes, Sends, readTables, RowsSound
  <2>3. \A f \in FeedEvents : Happened(f) => ~TooLate(f, e)'
    <3> SUFFICES ASSUME NEW f \in FeedEvents, Happened(f), TooLate(f, e)'  PROVE FALSE
      OBVIOUS
    <3>1. f.id = None
      BY DEF TooLate, StatusTypes
    <3>2. f.type \in MerchantNames
      BY <3>1, EventKinds
    <3> QED  BY <1>1, <3>2 DEF Happened, MerchantNames
  <2> QED  BY <2>1, <2>2, <2>3 DEF IsNews
<1>4. SaysAll(e)
  BY <1>1 DEF SaysAll, Saying, Telling, Showing, Setting, MerchantNames, CustomerNames,
      PaymentTexts, StatusTypes, RefundStates, WriteSound
<1> QED  BY <1>2, <1>3, <1>4 DEF Advances

LEMMA UpdateMerchantAdvances ==
  ASSUME ReadInv, NEW n \in Names, UpdateMerchant(n), NEW e, Sends(e),
         e.type = "merchant.updated", e.id = None, e.value = n
  PROVE  Advances(e)
<1> USE ReadIdsAssumption DEF ReadInv, lifecycle, columns
<1>1. /\ merchant # None /\ merchant' = n /\ n # None /\ e \in FeedEvents
      /\ UNCHANGED <<customer, status, owner, amount, refund, name, method, born, today, booked, text>>
  BY DEF UpdateMerchant, Sends
<1>2. WriteSound' /\ Keeps
  BY <1>1 DEF WriteSound, Keeps
<1>3. IsNews(e)
  BY <1>1 DEF IsNews, Happened, CanCome, TooLate, StatusTypes, Creations
<1>4. SaysAll(e)
  BY <1>1 DEF SaysAll, Saying, Telling, Showing, Setting, MerchantNames, CustomerNames,
      PaymentTexts, StatusTypes, RefundStates, WriteSound
<1> QED  BY <1>2, <1>3, <1>4 DEF Advances

LEMMA CreateCustomerAdvances ==
  ASSUME ReadInv, NEW c \in Customers, NEW n \in Names, CreateCustomer(c, n),
         NEW e, Sends(e), e.type = "customer.created", e.id = c, e.value = n
  PROVE  Advances(e)
<1> USE ReadIdsAssumption DEF ReadInv, profile
<1>1. /\ merchant # None /\ customer[c] = "absent" /\ e \in FeedEvents
      /\ customer' = [customer EXCEPT ![c] = "live"] /\ name' = [name EXCEPT ![c] = n]
      /\ UNCHANGED <<status, owner, amount, refund, method, born, today, booked, merchant, text>>
  BY DEF CreateCustomer, Sends, Write!AddCustomer
<1>2. WriteSound' /\ Keeps
  BY <1>1 DEF WriteSound, Keeps
<1>3. IsNews(e)
  <2>1. Happened(e)'  BY <1>1 DEF Happened, StatusTypes, WriteSound
  <2>2. CanCome(e)'
    BY <1>1 DEF CanCome, StatusTypes, Sends, readTables, RowsSound, WriteSound, ReadTypeOK,
        PartialOn
  <2>3. \A f \in FeedEvents : Happened(f) => ~TooLate(f, e)'
    <3> SUFFICES ASSUME NEW f \in FeedEvents, Happened(f), TooLate(f, e)'  PROVE FALSE
      OBVIOUS
    <3>1. CASE f.id = c
      <4>1. f.type \in CustomerNames \cup {"customer.deleted"}
        BY <3>1, EventKinds
      <4> QED  BY <1>1, <3>1, <4>1 DEF Happened, CustomerNames
    <3>2. CASE f.type = "payment.created" /\ owner[f.id] = c
      <4>1. f.id \in Payments /\ status[f.id] # "none"
        BY <3>2, EventKinds DEF Happened, StatusTypes, StatusOf, History
      <4> QED  BY <1>1, <3>2, <4>1 DEF WriteSound
    <3> QED  BY <1>1, <3>1, <3>2 DEF TooLate, StatusTypes
  <2> QED  BY <2>1, <2>2, <2>3 DEF IsNews
<1>4. SaysAll(e)
  BY <1>1 DEF SaysAll, Saying, Telling, Showing, Setting, MerchantNames, CustomerNames,
      PaymentTexts, StatusTypes, RefundStates, WriteSound
<1> QED  BY <1>2, <1>3, <1>4 DEF Advances

LEMMA UpdateCustomerAdvances ==
  ASSUME ReadInv, NEW c \in Customers, NEW n \in Names, UpdateCustomer(c, n),
         NEW e, Sends(e), e.type = "customer.updated", e.id = c, e.value = n
  PROVE  Advances(e)
<1> USE ReadIdsAssumption DEF ReadInv, profile, lifecycle
<1>1. /\ customer[c] = "live" /\ e \in FeedEvents /\ name' = [name EXCEPT ![c] = n]
      /\ UNCHANGED <<customer, status, owner, amount, refund, method, born, today, booked, merchant, text>>
  BY DEF UpdateCustomer, Sends
<1>2. WriteSound' /\ Keeps
  BY <1>1 DEF WriteSound, Keeps
<1>3. IsNews(e)
  BY <1>1 DEF IsNews, Happened, CanCome, TooLate, StatusTypes, Creations
<1>4. SaysAll(e)
  BY <1>1 DEF SaysAll, Saying, Telling, Showing, Setting, MerchantNames, CustomerNames,
      PaymentTexts, StatusTypes, RefundStates, WriteSound
<1> QED  BY <1>2, <1>3, <1>4 DEF Advances

LEMMA DeleteCustomerAdvances ==
  ASSUME ReadInv, NEW c \in Customers, DeleteCustomer(c),
         NEW e, Sends(e), e.type = "customer.deleted", e.id = c
  PROVE  Advances(e)
<1> USE ReadIdsAssumption DEF ReadInv, profile, columns
<1>1. /\ customer[c] = "live" /\ e \in FeedEvents /\ \A p \in Payments : owner[p] # c
      /\ customer' = [customer EXCEPT ![c] = "deleted"]
      /\ UNCHANGED <<status, owner, amount, refund, name, method, born, today, booked, merchant, text>>
  BY DEF DeleteCustomer, Sends, Write!RemoveCustomer
<1>2. WriteSound' /\ Keeps
  BY <1>1 DEF WriteSound, Keeps
<1>3. IsNews(e)
  BY <1>1 DEF IsNews, Happened, CanCome, TooLate, StatusTypes, Creations, WriteSound
<1>4. SaysAll(e)
  BY <1>1 DEF SaysAll, Saying, Telling, Showing, Setting, MerchantNames, CustomerNames,
      PaymentTexts, StatusTypes, RefundStates, WriteSound
<1> QED  BY <1>2, <1>3, <1>4 DEF Advances

LEMMA CreatePaymentAdvances ==
  ASSUME ReadInv, NEW p \in Payments, NEW c \in Customers, NEW a \in Prices, NEW m \in Methods,
         NEW x \in Texts, CreatePayment(p, c, a, m, x),
         NEW e, Sends(e), e.type = "payment.created", e.id = p, e.value = x
  PROVE  Advances(e)
<1> USE ReadIdsAssumption, ReadAmountsAssumption DEF ReadInv
<1>1. /\ status[p] = "none" /\ customer[c] = "live" /\ a \in Amounts /\ e \in FeedEvents
      /\ status' = [status EXCEPT ![p] = "created"] /\ owner' = [owner EXCEPT ![p] = c]
      /\ amount' = [amount EXCEPT ![p] = a] /\ method' = [method EXCEPT ![p] = m]
      /\ born' = [born EXCEPT ![p] = today] /\ text' = [text EXCEPT ![p] = x]
      /\ UNCHANGED <<customer, refund, name, today, booked, merchant>>
  BY DEF CreatePayment, Sends, Write!OpenPayment
<1>2. WriteSound' /\ Keeps
  <2>1. \A q \in Payments : q # p =>
           status'[q] = status[q] /\ owner'[q] = owner[q] /\ amount'[q] = amount[q]
           /\ method'[q] = method[q] /\ born'[q] = born[q] /\ text'[q] = text[q]
    BY <1>1 DEF WriteSound
  <2>2. \A r \in Refunds : born'[r] = born[r]
    BY <1>1 DEF WriteSound
  <2>3. /\ status'[p] = "created" /\ owner'[p] = c /\ amount'[p] = a /\ method'[p] = m
        /\ born'[p] = today /\ text'[p] = x
    BY <1>1 DEF WriteSound
  <2>4. /\ status' \in [Payments -> {"none", "created", "authorized", "captured", "failed", "settled"}]
        /\ owner' \in [Payments -> Customers \cup {None}]
        /\ amount' \in [Payments -> Amounts \cup {0}]
        /\ method' \in [Payments -> Methods \cup {None}]
        /\ text' \in [Payments -> Texts \cup {None}]
    BY <1>1 DEF WriteSound
  <2>5. born' \in [Payments \cup Refunds -> 0..MaxDay] /\ today \in 1..MaxDay
    BY <1>1, ReadBoundsAssumption DEF WriteSound
  <2>6. WriteSound'
    BY <1>1, <2>1, <2>2, <2>3, <2>4, <2>5 DEF WriteSound
  <2>7. Keeps
    BY <1>1, <2>1, <2>2 DEF Keeps
  <2> QED  BY <2>6, <2>7
<1>3. IsNews(e)
  <2>1. Happened(e)'  BY <1>1 DEF Happened, StatusTypes, StatusOf, History, WriteSound
  <2>2. CanCome(e)'
    BY <1>1 DEF CanCome, StatusTypes, Sends, readTables, RowsSound, WriteSound, NeverAhead,
        ReadTypeOK, PartialOn
  <2>3. \A f \in FeedEvents : Happened(f) => ~TooLate(f, e)'
    <3> SUFFICES ASSUME NEW f \in FeedEvents, Happened(f), TooLate(f, e)'  PROVE FALSE
      OBVIOUS
    <3>1. CASE f.id = p
      <4>1. f.type \in PaymentTexts \cup StatusTypes \cup {"payment.settled"}
        BY <3>1, EventKinds
      <4>2. status[p] # "none"
        BY <3>1, <4>1 DEF Happened, PaymentTexts, StatusTypes, StatusOf, History
      <4> QED  BY <1>1, <4>2
    <3>2. CASE f.type = "refund.initiated" /\ refund[f.id].payment = p
      <4>1. f.id \in Refunds /\ refund[f.id].state # "none"
        BY <3>2, EventKinds DEF Happened, RefundStates
      <4> QED  BY <1>1, <3>2, <4>1 DEF WriteSound
    <3> QED  BY <1>1, <3>1, <3>2 DEF TooLate
  <2> QED  BY <2>1, <2>2, <2>3 DEF IsNews
<1>4. SaysAll(e)
  BY <1>1 DEF SaysAll, Saying, Telling, Showing, Setting, MerchantNames, CustomerNames,
      PaymentTexts, StatusTypes, StatusOf, Shown, RefundStates, WriteSound
<1> QED  BY <1>2, <1>3, <1>4 DEF Advances

LEMMA UpdatePaymentAdvances ==
  ASSUME ReadInv, NEW p \in Payments, NEW x \in Texts, UpdatePayment(p, x),
         NEW e, Sends(e), e.type = "payment.updated", e.id = p, e.value = x
  PROVE  Advances(e)
<1> USE ReadIdsAssumption DEF ReadInv, columns, lifecycle
<1>1. /\ status[p] # "none" /\ e \in FeedEvents /\ text' = [text EXCEPT ![p] = x]
      /\ UNCHANGED <<customer, status, owner, amount, refund, name, method, born, today, booked, merchant>>
  BY DEF UpdatePayment, Sends
<1>2. WriteSound' /\ Keeps
  BY <1>1 DEF WriteSound, Keeps
<1>3. IsNews(e)
  BY <1>1 DEF IsNews, Happened, CanCome, TooLate, StatusTypes, Creations
<1>4. SaysAll(e)
  BY <1>1 DEF SaysAll, Saying, Telling, Showing, Setting, MerchantNames, CustomerNames,
      PaymentTexts, StatusTypes, RefundStates, WriteSound
<1> QED  BY <1>2, <1>3, <1>4 DEF Advances

LEMMA TransitionPaymentAdvances ==
  ASSUME ReadInv, NEW p \in Payments, NEW t \in Transitions,
         TransitionPayment(p, t[1], t[2]), NEW e, Sends(e), e.type = t[2], e.id = p
  PROVE  Advances(e)
<1> USE ReadIdsAssumption DEF ReadInv, columns, profile
<1>1. /\ <<status[p], t[1]>> \in Write!Moves /\ e \in FeedEvents
      /\ status' = [status EXCEPT ![p] = t[1]]
      /\ UNCHANGED <<customer, owner, amount, refund, name, method, born, today, booked, merchant, text>>
  BY DEF TransitionPayment, Sends, Write!MovePayment
<1>2. \/ status[p] = "created" /\ t[1] = "authorized" /\ e.type = "payment.authorized"
      \/ status[p] = "created" /\ t[1] = "failed" /\ e.type = "payment.failed"
      \/ status[p] = "authorized" /\ t[1] = "captured" /\ e.type = "payment.captured"
      \/ status[p] = "captured" /\ t[1] = "settled" /\ e.type = "payment.settled"
  BY <1>1 DEF Write!Moves, Transitions
<1>3. /\ status'[p] = t[1] /\ \A q \in Payments : q # p => status'[q] = status[q]
      /\ status' \in [Payments -> {"none", "created", "authorized", "captured", "failed", "settled"}]
  BY <1>1, <1>2 DEF WriteSound
<1>4. WriteSound' /\ Keeps
  <2>1. WriteSound'  BY <1>1, <1>2, <1>3 DEF WriteSound
  <2>2. Keeps  BY <1>1, <1>2, <1>3 DEF Keeps, History
  <2> QED  BY <2>1, <2>2
<1>5. IsNews(e)
  <2>1. Happened(e)'
    BY <1>1, <1>2, <1>3 DEF Happened, StatusTypes, StatusOf, History
  <2>2. CanCome(e)'
    <3>1. e.type = "payment.captured" => \A r \in DOMAIN refunds : refund[r].payment # p
      BY <1>2 DEF WriteSound, NeverAhead, ReadTypeOK, PartialOn
    <3>2. ASSUME e.type \in StatusTypes, p \in DOMAIN payments
          PROVE StatusOf(e.type) \notin History(payments[p].status)
      <4>1. payments[p].status \in History(status[p])
        BY <3>2 DEF NeverAhead
      <4> QED  BY <1>2, <3>2, <4>1 DEF StatusTypes, StatusOf, History
    <3>3. e.type \notin Creations
      BY <1>2 DEF Creations
    <3> QED
      BY <1>1, <1>2, <3>1, <3>2, <3>3 DEF CanCome, Sends, readTables, Creations
  <2>3. \A f \in FeedEvents : Happened(f) => ~TooLate(f, e)'
    <3> SUFFICES ASSUME NEW f \in FeedEvents, Happened(f), TooLate(f, e)'  PROVE FALSE
      OBVIOUS
    <3>1. \/ /\ e.type = "payment.captured" /\ f.type = "refund.initiated"
             /\ refund[f.id].payment = p
          \/ /\ e.type \in StatusTypes /\ f.type \in StatusTypes /\ f.id = p
             /\ StatusOf(e.type) \in History(StatusOf(f.type))
      BY <1>1, <1>2 DEF TooLate, Creations
    <3>2. CASE /\ e.type = "payment.captured" /\ f.type = "refund.initiated"
               /\ refund[f.id].payment = p
      <4>1. f.id \in Refunds /\ refund[f.id].state # "none"
        BY <3>2, EventKinds DEF Happened, RefundStates
      <4> QED  BY <1>2, <3>2, <4>1 DEF WriteSound
    <3>3. CASE /\ e.type \in StatusTypes /\ f.type \in StatusTypes /\ f.id = p
               /\ StatusOf(e.type) \in History(StatusOf(f.type))
      <4>1. StatusOf(f.type) \in History(status[p])
        BY <3>3 DEF Happened
      <4> QED  BY <1>2, <3>3, <4>1 DEF StatusTypes, StatusOf, History
    <3> QED  BY <3>1, <3>2, <3>3
  <2> QED  BY <2>1, <2>2, <2>3 DEF IsNews
<1>6. SaysAll(e)
  <2>1. e \in Showing(p, Shown(status'[p])) \/
          (Shown(status'[p]) = Shown(status[p]) /\ e \notin Telling(StatusTypes, p))
    BY <1>1, <1>2, <1>3 DEF Showing, Telling, StatusTypes, StatusOf, Shown
  <2>2. \A q \in Payments : q # p => e \notin Telling(StatusTypes, q)
    BY DEF Telling
  <2>3. /\ e.type \notin Creations /\ e.type \notin {"customer.deleted", "refund.initiated"}
        /\ \A x : /\ e \notin Telling(MerchantNames, x) /\ e \notin Telling(CustomerNames, x)
                  /\ e \notin Telling(PaymentTexts, x) /\ e \notin Telling(RefundStates, x)
    BY <1>2 DEF Telling, MerchantNames, CustomerNames, PaymentTexts, RefundStates, Creations
  <2>4. status[p] # "none"
    BY <1>2
  <2> QED
    BY <1>1, <1>3, <2>1, <2>2, <2>3, <2>4 DEF SaysAll, WriteSound
<1> QED  BY <1>4, <1>5, <1>6 DEF Advances

LEMMA CreateRefundAdvances ==
  ASSUME ReadInv, NEW r \in Refunds, NEW p \in Payments, NEW a \in Amounts,
         CreateRefund(r, p, a), NEW e, Sends(e), e.type = "refund.initiated", e.id = r
  PROVE  Advances(e)
<1> USE ReadIdsAssumption DEF ReadInv, profile
<1>1. /\ refund[r].state = "none" /\ status[p] \in {"captured", "settled"} /\ e \in FeedEvents
      /\ refund' = [refund EXCEPT ![r] = [state |-> "initiated", payment |-> p, amount |-> a]]
      /\ born' = [born EXCEPT ![r] = today]
      /\ booked' = IF \E q \in Payments : status[q] # "none" /\ born[q] = today
                   THEN booked \cup {r} ELSE booked
      /\ UNCHANGED <<customer, status, owner, amount, name, method, today, merchant, text>>
  BY DEF CreateRefund, Sends, Write!IssueRefund
<1>2. /\ refund'[r] = [state |-> "initiated", payment |-> p, amount |-> a] /\ born'[r] = today
      /\ \A q \in Refunds : q # r => refund'[q] = refund[q] /\ born'[q] = born[q]
      /\ \A q \in Payments : born'[q] = born[q]
      /\ today \in 1..MaxDay /\ born' \in [Payments \cup Refunds -> 0..MaxDay]
      /\ r \notin booked /\ booked' \subseteq booked \cup {r} /\ booked \subseteq booked'
      /\ r \in booked' <=> \E q \in Payments : status[q] # "none" /\ born[q] = born'[r]
  <2>1. /\ refund'[r] = [state |-> "initiated", payment |-> p, amount |-> a] /\ born'[r] = today
        /\ \A q \in Refunds : q # r => refund'[q] = refund[q] /\ born'[q] = born[q]
        /\ \A q \in Payments : born'[q] = born[q]
        /\ today \in 1..MaxDay /\ born' \in [Payments \cup Refunds -> 0..MaxDay]
    BY <1>1, ReadBoundsAssumption DEF WriteSound
  <2>2. r \notin booked
    BY <1>1 DEF WriteSound
  <2>3. /\ booked' \subseteq booked \cup {r} /\ booked \subseteq booked'
        /\ r \in booked' <=> \E q \in Payments : status[q] # "none" /\ born[q] = today
    BY <1>1, <2>2
  <2> QED  BY <2>1, <2>2, <2>3
<1>3. WriteSound' /\ Keeps
  <2>1. WriteSound'
    <3>1. booked' \subseteq Refunds /\ \A q \in booked' : refund'[q].state # "none"
      BY <1>2 DEF WriteSound
    <3> QED  BY <1>1, <1>2, <3>1 DEF WriteSound
  <2>2. Keeps  BY <1>1, <1>2 DEF Keeps
  <2> QED  BY <2>1, <2>2
<1>4. IsNews(e)
  <2>1. Happened(e)'  BY <1>1, <1>2 DEF Happened, StatusTypes
  <2>2. CanCome(e)'
    BY <1>1 DEF CanCome, StatusTypes, Sends, readTables, NeverAhead
  <2>3. \A f \in FeedEvents : Happened(f) => ~TooLate(f, e)'
    <3> SUFFICES ASSUME NEW f \in FeedEvents, Happened(f), TooLate(f, e)'  PROVE FALSE
      OBVIOUS
    <3>1. f.id = r
      BY DEF TooLate, StatusTypes
    <3>2. f.type \in RefundStates
      BY <3>1, EventKinds
    <3> QED  BY <1>1, <3>1, <3>2 DEF Happened, RefundStates
  <2> QED  BY <2>1, <2>2, <2>3 DEF IsNews
<1>5. SaysAll(e)
  <2>1. /\ \A x : /\ e \notin Telling(MerchantNames, x) /\ e \notin Telling(CustomerNames, x)
                  /\ e \notin Telling(PaymentTexts, x) /\ e \notin Telling(StatusTypes, x)
        /\ e \in Setting(r, "initiated") /\ \A x : x # r => e \notin Telling(RefundStates, x)
    BY <1>1 DEF Telling, Setting, MerchantNames, CustomerNames, PaymentTexts, StatusTypes,
        RefundStates, StateOf
  <2> QED  BY <1>1, <1>2, <2>1 DEF SaysAll, WriteSound
<1> QED  BY <1>3, <1>4, <1>5 DEF Advances

LEMMA ProcessRefundAdvances ==
  ASSUME ReadInv, NEW r \in Refunds, ProcessRefund(r),
         NEW e, Sends(e), e.type = "refund.processed", e.id = r
  PROVE  Advances(e)
<1> USE ReadIdsAssumption DEF ReadInv, profile, columns
<1>1. /\ refund[r].state = "initiated" /\ e \in FeedEvents
      /\ refund' = [refund EXCEPT ![r] = [state |-> "processed", payment |-> refund[r].payment,
                                          amount |-> refund[r].amount]]
      /\ UNCHANGED <<customer, status, owner, amount, name, method, born, today, booked, merchant, text>>
  BY DEF ProcessRefund, Sends, Write!ProcessRefund
<1>2. /\ refund'[r] = [state |-> "processed", payment |-> refund[r].payment,
                       amount |-> refund[r].amount]
      /\ \A q \in Refunds : q # r => refund'[q] = refund[q]
  BY <1>1 DEF WriteSound
<1>3. WriteSound' /\ Keeps
  <2>1. WriteSound'  BY <1>1, <1>2 DEF WriteSound
  <2>2. Keeps  BY <1>1, <1>2 DEF Keeps
  <2> QED  BY <2>1, <2>2
<1>4. IsNews(e)
  BY <1>1, <1>2 DEF IsNews, Happened, CanCome, TooLate, StatusTypes, Creations
<1>5. SaysAll(e)
  BY <1>1, <1>2 DEF SaysAll, Saying, Telling, Showing, Setting, MerchantNames, CustomerNames,
      PaymentTexts, StatusTypes, StateOf, RefundStates, WriteSound
<1> QED  BY <1>3, <1>4, <1>5 DEF Advances

\* A published event, as a record of the feed.
LEMMA PublishSends ==
  ASSUME NEW t, NEW x, NEW v, Publish(t, x, v),
         [type |-> t, id |-> x, value |-> v] \in FeedEvents
  PROVE  \E e : Sends(e) /\ e.type = t /\ e.id = x /\ e.value = v
<1>1. Sends([type |-> t, id |-> x, value |-> v])
  BY DEF Publish, Sends
<1> QED  BY <1>1

\* Each request sends one event, which says what the request did.
LEMMA RequestsAdvance ==
  ASSUME ReadInv, WriteNext
  PROVE  \E e : Advances(e)
<1>1. ASSUME NEW n \in Names, CreateMerchant(n)
      PROVE  \E e : Advances(e)
  <2>1. Publish("merchant.created", None, n)
    BY <1>1 DEF CreateMerchant, Once
  <2>2. [type |-> "merchant.created", id |-> None, value |-> n] \in FeedEvents
    BY DEF FeedEvents
  <2>3. PICK e : Sends(e) /\ e.type = "merchant.created" /\ e.id = None /\ e.value = n
    BY <2>1, <2>2, PublishSends
  <2> QED  BY <1>1, <2>3, CreateMerchantAdvances
<1>2. ASSUME NEW n \in Names, UpdateMerchant(n)
      PROVE  \E e : Advances(e)
  <2>1. Publish("merchant.updated", None, n)
    BY <1>2 DEF UpdateMerchant, Edit
  <2>2. [type |-> "merchant.updated", id |-> None, value |-> n] \in FeedEvents
    BY DEF FeedEvents
  <2>3. PICK e : Sends(e) /\ e.type = "merchant.updated" /\ e.id = None /\ e.value = n
    BY <2>1, <2>2, PublishSends
  <2> QED  BY <1>2, <2>3, UpdateMerchantAdvances
<1>3. ASSUME NEW c \in Customers, NEW n \in Names, CreateCustomer(c, n)
      PROVE  \E e : Advances(e)
  <2>1. Publish("customer.created", c, n)
    BY <1>3 DEF CreateCustomer, Once
  <2>2. [type |-> "customer.created", id |-> c, value |-> n] \in FeedEvents
    BY DEF FeedEvents
  <2>3. PICK e : Sends(e) /\ e.type = "customer.created" /\ e.id = c /\ e.value = n
    BY <2>1, <2>2, PublishSends
  <2> QED  BY <1>3, <2>3, CreateCustomerAdvances
<1>4. ASSUME NEW c \in Customers, NEW n \in Names, UpdateCustomer(c, n)
      PROVE  \E e : Advances(e)
  <2>1. Publish("customer.updated", c, n)
    BY <1>4 DEF UpdateCustomer, Edit
  <2>2. [type |-> "customer.updated", id |-> c, value |-> n] \in FeedEvents
    BY DEF FeedEvents
  <2>3. PICK e : Sends(e) /\ e.type = "customer.updated" /\ e.id = c /\ e.value = n
    BY <2>1, <2>2, PublishSends
  <2> QED  BY <1>4, <2>3, UpdateCustomerAdvances
<1>5. ASSUME NEW c \in Customers, DeleteCustomer(c)
      PROVE  \E e : Advances(e)
  <2>1. Publish("customer.deleted", c, None)
    BY <1>5 DEF DeleteCustomer, Once
  <2>2. [type |-> "customer.deleted", id |-> c, value |-> None] \in FeedEvents
    BY DEF FeedEvents
  <2>3. PICK e : Sends(e) /\ e.type = "customer.deleted" /\ e.id = c /\ e.value = None
    BY <2>1, <2>2, PublishSends
  <2> QED  BY <1>5, <2>3, DeleteCustomerAdvances
<1>6. ASSUME NEW p \in Payments, NEW c \in Customers, NEW a \in Prices,
             NEW m \in Methods, NEW x \in Texts, CreatePayment(p, c, a, m, x)
      PROVE  \E e : Advances(e)
  <2>1. Publish("payment.created", p, x)
    BY <1>6 DEF CreatePayment, Once
  <2>2. [type |-> "payment.created", id |-> p, value |-> x] \in FeedEvents
    BY DEF FeedEvents
  <2>3. PICK e : Sends(e) /\ e.type = "payment.created" /\ e.id = p /\ e.value = x
    BY <2>1, <2>2, PublishSends
  <2> QED  BY <1>6, <2>3, CreatePaymentAdvances
<1>7. ASSUME NEW p \in Payments, NEW x \in Texts, UpdatePayment(p, x)
      PROVE  \E e : Advances(e)
  <2>1. Publish("payment.updated", p, x)
    BY <1>7 DEF UpdatePayment, Edit
  <2>2. [type |-> "payment.updated", id |-> p, value |-> x] \in FeedEvents
    BY DEF FeedEvents
  <2>3. PICK e : Sends(e) /\ e.type = "payment.updated" /\ e.id = p /\ e.value = x
    BY <2>1, <2>2, PublishSends
  <2> QED  BY <1>7, <2>3, UpdatePaymentAdvances
<1>8. ASSUME NEW p \in Payments, NEW t \in Transitions, TransitionPayment(p, t[1], t[2])
      PROVE  \E e : Advances(e)
  <2>1. Publish(t[2], p, None)
    BY <1>8 DEF TransitionPayment, Once
  <2>2. [type |-> t[2], id |-> p, value |-> None] \in FeedEvents
    BY DEF FeedEvents, Transitions
  <2>3. PICK e : Sends(e) /\ e.type = t[2] /\ e.id = p /\ e.value = None
    BY <2>1, <2>2, PublishSends
  <2> QED  BY <1>8, <2>3, TransitionPaymentAdvances
<1>9. ASSUME NEW r \in Refunds, NEW p \in Payments, NEW a \in Amounts, CreateRefund(r, p, a)
      PROVE  \E e : Advances(e)
  <2>1. Publish("refund.initiated", r, None)
    BY <1>9 DEF CreateRefund, Once
  <2>2. [type |-> "refund.initiated", id |-> r, value |-> None] \in FeedEvents
    BY DEF FeedEvents
  <2>3. PICK e : Sends(e) /\ e.type = "refund.initiated" /\ e.id = r /\ e.value = None
    BY <2>1, <2>2, PublishSends
  <2> QED  BY <1>9, <2>3, CreateRefundAdvances
<1>10. ASSUME NEW r \in Refunds, ProcessRefund(r)
      PROVE  \E e : Advances(e)
  <2>1. Publish("refund.processed", r, None)
    BY <1>10 DEF ProcessRefund, Once
  <2>2. [type |-> "refund.processed", id |-> r, value |-> None] \in FeedEvents
    BY DEF FeedEvents
  <2>3. PICK e : Sends(e) /\ e.type = "refund.processed" /\ e.id = r /\ e.value = None
    BY <2>1, <2>2, PublishSends
  <2> QED  BY <1>10, <2>3, ProcessRefundAdvances
<1> QED
  BY <1>1, <1>2, <1>3, <1>4, <1>5, <1>6, <1>7, <1>8, <1>9, <1>10 DEF WriteNext

-----------------------------------------------------------------------------
(* The consumer: an event leaves the feed, applied or dropped.             *)

\* The first event may be applied, and none of the others comes too late after it.
LEMMA HeadIsNext ==
  ASSUME ReadInv, feed # <<>>
  PROVE  /\ Head(feed) \in FeedEvents /\ Happened(Head(feed)) /\ CanCome(Head(feed))
         /\ \A i \in 1..Len(Tail(feed)) :
                /\ Tail(feed)[i] \in FeedEvents /\ Happened(Tail(feed)[i])
                /\ CanCome(Tail(feed)[i]) /\ ~TooLate(Head(feed), Tail(feed)[i])
         /\ \A i, j \in 1..Len(Tail(feed)) : i < j => ~TooLate(Tail(feed)[i], Tail(feed)[j])
<1> DEFINE u == Tail(feed)
<1>1. /\ feed \in Seq(FeedEvents) /\ \A i \in 1..Len(feed) : Happened(feed[i]) /\ CanCome(feed[i])
      /\ \A i, j \in 1..Len(feed) : i < j => ~TooLate(feed[i], feed[j])
  BY DEF ReadInv, FeedSound, RowsInOrder, FeedInOrder
<1>2. /\ Len(feed) \in Nat /\ 1 \in 1..Len(feed) /\ feed[1] = Head(feed) /\ Head(feed) \in FeedEvents
      /\ Len(u) = Len(feed) - 1
      /\ \A i \in 1..Len(u) : i + 1 \in 1..Len(feed) /\ u[i] = feed[i + 1] /\ u[i] \in FeedEvents
  BY <1>1, Departure
<1>3. /\ \A i \in 1..Len(u) : 1 < i + 1
      /\ \A i, j \in 1..Len(u) : i < j => i + 1 < j + 1
  BY <1>2
<1> HIDE DEF u
<1>4. Happened(Head(feed)) /\ CanCome(Head(feed))
  BY <1>1, <1>2
<1>5. \A i \in 1..Len(u) : /\ Happened(u[i]) /\ CanCome(u[i]) /\ ~TooLate(Head(feed), u[i])
  <2> TAKE i \in 1..Len(u)
  <2>1. u[i] = feed[i + 1] /\ i + 1 \in 1..Len(feed) /\ 1 < i + 1
    BY <1>2, <1>3
  <2>2. Happened(feed[i + 1]) /\ CanCome(feed[i + 1]) /\ ~TooLate(feed[1], feed[i + 1])
    BY <1>1, <1>2, <2>1
  <2> QED  BY <1>2, <2>1, <2>2
<1>6. \A i, j \in 1..Len(u) : i < j => ~TooLate(u[i], u[j])
  <2> TAKE i, j \in 1..Len(u)
  <2> HAVE i < j
  <2>1. i + 1 \in 1..Len(feed) /\ j + 1 \in 1..Len(feed) /\ i + 1 < j + 1
    BY <1>2, <1>3
  <2>2. ~TooLate(feed[i + 1], feed[j + 1])
    BY <1>1, <2>1
  <2> QED  BY <1>2, <2>2
<1> QED  BY <1>2, <1>4, <1>5, <1>6 DEF u

\* As long as nothing was dropped, the rows an event changes are there.
Ready(e) ==
    /\ e.type = "merchant.updated" => None \in DOMAIN merchants
    /\ e.type = "customer.updated" /\ customer[e.id] = "live" => e.id \in DOMAIN customers
    /\ e.type \in StatusTypes \cup PaymentTexts =>
        e.type = "payment.created" \/ e.id \in DOMAIN payments
    /\ e.type = "refund.processed" => e.id \in DOMAIN refunds
    /\ e.type = "refund.initiated" =>
        /\ refund[e.id].payment \in DOMAIN payments
        /\ payments[refund[e.id].payment].status = "captured"
        /\ e.id \in booked <=> born[e.id] \in DOMAIN daily_revenue

LEMMA HeadIsReady ==
  ASSUME ReadInv, ReplicaInv, dropped = 0, feed # <<>>
  PROVE  Ready(Head(feed))
<1> USE DEF ReadInv
<1>1. RowsComplete /\ ValuesComplete /\ TotalsReady /\ BookingReady
  BY DEF ReplicaInv
<1> DEFINE e == Head(feed)
<1>2. /\ e \in FeedEvents /\ Happened(e)
      /\ \A i \in 1..Len(Tail(feed)) :
            Tail(feed)[i] \in FeedEvents /\ ~TooLate(e, Tail(feed)[i])
  BY HeadIsNext
<1>3. feed \in Seq(FeedEvents)
  BY DEF FeedSound
<1> HIDE DEF e
<1>4. \A t \in Creations : \A x : Coming(feed, t, x) /\ e.id = x => e.type = t
  <2> TAKE t \in Creations
  <2> TAKE x
  <2> HAVE Coming(feed, t, x) /\ e.id = x
  <2>1. Coming(Tail(feed), t, x) \/ (e.type = t /\ e.id = x)
    BY <1>3, DepartureTells DEF e
  <2>2. ~Coming(Tail(feed), t, x)
    BY <1>2 DEF Coming, TooLate
  <2> QED  BY <2>1, <2>2
<1>5. e.type = "merchant.updated" => None \in DOMAIN merchants
  BY <1>1, <1>2, <1>4, EventKinds DEF RowsComplete, Happened, MerchantNames, Creations
<1>6. e.type = "customer.updated" /\ customer[e.id] = "live" => e.id \in DOMAIN customers
  BY <1>1, <1>2, <1>4, EventKinds DEF RowsComplete, CustomerNames, Creations
<1>7. e.type \in StatusTypes \cup PaymentTexts =>
        e.type = "payment.created" \/ e.id \in DOMAIN payments
  <2> SUFFICES ASSUME e.type \in StatusTypes \cup PaymentTexts
               PROVE  e.type = "payment.created" \/ e.id \in DOMAIN payments
    OBVIOUS
  <2>1. e.id \in Payments /\ status[e.id] # "none"
    BY <1>2, EventKinds DEF Happened, StatusTypes, PaymentTexts, StatusOf, History
  <2> QED  BY <1>1, <1>4, <2>1 DEF RowsComplete, Creations
<1>8. e.type = "refund.processed" => e.id \in DOMAIN refunds
  BY <1>1, <1>2, <1>4, EventKinds DEF RowsComplete, RefundStates, Creations, Happened
<1>9. ASSUME e.type = "refund.initiated"
      PROVE  /\ refund[e.id].payment \in DOMAIN payments
             /\ payments[refund[e.id].payment].status = "captured"
             /\ e.id \in booked <=> born[e.id] \in DOMAIN daily_revenue
  <2> DEFINE p == refund[e.id].payment
  <2>1. e.id \in Refunds /\ refund[e.id].state # "none"
    BY <1>2, <1>9, EventKinds DEF RefundStates, Happened
  <2>2. p \in Payments /\ status[p] \in {"captured", "settled"}
    BY <2>1 DEF WriteSound
  <2> HIDE DEF p
  <2>3. \A i \in 1..Len(Tail(feed)) :
           ~(Tail(feed)[i].type \in {"payment.created", "payment.captured"} /\ Tail(feed)[i].id = p)
    BY <1>2, <1>9 DEF TooLate, p
  <2>4. p \in DOMAIN payments
    <3>1. ~Coming(Tail(feed), "payment.created", p)
      BY <2>3 DEF Coming
    <3>2. ~Coming(feed, "payment.created", p)
      BY <1>3, <1>9, <3>1, DepartureTells DEF e
    <3> QED  BY <1>1, <2>2, <3>2 DEF RowsComplete
  <2>5. payments[p].status = "captured"
    <3>1. Shown(status[p]) = "captured"
      BY <2>2 DEF Shown
    <3> DEFINE E == Showing(p, "captured")
               F == Telling(StatusTypes, p)
    <3>2. \A f \in E : f.type = "payment.captured" /\ f.id = p
      BY DEF Showing, Telling, StatusTypes, StatusOf
    <3>3. ~LastOf(Tail(feed), E, F)
      BY <2>3, <3>2 DEF LastOf
    <3>4. e \notin E
      BY <1>9, <3>2
    <3> HIDE DEF E, F
    <3>5. ~LastOf(feed, E, F)
      BY <1>3, <3>3, <3>4, DepartureTells DEF e
    <3> QED  BY <1>1, <2>2, <3>1, <3>5 DEF ValuesComplete, E, F
  <2>6. e.id \in booked <=> born[e.id] \in DOMAIN daily_revenue
    <3>1. 1 \in 1..Len(feed) /\ feed[1] = e /\ \A j \in 1..Len(feed) : ~(j < 1)
      BY <1>3, Departure DEF e
    <3>2. e.id \in booked <=> DayOpens(feed, 1, born[e.id])
      BY <1>1, <1>9, <3>1 DEF BookingReady
    <3> QED  BY <3>1, <3>2 DEF DayOpens
  <2> QED  BY <2>4, <2>5, <2>6 DEF p
<1> QED  BY <1>5, <1>6, <1>7, <1>8, <1>9 DEF Ready, e

\* What a handler does to the rows: they stay sound, what may come later still may, and
\* where nothing is missing, they say what the event says.
ShowsAll(e) ==
    /\ e.type = "merchant.created" \/ None \in DOMAIN merchants => None \in DOMAIN merchants'
    /\ merchant # None =>
        /\ e \in Saying(MerchantNames, None, merchant) => merchants' = [m \in {None} |-> merchant]
        /\ e \notin Telling(MerchantNames, None) => merchants' = merchants
    /\ \A c \in Customers :
        /\ customer[c] = "live" =>
            /\ (e.type = "customer.created" /\ e.id = c) \/ c \in DOMAIN customers
                 => c \in DOMAIN customers'
            /\ e \in Saying(CustomerNames, c, name[c]) => customers'[c].name = name[c]
            /\ (c \in DOMAIN customers /\ customers[c].name = name[c]
                /\ e \notin Telling(CustomerNames, c))
                 => customers'[c].name = name[c]
        /\ e.type = "customer.deleted" /\ e.id = c => c \notin DOMAIN customers'
        /\ c \in DOMAIN customers' =>
            c \in DOMAIN customers \/ (e.type = "customer.created" /\ e.id = c)
    /\ \A p \in Payments : status[p] # "none" =>
        /\ (e.type = "payment.created" /\ e.id = p) \/ p \in DOMAIN payments
             => p \in DOMAIN payments'
        /\ e \in Saying(PaymentTexts, p, text[p]) => payments'[p].text = text[p]
        /\ (p \in DOMAIN payments /\ payments[p].text = text[p]
            /\ e \notin Telling(PaymentTexts, p))
             => payments'[p].text = text[p]
        /\ e \in Showing(p, Shown(status[p])) => payments'[p].status = Shown(status[p])
        /\ (p \in DOMAIN payments /\ payments[p].status = Shown(status[p])
            /\ e \notin Telling(StatusTypes, p))
             => payments'[p].status = Shown(status[p])
    /\ \A r \in Refunds : refund[r].state # "none" =>
        /\ (e.type = "refund.initiated" /\ e.id = r) \/ r \in DOMAIN refunds
             => r \in DOMAIN refunds'
        /\ e \in Setting(r, refund[r].state) => refunds'[r].status = refund[r].state
        /\ (r \in DOMAIN refunds /\ refunds[r].status = refund[r].state
            /\ e \notin Telling(RefundStates, r))
             => refunds'[r].status = refund[r].state
    /\ DOMAIN daily_revenue' =
          IF e.type = "payment.created" THEN DOMAIN daily_revenue \cup {born[e.id]}
          ELSE DOMAIN daily_revenue

Handles(e) ==
    /\ TotalsTypeOK' /\ RowsSound' /\ NeverAhead' /\ NamesAgree'
    /\ Len(feed') <= MaxLag => ReadTypeOK'
    /\ \A f \in FeedEvents : CanCome(f) /\ ~TooLate(e, f) => CanCome(f)'
    /\ dropped = 0 /\ TotalsReady /\ Ready(e) =>
        ShowsAll(e) /\ TotalsReady' /\ (TotalsNow => TotalsNow')

LEMMA HandledInOrder ==
  ASSUME ReadInv, feed # <<>>, feed' = Tail(feed), UNCHANGED <<lifecycle, columns, profile>>,
         \A f \in FeedEvents : CanCome(f) /\ ~TooLate(Head(feed), f) => CanCome(f)',
         TotalsTypeOK', RowsSound', NeverAhead', NamesAgree', Len(feed') <= MaxLag => ReadTypeOK'
  PROVE  ReadInv'
<1>0. /\ UNCHANGED <<customer, status, owner, amount, refund, name, method, born, today, booked,
                      merchant, text>>
      /\ feed \in Seq(FeedEvents)
  BY DEF lifecycle, columns, profile, ReadInv, FeedSound
<1>1. WriteSound'
  BY <1>0 DEF WriteSound, ReadInv
<1>2. /\ feed' \in Seq(FeedEvents) /\ Len(feed') = Len(feed) - 1 /\ Len(feed) \in Nat
  BY <1>0, Departure
<1>3. /\ \A i \in 1..Len(feed') :
            /\ feed'[i] \in FeedEvents /\ Happened(Tail(feed)[i]) /\ feed'[i] = Tail(feed)[i]
            /\ CanCome(Tail(feed)[i]) /\ ~TooLate(Head(feed), Tail(feed)[i])
      /\ \A i, j \in 1..Len(feed') : i < j => ~TooLate(Tail(feed)[i], Tail(feed)[j])
  BY HeadIsNext
<1>4. /\ \A f : Happened(f) => Happened(f)'
      /\ \A f, g : TooLate(f, g)' => TooLate(f, g)
  BY <1>0 DEF Happened, TooLate
<1>5. FeedSound'
  <2> SUFFICES ASSUME NEW i \in 1..Len(feed')  PROVE Happened(feed[i])'
    BY <1>2 DEF FeedSound
  <2>1. PICK f \in FeedEvents : f = Tail(feed)[i] /\ Happened(f) /\ feed'[i] = f
    BY <1>3
  <2>2. Happened(f)'  BY <1>4, <2>1
  <2> QED  BY <2>1, <2>2 DEF Happened
<1>6. FeedInOrder'
  <2> SUFFICES ASSUME NEW i \in 1..Len(feed'), NEW j \in 1..Len(feed'), i < j
               PROVE  ~TooLate(feed[i], feed[j])'
    BY DEF FeedInOrder
  <2>1. PICK f \in FeedEvents, g \in FeedEvents :
           /\ f = Tail(feed)[i] /\ g = Tail(feed)[j] /\ feed'[i] = f /\ feed'[j] = g
    BY <1>3
  <2>2. ~TooLate(f, g)  BY <1>3, <2>1
  <2>3. ~TooLate(f, g)'  BY <1>4, <2>2
  <2> QED  BY <2>1, <2>3 DEF TooLate
<1>7. RowsInOrder'
  <2> SUFFICES ASSUME NEW i \in 1..Len(feed')  PROVE CanCome(feed[i])'
    BY DEF RowsInOrder
  <2>1. PICK f \in FeedEvents :
           /\ f = Tail(feed)[i] /\ feed'[i] = f /\ CanCome(f) /\ ~TooLate(Head(feed), f)
    BY <1>3
  <2>2. CanCome(f)'  BY <2>1
  <2> QED  BY <2>1, <2>2 DEF CanCome
<1>8. Len(feed') <= MaxLag
  BY <1>2, ReadBoundsAssumption DEF ReadInv, ReadTypeOK
<1> QED  BY <1>1, <1>5, <1>6, <1>7, <1>8 DEF ReadInv

LEMMA DropKeepsOrder ==
  ASSUME ReadInv, Drop
  PROVE  ReadInv' /\ dropped' # 0
<1>0. /\ feed # <<>> /\ feed' = Tail(feed) /\ dropped < MaxDropped /\ dropped' = dropped + 1
      /\ UNCHANGED <<lifecycle, columns, profile>>
      /\ UNCHANGED <<merchants, customers, payments, refunds, daily_revenue, payment_method_stats>>
      /\ UNCHANGED <<customer, status, owner, amount, refund, name, method, born, booked, merchant, text>>
  BY DEF Drop, readTables, lifecycle, columns, profile
<1>1. /\ ReadTypeOK /\ TotalsTypeOK /\ RowsSound /\ NeverAhead /\ NamesAgree
  BY DEF ReadInv
<1>2. /\ TotalsTypeOK' /\ RowsSound' /\ NeverAhead' /\ NamesAgree'
  BY <1>0, <1>1 DEF TotalsTypeOK, RowsSound, NeverAhead, NamesAgree
<1>3. dropped' \in 0..MaxDropped /\ dropped' # 0
  BY <1>0, <1>1, ReadBoundsAssumption DEF ReadTypeOK
<1>4. Len(feed') <= MaxLag => ReadTypeOK'
  BY <1>0, <1>1, <1>3 DEF ReadTypeOK, PartialOn
<1>5. \A f \in FeedEvents : CanCome(f) => CanCome(f)'
  BY <1>0 DEF CanCome
<1> QED  BY <1>0, <1>2, <1>3, <1>4, <1>5, HandledInOrder

LEMMA HandledCompletely ==
  ASSUME ReadInv, ReplicaInv, feed # <<>>, feed' = Tail(feed), dropped' = dropped,
         UNCHANGED <<lifecycle, columns, profile>>,
         dropped = 0 => ShowsAll(Head(feed)) /\ TotalsReady'
  PROVE  ReplicaInv'
<1> DEFINE e == Head(feed)
<1> SUFFICES ASSUME dropped = 0  PROVE (RowsComplete /\ ValuesComplete /\ TotalsReady /\ BookingReady)'
  BY DEF ReplicaInv
<1>0. /\ UNCHANGED <<customer, status, owner, amount, refund, name, method, born, booked, merchant, text>>
      /\ feed \in Seq(FeedEvents)
      /\ RowsComplete /\ ValuesComplete /\ BookingReady /\ ShowsAll(e) /\ TotalsReady'
  BY DEF lifecycle, columns, profile, ReadInv, FeedSound, ReplicaInv
<1>1. /\ \A E, F : LastOf(feed, E, F) => LastOf(feed', E, F) \/ (e \in E /\ Silent(feed', F))
      /\ \A F : Silent(feed, F) => Silent(feed', F) /\ e \notin F
      /\ \A t, x : Coming(feed, t, x) <=> Coming(feed', t, x) \/ (e.type = t /\ e.id = x)
  BY <1>0, DepartureTells
<1>2. \A t \in Creations : \A x : e.id = x => ~Coming(feed', t, x)
  <2>1. \A i \in 1..Len(Tail(feed)) : ~TooLate(e, Tail(feed)[i])
    BY HeadIsNext
  <2> QED  BY <2>1 DEF Coming, TooLate
<1>5. /\ \A c \in Customers : customer[c] = "live" /\ Silent(feed, Telling(CustomerNames, c))
            => c \in DOMAIN customers
      /\ \A p \in Payments : status[p] # "none" /\ Silent(feed, Telling(PaymentTexts, p))
            => p \in DOMAIN payments
      /\ \A p \in Payments : status[p] # "none" /\ Silent(feed, Telling(StatusTypes, p))
            => p \in DOMAIN payments
      /\ \A r \in Refunds : refund[r].state # "none" /\ Silent(feed, Telling(RefundStates, r))
            => r \in DOMAIN refunds
  <2>1. \A T : \A t \in T : \A x : Silent(feed, Telling(T, x)) => ~Coming(feed, t, x)
    BY <1>0, ElementOfSeq DEF Silent, Telling, Coming
  <2> QED
    BY <1>0, <2>1 DEF RowsComplete, CustomerNames, PaymentTexts, StatusTypes, RefundStates
<1> HIDE DEF e
<1>3. RowsComplete'
  <2>1. merchant # None => None \in DOMAIN merchants' \/ Coming(feed', "merchant.created", None)
    BY <1>0, <1>1 DEF RowsComplete, ShowsAll
  <2>2. ASSUME NEW c \in Customers, customer[c] = "live"
        PROVE  c \in DOMAIN customers' \/ Coming(feed', "customer.created", c)
    BY <1>0, <1>1, <2>2 DEF RowsComplete, ShowsAll
  <2>3. ASSUME NEW c \in Customers, customer[c] = "deleted"
        PROVE  \/ Coming(feed', "customer.deleted", c)
               \/ c \notin DOMAIN customers' /\ ~Coming(feed', "customer.created", c)
    <3>1. CASE Coming(feed', "customer.deleted", c)
      BY <3>1
    <3>2. CASE e.type = "customer.deleted" /\ e.id = c
      BY <1>0, <1>2, <3>2 DEF ShowsAll, Creations
    <3>3. CASE c \notin DOMAIN customers /\ ~Coming(feed, "customer.created", c)
      BY <1>0, <1>1, <3>3 DEF ShowsAll
    <3> QED  BY <1>0, <1>1, <2>3, <3>1, <3>2, <3>3 DEF RowsComplete
  <2>4. ASSUME NEW p \in Payments, status[p] # "none"
        PROVE  p \in DOMAIN payments' \/ Coming(feed', "payment.created", p)
    BY <1>0, <1>1, <2>4 DEF RowsComplete, ShowsAll
  <2>5. ASSUME NEW r \in Refunds, refund[r].state # "none"
        PROVE  r \in DOMAIN refunds' \/ Coming(feed', "refund.initiated", r)
    BY <1>0, <1>1, <2>5 DEF RowsComplete, ShowsAll
  <2> QED  BY <1>0, <2>1, <2>2, <2>3, <2>4, <2>5 DEF RowsComplete
<1>4. ValuesComplete'
  <2>1. ASSUME merchant # None
        PROVE \/ LastOf(feed', Saying(MerchantNames, None, merchant), Telling(MerchantNames, None))
              \/ /\ Silent(feed', Telling(MerchantNames, None))
                 /\ merchants' = [m \in {None} |-> merchant]
    BY <1>0, <1>1, <2>1 DEF ValuesComplete, ShowsAll
  <2>2. ASSUME NEW c \in Customers, customer[c] = "live"
        PROVE \/ LastOf(feed', Saying(CustomerNames, c, name[c]), Telling(CustomerNames, c))
              \/ Silent(feed', Telling(CustomerNames, c)) /\ customers'[c].name = name[c]
    BY <1>0, <1>1, <1>5, <2>2 DEF ValuesComplete, ShowsAll
  <2>3. ASSUME NEW p \in Payments, status[p] # "none"
        PROVE \/ LastOf(feed', Saying(PaymentTexts, p, text[p]), Telling(PaymentTexts, p))
              \/ Silent(feed', Telling(PaymentTexts, p)) /\ payments'[p].text = text[p]
    BY <1>0, <1>1, <1>5, <2>3 DEF ValuesComplete, ShowsAll
  <2>4. ASSUME NEW p \in Payments, status[p] # "none"
        PROVE \/ LastOf(feed', Showing(p, Shown(status[p])), Telling(StatusTypes, p))
              \/ Silent(feed', Telling(StatusTypes, p)) /\ payments'[p].status = Shown(status[p])
    BY <1>0, <1>1, <1>5, <2>4 DEF ValuesComplete, ShowsAll
  <2>5. ASSUME NEW r \in Refunds, refund[r].state # "none"
        PROVE \/ LastOf(feed', Setting(r, refund[r].state), Telling(RefundStates, r))
              \/ Silent(feed', Telling(RefundStates, r)) /\ refunds'[r].status = refund[r].state
    BY <1>0, <1>1, <1>5, <2>5 DEF ValuesComplete, ShowsAll
  <2> QED  BY <1>0, <2>1, <2>2, <2>3, <2>4, <2>5 DEF ValuesComplete
<1>6. BookingReady'
  <2>1. /\ Len(feed) \in Nat /\ Len(feed') = Len(feed) - 1 /\ 1 \in 1..Len(feed) /\ feed[1] = e
        /\ \A i \in 1..Len(feed') : i + 1 \in 1..Len(feed) /\ feed'[i] = feed[i + 1]
    BY <1>0, Departure DEF e
  <2> SUFFICES ASSUME NEW i \in 1..Len(feed'), feed'[i].type = "refund.initiated"
               PROVE  (feed[i].id \in booked <=> DayOpens(feed, i, born[feed[i].id]))'
    BY DEF BookingReady
  <2> DEFINE d == born[feed'[i].id]
  <2>2. feed'[i].id \in booked <=> DayOpens(feed, i + 1, d)
    BY <1>0, <2>1 DEF BookingReady
  <2> HIDE DEF d
  <2>3. ASSUME NEW j \in 1..Len(feed), j < i + 1, feed[j].type = "payment.created",
               born[feed[j].id] = d
        PROVE  \/ e.type = "payment.created" /\ born[e.id] = d
               \/ \E k \in 1..Len(feed') :
                     k < i /\ feed'[k].type = "payment.created" /\ born[feed'[k].id] = d
    <3>1. CASE j = 1
      BY <2>1, <2>3, <3>1
    <3>2. CASE j # 1
      <4>1. j - 1 \in 1..Len(feed') /\ j - 1 < i /\ (j - 1) + 1 = j
        BY <2>1, <2>3, <3>2
      <4>2. feed'[j - 1] = feed[j]
        BY <2>1, <4>1
      <4> QED  BY <2>3, <4>1, <4>2
    <3> QED  BY <3>1, <3>2
  <2>4. ASSUME NEW k \in 1..Len(feed'), k < i, feed'[k].type = "payment.created",
               born[feed'[k].id] = d
        PROVE  \E j \in 1..Len(feed) :
                  j < i + 1 /\ feed[j].type = "payment.created" /\ born[feed[j].id] = d
    <3>1. k + 1 \in 1..Len(feed) /\ k + 1 < i + 1 /\ feed'[k] = feed[k + 1]
      BY <2>1, <2>4
    <3> QED  BY <2>4, <3>1
  <2>5. e.type = "payment.created" /\ born[e.id] = d =>
           \E j \in 1..Len(feed) :
              j < i + 1 /\ feed[j].type = "payment.created" /\ born[feed[j].id] = d
    <3>1. 1 < i + 1
      OBVIOUS
    <3> QED  BY <2>1, <3>1
  <2>6. d \in DOMAIN daily_revenue'
          <=> d \in DOMAIN daily_revenue \/ (e.type = "payment.created" /\ born[e.id] = d)
    BY <1>0 DEF ShowsAll
  <2>7. DayOpens(feed, i + 1, d) <=>
           \/ d \in DOMAIN daily_revenue'
           \/ \E k \in 1..Len(feed') :
                 k < i /\ feed'[k].type = "payment.created" /\ born[feed'[k].id] = d
    BY <2>3, <2>4, <2>5, <2>6 DEF DayOpens
  <2> QED  BY <1>0, <2>2, <2>7 DEF DayOpens, d
<1> QED  BY <1>0, <1>3, <1>4, <1>6

-----------------------------------------------------------------------------
(* What the handlers do to the totals.                                     *)

Days == [total_amount : Int, payment_count : Int, net_revenue : Int,
         success_count : Int, failed_count : Int, refund_amount : Int]
Stats == [total_amount : Int, count : Int, success_count : Int]

\* A day, and a method, with one payment more; a day with what is returned on it.
DayGained(new, day, a) ==
    /\ new.total_amount = day.total_amount + a
    /\ new.payment_count = day.payment_count + 1 /\ new.net_revenue = day.net_revenue + a
    /\ new.success_count = day.success_count /\ new.failed_count = day.failed_count
    /\ new.refund_amount = day.refund_amount

MethodGained(new, old, a) ==
    /\ new.total_amount = old.total_amount + a
    /\ new.count = old.count + 1 /\ new.success_count = old.success_count

DayReturns(new, day, a) ==
    /\ new.refund_amount = day.refund_amount + a /\ new.net_revenue = day.net_revenue - a
    /\ new.success_count = day.success_count /\ new.failed_count = day.failed_count
    /\ new.total_amount = day.total_amount /\ new.payment_count = day.payment_count

LEMMA DayAfterPayment ==
  ASSUME NEW day \in Days, NEW a \in Int
  PROVE  LET new == [day EXCEPT !.total_amount = @ + a, !.payment_count = @ + 1,
                                !.net_revenue = @ + a]
         IN  new \in Days /\ DayGained(new, day, a)
<1>1. PICK u \in Int, v \in Int, w \in Int :
         u = day.total_amount + a /\ v = day.payment_count + 1 /\ w = day.net_revenue + a
  BY DEF Days
<1>2. PICK new : new = [day EXCEPT !.total_amount = u, !.payment_count = v, !.net_revenue = w]
  OBVIOUS
<1>3. /\ new \in Days /\ new.total_amount = u /\ new.payment_count = v /\ new.net_revenue = w
      /\ new.success_count = day.success_count /\ new.failed_count = day.failed_count
      /\ new.refund_amount = day.refund_amount
  BY <1>1, <1>2 DEF Days
<1>4. DayGained(new, day, a)
  BY <1>1, <1>3 DEF DayGained
<1> QED  BY <1>1, <1>2, <1>3, <1>4

LEMMA DayAfterRefund ==
  ASSUME NEW day \in Days, NEW a \in Int
  PROVE  LET new == [day EXCEPT !.refund_amount = @ + a, !.net_revenue = @ - a]
         IN  new \in Days /\ DayReturns(new, day, a)
<1>1. PICK u \in Int, v \in Int : u = day.refund_amount + a /\ v = day.net_revenue - a
  BY DEF Days
<1>2. PICK new : new = [day EXCEPT !.refund_amount = u, !.net_revenue = v]
  OBVIOUS
<1>3. /\ new \in Days /\ new.refund_amount = u /\ new.net_revenue = v
      /\ new.success_count = day.success_count /\ new.failed_count = day.failed_count
      /\ new.total_amount = day.total_amount /\ new.payment_count = day.payment_count
  BY <1>1, <1>2 DEF Days
<1>4. DayReturns(new, day, a)
  BY <1>1, <1>3 DEF DayReturns
<1> QED  BY <1>1, <1>2, <1>3, <1>4

LEMMA MethodAfterPayment ==
  ASSUME NEW old \in Stats, NEW a \in Int
  PROVE  LET new == [old EXCEPT !.total_amount = @ + a, !.count = @ + 1]
         IN  new \in Stats /\ MethodGained(new, old, a)
<1>1. PICK u \in Int, v \in Int : u = old.total_amount + a /\ v = old.count + 1
  BY DEF Stats
<1>2. PICK new : new = [old EXCEPT !.total_amount = u, !.count = v]
  OBVIOUS
<1>3. /\ new \in Stats /\ new.total_amount = u /\ new.count = v
      /\ new.success_count = old.success_count
  BY <1>1, <1>2 DEF Stats
<1>4. MethodGained(new, old, a)
  BY <1>1, <1>3 DEF MethodGained
<1> QED  BY <1>1, <1>2, <1>3, <1>4

\* The tables have their types, and as many rows as can be added up.
Countable(days, stats, buyers, pays, refs) ==
    /\ \A d \in DOMAIN days : days[d] \in Days
    /\ \A k \in DOMAIN stats : stats[k] \in Stats
    /\ \A c \in DOMAIN buyers : buyers[c].total_payments \in Int /\ buyers[c].total_spent \in Int
    /\ IsFiniteSet(DOMAIN pays) /\ NaturalAmounts(pays, DOMAIN pays)
    /\ IsFiniteSet(DOMAIN refs) /\ NaturalAmounts(refs, DOMAIN refs)

LEMMA PartOfRows ==
  ASSUME NEW f, IsFiniteSet(DOMAIN f), NaturalAmounts(f, DOMAIN f), NEW T, T \subseteq DOMAIN f
  PROVE  IsFiniteSet(T) /\ NaturalAmounts(f, T) /\ Cardinality(T) \in Nat /\ AmountSum(f, T) \in Nat
<1>1. IsFiniteSet(T) /\ NaturalAmounts(f, T)
  BY FS_Subset DEF NaturalAmounts
<1> QED  BY <1>1, FS_CardinalityType, SumIsNatural

LEMMA SameAmounts ==
  ASSUME NEW f, IsFiniteSet(DOMAIN f), NaturalAmounts(f, DOMAIN f),
         NEW h, \A r \in DOMAIN f : h[r].amount = f[r].amount
  PROVE  \A T : T \subseteq DOMAIN f => AmountSum(h, T) = AmountSum(f, T)
<1> SUFFICES ASSUME NEW T, T \subseteq DOMAIN f  PROVE AmountSum(h, T) = AmountSum(f, T)
  OBVIOUS
<1> QED  BY PartOfRows, SumOfSameAmounts

LEMMA RowAdded ==
  ASSUME NEW f, IsFiniteSet(DOMAIN f), NaturalAmounts(f, DOMAIN f),
         NEW T, T \subseteq DOMAIN f, NEW x \in DOMAIN f, x \notin T
  PROVE  /\ Cardinality(T \cup {x}) = Cardinality(T) + 1
         /\ AmountSum(f, T \cup {x}) = AmountSum(f, T) + f[x].amount
<1>1. IsFiniteSet(T) /\ NaturalAmounts(f, T \cup {x})
  BY PartOfRows DEF NaturalAmounts
<1> QED  BY <1>1, FS_AddElement, SumWithRow

\* Names and descriptions do not count, nor does a customer who is gone.
LEMMA EditsDoNotCount ==
  ASSUME NEW days, NEW stats, NEW buyers, NEW pays, NEW refs, NEW b, NEW m, NEW B,
         Countable(days, stats, buyers, pays, refs),
         AddUp(days, stats, buyers, pays, refs, b, m, B),
         NEW buyers2, DOMAIN buyers2 \subseteq DOMAIN buyers,
         \A c \in DOMAIN buyers2 : /\ buyers2[c].total_payments = buyers[c].total_payments
                                   /\ buyers2[c].total_spent = buyers[c].total_spent,
         NEW pays2, DOMAIN pays2 = DOMAIN pays,
         \A p \in DOMAIN pays :
            /\ pays2[p].amount = pays[p].amount /\ pays2[p].customer = pays[p].customer
            /\ \A s \in {"captured", "failed"} : pays2[p].status = s <=> pays[p].status = s,
         NEW refs2, DOMAIN refs2 = DOMAIN refs,
         \A r \in DOMAIN refs : /\ refs2[r].amount = refs[r].amount
                                /\ refs2[r].payment = refs[r].payment
  PROVE  AddUp(days, stats, buyers2, pays2, refs2, b, m, B)
<1>1. /\ \A s \in {"captured", "failed"} : In(pays2, s) = In(pays, s)
      /\ \A c : Bought(pays2, c) = Bought(pays, c)
      /\ \A P : Returned(refs2, P) = Returned(refs, P)
      /\ \A f, d : OfDay(pays2, f, d) = OfDay(pays, f, d)
      /\ \A d : BookedOn(refs2, b, d, B) = BookedOn(refs, b, d, B)
  BY DEF In, Bought, Returned, OfDay, BookedOn
<1>2. /\ \A T : T \subseteq DOMAIN pays => AmountSum(pays2, T) = AmountSum(pays, T)
      /\ \A T : T \subseteq DOMAIN refs => AmountSum(refs2, T) = AmountSum(refs, T)
  BY SameAmounts DEF Countable
<1>3. /\ \A c, P : Bought(pays, c) \cap P \subseteq DOMAIN pays
      /\ \A P : Returned(refs, P) \subseteq DOMAIN refs
      /\ \A f, d : OfDay(pays, f, d) \subseteq DOMAIN pays
      /\ \A d : BookedOn(refs, b, d, B) \subseteq DOMAIN refs
  BY DEF Bought, Returned, OfDay, BookedOn
<1>4. \A d \in DOMAIN days :
        DayAddsUp(days[d], pays2, OfDay(pays2, b, d), refs2, BookedOn(refs2, b, d, B))
  <2> SUFFICES ASSUME NEW d \in DOMAIN days
               PROVE  DayAddsUp(days[d], pays2, OfDay(pays, b, d), refs2, BookedOn(refs, b, d, B))
    BY <1>1
  <2>1. DayAddsUp(days[d], pays, OfDay(pays, b, d), refs, BookedOn(refs, b, d, B))
    BY DEF AddUp
  <2>2. /\ AmountSum(pays2, OfDay(pays, b, d)) = AmountSum(pays, OfDay(pays, b, d))
        /\ AmountSum(refs2, BookedOn(refs, b, d, B)) = AmountSum(refs, BookedOn(refs, b, d, B))
        /\ In(pays2, "captured") = In(pays, "captured") /\ In(pays2, "failed") = In(pays, "failed")
    BY <1>1, <1>2, <1>3
  <2> QED  BY <2>1, <2>2 DEF DayAddsUp
<1>5. \A k \in DOMAIN stats : StatsAddUp(stats[k], pays2, OfDay(pays2, m, k))
  BY <1>1, <1>2, <1>3 DEF AddUp, StatsAddUp
<1>6. \A c \in DOMAIN buyers2 : BuyerAddsUp(buyers2[c], pays2, Bought(pays2, c), refs2)
  <2> SUFFICES ASSUME NEW c \in DOMAIN buyers2
               PROVE  BuyerAddsUp(buyers2[c], pays2, Bought(pays, c), refs2)
    BY <1>1
  <2> DEFINE P == Bought(pays, c) \cap In(pays, "captured")
  <2>1. BuyerAddsUp(buyers[c], pays, Bought(pays, c), refs)
    BY DEF AddUp
  <2>2. /\ AmountSum(pays2, P) = AmountSum(pays, P)
        /\ AmountSum(refs2, Returned(refs2, P)) = AmountSum(refs, Returned(refs, P))
        /\ In(pays2, "captured") = In(pays, "captured")
    BY <1>1, <1>2, <1>3
  <2> QED  BY <2>1, <2>2 DEF BuyerAddsUp
<1> QED  BY <1>4, <1>5, <1>6 DEF AddUp

\* A customer starts with nothing.
LEMMA NewBuyer ==
  ASSUME NEW days, NEW stats, NEW buyers, NEW pays, NEW refs, NEW b, NEW m, NEW B,
         AddUp(days, stats, buyers, pays, refs, b, m, B),
         NEW c, NEW buyers2, DOMAIN buyers2 = DOMAIN buyers \cup {c}, c \notin DOMAIN buyers,
         \A x \in DOMAIN buyers : buyers2[x] = buyers[x],
         buyers2[c].total_payments = 0, buyers2[c].total_spent = 0,
         \A p \in DOMAIN pays : pays[p].customer # c
  PROVE  AddUp(days, stats, buyers2, pays, refs, b, m, B)
<1>1. Bought(pays, c) = {} /\ Returned(refs, {}) = {} /\ \A s : {} \cap In(pays, s) = {}
  BY DEF Bought, Returned
<1>2. BuyerAddsUp(buyers2[c], pays, Bought(pays, c), refs)
  BY <1>1, FS_EmptySet, SumOfNone DEF BuyerAddsUp
<1> QED  BY <1>2 DEF AddUp

\* A row is added; a customer counts one payment more.
Opened(table2, table, k) ==
    /\ DOMAIN table2 = DOMAIN table \cup {k}
    /\ \A x \in DOMAIN table2 : x # k => table2[x] = table[x]

Buys(buyers2, buyers, c) ==
    /\ DOMAIN buyers2 = DOMAIN buyers
    /\ \A x \in DOMAIN buyers :
        /\ buyers2[x].total_spent = buyers[x].total_spent
        /\ buyers2[x].total_payments
             = IF x = c THEN buyers[x].total_payments + 1 ELSE buyers[x].total_payments

\* A day, a method or a customer gains the payment that is created; the first one
\* opens the row of its day and its method.
LEMMA NewPayment ==
  ASSUME NEW days, NEW stats, NEW buyers, NEW pays, NEW refs, NEW b, NEW m, NEW B,
         Countable(days, stats, buyers, pays, refs),
         AddUp(days, stats, buyers, pays, refs, b, m, B),
         \A q \in DOMAIN pays : b[q] \in DOMAIN days /\ m[q] \in DOMAIN stats,
         \A r \in DOMAIN refs \cap B : b[r] \in DOMAIN days,
         NEW p, p \notin DOMAIN pays, \A r \in DOMAIN refs : refs[r].payment # p,
         NEW pays2, Opened(pays2, pays, p),
         pays2[p].status = "created", NEW a \in Nat, pays2[p].amount = a,
         NEW days2, Opened(days2, days, b[p]),
         NEW day \in Days, day = Row(days, b[p], NoRevenue), DayGained(days2[b[p]], day, a),
         NEW stats2, Opened(stats2, stats, m[p]),
         NEW old \in Stats, old = Row(stats, m[p], NoStats), MethodGained(stats2[m[p]], old, a),
         NEW buyers2, Buys(buyers2, buyers, pays2[p].customer)
  PROVE  AddUp(days2, stats2, buyers2, pays2, refs, b, m, B)
<1> USE DEF Opened, DayGained, MethodGained, Buys
<1> DEFINE c == pays2[p].customer
<1>0. \A q \in DOMAIN pays : pays2[q] = pays[q] /\ q # p
  OBVIOUS
<1> DEFINE d == b[p]  k == m[p]
<1>1. /\ IsFiniteSet(DOMAIN pays) /\ NaturalAmounts(pays, DOMAIN pays)
      /\ IsFiniteSet(DOMAIN refs) /\ NaturalAmounts(refs, DOMAIN refs)
  BY DEF Countable
<1>2. /\ \A s \in {"captured", "failed"} : In(pays2, s) = In(pays, s) /\ p \notin In(pays, s)
      /\ \A x : Bought(pays2, x) = IF x = c THEN Bought(pays, x) \cup {p} ELSE Bought(pays, x)
      /\ \A f, x : OfDay(pays2, f, x)
                     = IF x = f[p] THEN OfDay(pays, f, x) \cup {p} ELSE OfDay(pays, f, x)
      /\ \A x : Bought(pays, x) \subseteq DOMAIN pays
      /\ \A f, x : OfDay(pays, f, x) \subseteq DOMAIN pays
  BY DEF In, Bought, OfDay
<1>3. \A T : T \subseteq DOMAIN pays => AmountSum(pays2, T) = AmountSum(pays, T)
  BY <1>1, SameAmounts
<1>4. IsFiniteSet(DOMAIN pays2) /\ NaturalAmounts(pays2, DOMAIN pays2)
  BY <1>1, FS_AddElement DEF NaturalAmounts
<1>5. ASSUME NEW T, T \subseteq DOMAIN pays
      PROVE  /\ Cardinality(T \cup {p}) = Cardinality(T) + 1
             /\ AmountSum(pays2, T \cup {p}) = AmountSum(pays, T) + a
             /\ Cardinality(T) \in Nat /\ AmountSum(pays, T) \in Nat
  <2>1. T \subseteq DOMAIN pays2 /\ p \in DOMAIN pays2 /\ p \notin T
    BY <1>5
  <2>2. /\ Cardinality(T \cup {p}) = Cardinality(T) + 1
        /\ AmountSum(pays2, T \cup {p}) = AmountSum(pays2, T) + pays2[p].amount
    BY ONLY <1>4, <2>1, RowAdded
  <2> QED  BY <1>1, <1>3, <1>5, <2>2, PartOfRows
<1>6. \A x : OfDay(pays, b, x) # {} => x \in DOMAIN days
  BY DEF OfDay
<1>7. \A x : OfDay(pays, m, x) # {} => x \in DOMAIN stats
  BY DEF OfDay
<1>8. DayAddsUp(days2[d], pays2, OfDay(pays2, b, d), refs, BookedOn(refs, b, d, B))
  <2> DEFINE P == OfDay(pays, b, d)
  <2>1. /\ day.payment_count = Cardinality(P) /\ day.total_amount = AmountSum(pays, P)
        /\ day.success_count = Cardinality(P \cap In(pays, "captured"))
        /\ day.failed_count = Cardinality(P \cap In(pays, "failed"))
        /\ day.net_revenue = day.total_amount - day.refund_amount
        /\ day.refund_amount = AmountSum(refs, BookedOn(refs, b, d, B))
    <3>1. CASE d \in DOMAIN days
      <4>1. day = days[d]
        BY <3>1 DEF Row
      <4>2. DayAddsUp(day, pays, P, refs, BookedOn(refs, b, d, B))
        BY <3>1, <4>1 DEF AddUp
      <4> HIDE DEF P, d
      <4> QED  BY <4>2 DEF DayAddsUp
    <3>2. CASE d \notin DOMAIN days
      <4>1. P = {} /\ P \cap In(pays, "captured") = {} /\ P \cap In(pays, "failed") = {}
        BY <1>6, <3>2
      <4>2. BookedOn(refs, b, d, B) = {}
        BY <3>2 DEF BookedOn
      <4>3. day = NoRevenue
        BY <3>2 DEF Row
      <4> HIDE DEF P
      <4> QED  BY <4>1, <4>2, <4>3, FS_EmptySet, SumOfNone DEF NoRevenue
    <3> QED  BY <3>1, <3>2
  <2>2. /\ OfDay(pays2, b, d) = P \cup {p} /\ P \subseteq DOMAIN pays
        /\ (P \cup {p}) \cap In(pays2, "captured") = P \cap In(pays, "captured")
        /\ (P \cup {p}) \cap In(pays2, "failed") = P \cap In(pays, "failed")
    BY <1>2
  <2>3. /\ Cardinality(P \cup {p}) = Cardinality(P) + 1
        /\ AmountSum(pays2, P \cup {p}) = AmountSum(pays, P) + a
    BY <1>5, <2>2
  <2>4. /\ P \cup {p} # {} /\ a \in Int
        /\ day.net_revenue \in Int /\ day.total_amount \in Int /\ day.refund_amount \in Int
    BY DEF Days
  <2>5. /\ days2[d].total_amount = day.total_amount + a
        /\ days2[d].payment_count = day.payment_count + 1
        /\ days2[d].net_revenue = day.net_revenue + a
        /\ days2[d].success_count = day.success_count
        /\ days2[d].failed_count = day.failed_count
        /\ days2[d].refund_amount = day.refund_amount
    OBVIOUS
  <2> HIDE DEF P, d
  <2>6. days2[d].net_revenue = days2[d].total_amount - days2[d].refund_amount
    BY ONLY <2>1, <2>4, <2>5
  <2>7. /\ days2[d].payment_count = Cardinality(P \cup {p})
        /\ days2[d].total_amount = AmountSum(pays2, P \cup {p})
    BY ONLY <2>1, <2>3, <2>5
  <2>8. /\ days2[d].success_count = Cardinality((P \cup {p}) \cap In(pays2, "captured"))
        /\ days2[d].failed_count = Cardinality((P \cup {p}) \cap In(pays2, "failed"))
        /\ days2[d].refund_amount = AmountSum(refs, BookedOn(refs, b, d, B))
    BY ONLY <2>1, <2>2, <2>5
  <2> QED  BY ONLY <2>2, <2>4, <2>6, <2>7, <2>8 DEF DayAddsUp
<1>9. ASSUME NEW x \in DOMAIN days2, x # d
      PROVE  DayAddsUp(days2[x], pays2, OfDay(pays2, b, x), refs, BookedOn(refs, b, x, B))
  <2>1. DayAddsUp(days[x], pays, OfDay(pays, b, x), refs, BookedOn(refs, b, x, B)) /\ days2[x] = days[x]
    BY <1>9 DEF AddUp
  <2>2. /\ OfDay(pays2, b, x) = OfDay(pays, b, x) /\ In(pays2, "captured") = In(pays, "captured")
        /\ In(pays2, "failed") = In(pays, "failed")
        /\ AmountSum(pays2, OfDay(pays, b, x)) = AmountSum(pays, OfDay(pays, b, x))
    BY <1>2, <1>3, <1>9
  <2> QED  BY <2>1, <2>2 DEF DayAddsUp
<1>10. StatsAddUp(stats2[k], pays2, OfDay(pays2, m, k))
  <2> DEFINE P == OfDay(pays, m, k)
  <2>1. /\ old.count = Cardinality(P) /\ old.total_amount = AmountSum(pays, P)
        /\ old.success_count = Cardinality(P \cap In(pays, "captured"))
    <3>1. CASE k \in DOMAIN stats
      <4>1. old = stats[k]
        BY <3>1 DEF Row
      <4>2. StatsAddUp(old, pays, P)
        BY <3>1, <4>1 DEF AddUp
      <4> HIDE DEF P, k
      <4> QED  BY <4>2 DEF StatsAddUp
    <3>2. CASE k \notin DOMAIN stats
      <4>1. P = {} /\ P \cap In(pays, "captured") = {} /\ old = NoStats
        BY <1>7, <3>2 DEF Row
      <4> HIDE DEF P
      <4> QED  BY <4>1, FS_EmptySet, SumOfNone DEF NoStats
    <3> QED  BY <3>1, <3>2
  <2>2. /\ OfDay(pays2, m, k) = P \cup {p} /\ P \subseteq DOMAIN pays
        /\ (P \cup {p}) \cap In(pays2, "captured") = P \cap In(pays, "captured")
    BY <1>2
  <2>3. /\ Cardinality(P \cup {p}) = Cardinality(P) + 1
        /\ AmountSum(pays2, P \cup {p}) = AmountSum(pays, P) + a
    BY <1>5, <2>2
  <2> HIDE DEF P
  <2> QED  BY <2>1, <2>2, <2>3 DEF StatsAddUp
<1>11. ASSUME NEW x \in DOMAIN stats2, x # k
       PROVE  StatsAddUp(stats2[x], pays2, OfDay(pays2, m, x))
  <2>1. StatsAddUp(stats[x], pays, OfDay(pays, m, x)) /\ stats2[x] = stats[x]
    BY <1>11 DEF AddUp
  <2>2. /\ OfDay(pays2, m, x) = OfDay(pays, m, x) /\ In(pays2, "captured") = In(pays, "captured")
        /\ AmountSum(pays2, OfDay(pays, m, x)) = AmountSum(pays, OfDay(pays, m, x))
    BY <1>2, <1>3, <1>11
  <2> QED  BY <2>1, <2>2 DEF StatsAddUp
<1>12. ASSUME NEW x \in DOMAIN buyers
       PROVE  BuyerAddsUp(buyers2[x], pays2, Bought(pays2, x), refs)
  <2> DEFINE P == Bought(pays, x) \cap In(pays, "captured")
  <2>1. BuyerAddsUp(buyers[x], pays, Bought(pays, x), refs)
    BY <1>12 DEF AddUp
  <2>2. Bought(pays2, x) \cap In(pays2, "captured") = P /\ AmountSum(pays2, P) = AmountSum(pays, P)
    BY <1>2, <1>3
  <2>3. buyers2[x].total_payments = Cardinality(Bought(pays2, x))
    BY <1>2, <1>5, <1>12, <2>1 DEF BuyerAddsUp
  <2> QED  BY <1>12, <2>1, <2>2, <2>3 DEF BuyerAddsUp
<1> QED  BY <1>8, <1>9, <1>10, <1>11, <1>12 DEF AddUp

\* The payment's status changes, and with it one success, or failure, is counted.
StatusBecomes(pays2, pays, p, s) ==
    /\ DOMAIN pays2 = DOMAIN pays
    /\ \A q \in DOMAIN pays :
        /\ pays2[q].amount = pays[q].amount /\ pays2[q].customer = pays[q].customer
        /\ pays2[q].status = IF q = p THEN s ELSE pays[q].status

DaySucceeds(days2, days, d) ==
    /\ DOMAIN days2 = DOMAIN days
    /\ \A x \in DOMAIN days :
        /\ days2[x].total_amount = days[x].total_amount
        /\ days2[x].payment_count = days[x].payment_count
        /\ days2[x].net_revenue = days[x].net_revenue
        /\ days2[x].failed_count = days[x].failed_count
        /\ days2[x].refund_amount = days[x].refund_amount
        /\ days2[x].success_count
             = IF x = d THEN days[x].success_count + 1 ELSE days[x].success_count

MethodSucceeds(stats2, stats, k) ==
    /\ DOMAIN stats2 = DOMAIN stats
    /\ \A x \in DOMAIN stats :
        /\ stats2[x].total_amount = stats[x].total_amount /\ stats2[x].count = stats[x].count
        /\ stats2[x].success_count
             = IF x = k THEN stats[x].success_count + 1 ELSE stats[x].success_count

Spends(buyers2, buyers, c, a) ==
    /\ DOMAIN buyers2 = DOMAIN buyers
    /\ \A x \in DOMAIN buyers :
        /\ buyers2[x].total_payments = buyers[x].total_payments
        /\ buyers2[x].total_spent
             = IF x = c THEN buyers[x].total_spent + a ELSE buyers[x].total_spent

\* A payment that is captured counts as a success of its day and its method, and its
\* customer has spent it; nothing of it was returned.
LEMMA NewSuccess ==
  ASSUME NEW days, NEW stats, NEW buyers, NEW pays, NEW refs, NEW b, NEW m, NEW B,
         Countable(days, stats, buyers, pays, refs),
         AddUp(days, stats, buyers, pays, refs, b, m, B),
         NEW p \in DOMAIN pays, pays[p].status \notin {"captured", "failed"},
         \A r \in DOMAIN refs : refs[r].payment # p,
         NEW pays2, StatusBecomes(pays2, pays, p, "captured"),
         NEW days2, DaySucceeds(days2, days, b[p]),
         NEW stats2, MethodSucceeds(stats2, stats, m[p]),
         NEW buyers2, Spends(buyers2, buyers, pays[p].customer, pays[p].amount)
  PROVE  AddUp(days2, stats2, buyers2, pays2, refs, b, m, B)
<1> USE DEF StatusBecomes, DaySucceeds, MethodSucceeds, Spends
<1> DEFINE C == In(pays, "captured")
<1>1. /\ IsFiniteSet(DOMAIN pays) /\ NaturalAmounts(pays, DOMAIN pays)
      /\ IsFiniteSet(DOMAIN refs) /\ NaturalAmounts(refs, DOMAIN refs)
  BY DEF Countable
<1>2. /\ In(pays2, "captured") = C \cup {p} /\ p \notin C /\ C \subseteq DOMAIN pays
      /\ In(pays2, "failed") = In(pays, "failed")
      /\ \A x : Bought(pays2, x) = Bought(pays, x) /\ Bought(pays, x) \subseteq DOMAIN pays
      /\ \A x : p \in Bought(pays, x) <=> x = pays[p].customer
      /\ \A f, x : /\ OfDay(pays2, f, x) = OfDay(pays, f, x) /\ OfDay(pays, f, x) \subseteq DOMAIN pays
                   /\ p \in OfDay(pays, f, x) <=> x = f[p]
  BY DEF In, Bought, OfDay
<1>3. \A T : T \subseteq DOMAIN pays => AmountSum(pays2, T) = AmountSum(pays, T)
  BY <1>1, SameAmounts
<1>4. ASSUME NEW T, T \subseteq DOMAIN pays
      PROVE  /\ T \cap (C \cup {p}) = IF p \in T THEN (T \cap C) \cup {p} ELSE T \cap C
             /\ Cardinality(T \cap C) \in Nat /\ AmountSum(pays, T \cap C) \in Nat
             /\ Cardinality((T \cap C) \cup {p}) = Cardinality(T \cap C) + 1
             /\ AmountSum(pays, (T \cap C) \cup {p}) = AmountSum(pays, T \cap C) + pays[p].amount
             /\ Returned(refs, (T \cap C) \cup {p}) = Returned(refs, T \cap C)
  <2>1. T \cap C \subseteq DOMAIN pays /\ p \in DOMAIN pays /\ p \notin T \cap C
    BY <1>2
  <2>2. Cardinality(T \cap C) \in Nat /\ AmountSum(pays, T \cap C) \in Nat
    BY ONLY <1>1, <2>1, PartOfRows
  <2>3. /\ Cardinality((T \cap C) \cup {p}) = Cardinality(T \cap C) + 1
        /\ AmountSum(pays, (T \cap C) \cup {p}) = AmountSum(pays, T \cap C) + pays[p].amount
    BY ONLY <1>1, <2>1, RowAdded
  <2>4. Returned(refs, (T \cap C) \cup {p}) = Returned(refs, T \cap C)
    BY DEF Returned
  <2>5. T \cap (C \cup {p}) = IF p \in T THEN (T \cap C) \cup {p} ELSE T \cap C
    OBVIOUS
  <2> QED  BY <2>2, <2>3, <2>4, <2>5
<1> HIDE DEF C
<1>5. ASSUME NEW x \in DOMAIN days
      PROVE  DayAddsUp(days2[x], pays2, OfDay(pays2, b, x), refs, BookedOn(refs, b, x, B))
  <2>1. DayAddsUp(days[x], pays, OfDay(pays, b, x), refs, BookedOn(refs, b, x, B))
    BY DEF AddUp
  <2>2. /\ OfDay(pays2, b, x) = OfDay(pays, b, x) /\ In(pays2, "captured") = C \cup {p}
        /\ In(pays2, "failed") = In(pays, "failed")
        /\ AmountSum(pays2, OfDay(pays, b, x)) = AmountSum(pays, OfDay(pays, b, x))
        /\ p \in OfDay(pays, b, x) <=> x = b[p]
    BY <1>2, <1>3
  <2>3. days2[x].success_count = Cardinality(OfDay(pays, b, x) \cap (C \cup {p}))
    <3>1. days[x].success_count = Cardinality(OfDay(pays, b, x) \cap C)
      BY <2>1 DEF DayAddsUp, C
    <3>2. OfDay(pays, b, x) \subseteq DOMAIN pays
      BY <1>2
    <3>3. /\ OfDay(pays, b, x) \cap (C \cup {p})
                = IF p \in OfDay(pays, b, x) THEN (OfDay(pays, b, x) \cap C) \cup {p}
                  ELSE OfDay(pays, b, x) \cap C
          /\ Cardinality((OfDay(pays, b, x) \cap C) \cup {p})
                = Cardinality(OfDay(pays, b, x) \cap C) + 1
      BY <1>4, <3>2
    <3>4. days2[x].success_count
            = IF x = b[p] THEN days[x].success_count + 1 ELSE days[x].success_count
      OBVIOUS
    <3> QED  BY ONLY <2>2, <3>1, <3>3, <3>4
  <2> QED  BY <2>1, <2>2, <2>3 DEF DayAddsUp
<1>6. ASSUME NEW x \in DOMAIN stats
      PROVE  StatsAddUp(stats2[x], pays2, OfDay(pays2, m, x))
  <2>1. StatsAddUp(stats[x], pays, OfDay(pays, m, x))
    BY DEF AddUp
  <2>2. /\ OfDay(pays2, m, x) = OfDay(pays, m, x) /\ In(pays2, "captured") = C \cup {p}
        /\ AmountSum(pays2, OfDay(pays, m, x)) = AmountSum(pays, OfDay(pays, m, x))
        /\ p \in OfDay(pays, m, x) <=> x = m[p]
    BY <1>2, <1>3
  <2>3. stats2[x].success_count = Cardinality(OfDay(pays, m, x) \cap (C \cup {p}))
    <3>1. stats[x].success_count = Cardinality(OfDay(pays, m, x) \cap C)
      BY <2>1 DEF StatsAddUp, C
    <3>2. OfDay(pays, m, x) \subseteq DOMAIN pays
      BY <1>2
    <3>3. /\ OfDay(pays, m, x) \cap (C \cup {p})
                = IF p \in OfDay(pays, m, x) THEN (OfDay(pays, m, x) \cap C) \cup {p}
                  ELSE OfDay(pays, m, x) \cap C
          /\ Cardinality((OfDay(pays, m, x) \cap C) \cup {p})
                = Cardinality(OfDay(pays, m, x) \cap C) + 1
      BY <1>4, <3>2
    <3>4. stats2[x].success_count
            = IF x = m[p] THEN stats[x].success_count + 1 ELSE stats[x].success_count
      OBVIOUS
    <3> QED  BY ONLY <2>2, <3>1, <3>3, <3>4
  <2> QED  BY <2>1, <2>2, <2>3 DEF StatsAddUp
<1>7. ASSUME NEW x \in DOMAIN buyers
      PROVE  BuyerAddsUp(buyers2[x], pays2, Bought(pays2, x), refs)
  <2> DEFINE P == Bought(pays, x)
  <2>1. BuyerAddsUp(buyers[x], pays, P, refs)
    BY DEF AddUp
  <2>2. /\ Bought(pays2, x) = P /\ In(pays2, "captured") = C \cup {p} /\ P \subseteq DOMAIN pays
        /\ p \in P <=> x = pays[p].customer
    BY <1>2
  <2> HIDE DEF P
  <2>3. /\ AmountSum(pays2, P \cap (C \cup {p})) = AmountSum(pays, P \cap (C \cup {p}))
        /\ AmountSum(refs, Returned(refs, P \cap C)) \in Nat /\ pays[p].amount \in Nat
    <3>1. P \cap (C \cup {p}) \subseteq DOMAIN pays /\ Returned(refs, P \cap C) \subseteq DOMAIN refs
      BY <2>2 DEF Returned
    <3>2. pays[p].amount \in Nat
      BY <1>1 DEF NaturalAmounts
    <3> QED  BY ONLY <1>1, <1>3, <3>1, <3>2, PartOfRows
  <2>4. buyers2[x].total_spent = AmountSum(pays, P \cap (C \cup {p}))
                                    - AmountSum(refs, Returned(refs, P \cap (C \cup {p})))
    <3>1. buyers[x].total_spent = AmountSum(pays, P \cap C) - AmountSum(refs, Returned(refs, P \cap C))
      BY <2>1 DEF BuyerAddsUp, C
    <3>2. /\ P \cap (C \cup {p}) = IF p \in P THEN (P \cap C) \cup {p} ELSE P \cap C
          /\ AmountSum(pays, P \cap C) \in Nat
          /\ AmountSum(pays, (P \cap C) \cup {p}) = AmountSum(pays, P \cap C) + pays[p].amount
          /\ Returned(refs, (P \cap C) \cup {p}) = Returned(refs, P \cap C)
      BY <1>4, <2>2
    <3>3. buyers2[x].total_spent = IF p \in P THEN buyers[x].total_spent + pays[p].amount
                                              ELSE buyers[x].total_spent
      BY <2>2
    <3>4. CASE p \in P
      <4>1. /\ AmountSum(pays, P \cap (C \cup {p})) = AmountSum(pays, P \cap C) + pays[p].amount
            /\ Returned(refs, P \cap (C \cup {p})) = Returned(refs, P \cap C)
            /\ buyers2[x].total_spent = buyers[x].total_spent + pays[p].amount
        BY ONLY <3>2, <3>3, <3>4
      <4> QED  BY ONLY <2>3, <3>1, <3>2, <4>1
    <3>5. CASE p \notin P
      BY ONLY <3>1, <3>2, <3>3, <3>5
    <3> QED  BY <3>4, <3>5
  <2> QED  BY <2>1, <2>2, <2>3, <2>4 DEF BuyerAddsUp
<1> QED  BY <1>5, <1>6, <1>7 DEF AddUp

DayFails(days2, days, d) ==
    /\ DOMAIN days2 = DOMAIN days
    /\ \A x \in DOMAIN days :
        /\ days2[x].total_amount = days[x].total_amount
        /\ days2[x].payment_count = days[x].payment_count
        /\ days2[x].net_revenue = days[x].net_revenue
        /\ days2[x].success_count = days[x].success_count
        /\ days2[x].refund_amount = days[x].refund_amount
        /\ days2[x].failed_count = IF x = d THEN days[x].failed_count + 1 ELSE days[x].failed_count

\* A payment that fails counts as a failure of its day, and of nothing else.
LEMMA NewFailure ==
  ASSUME NEW days, NEW stats, NEW buyers, NEW pays, NEW refs, NEW b, NEW m, NEW B,
         Countable(days, stats, buyers, pays, refs),
         AddUp(days, stats, buyers, pays, refs, b, m, B),
         NEW p \in DOMAIN pays, pays[p].status \notin {"captured", "failed"},
         NEW pays2, StatusBecomes(pays2, pays, p, "failed"),
         NEW days2, DayFails(days2, days, b[p])
  PROVE  AddUp(days2, stats, buyers, pays2, refs, b, m, B)
<1> USE DEF StatusBecomes, DayFails
<1> DEFINE F == In(pays, "failed")
<1>1. /\ IsFiniteSet(DOMAIN pays) /\ NaturalAmounts(pays, DOMAIN pays)
  BY DEF Countable
<1>2. /\ In(pays2, "failed") = F \cup {p} /\ p \notin F /\ F \subseteq DOMAIN pays
      /\ In(pays2, "captured") = In(pays, "captured")
      /\ \A x : Bought(pays2, x) = Bought(pays, x) /\ Bought(pays, x) \subseteq DOMAIN pays
      /\ \A f, x : /\ OfDay(pays2, f, x) = OfDay(pays, f, x) /\ OfDay(pays, f, x) \subseteq DOMAIN pays
                   /\ p \in OfDay(pays, f, x) <=> x = f[p]
  BY DEF In, Bought, OfDay
<1>3. \A T : T \subseteq DOMAIN pays => AmountSum(pays2, T) = AmountSum(pays, T)
  BY <1>1, SameAmounts
<1> HIDE DEF F
<1>4. ASSUME NEW x \in DOMAIN days
      PROVE  DayAddsUp(days2[x], pays2, OfDay(pays2, b, x), refs, BookedOn(refs, b, x, B))
  <2> DEFINE P == OfDay(pays, b, x)
  <2>1. DayAddsUp(days[x], pays, P, refs, BookedOn(refs, b, x, B))
    BY DEF AddUp
  <2>2. /\ OfDay(pays2, b, x) = P /\ In(pays2, "failed") = F \cup {p}
        /\ In(pays2, "captured") = In(pays, "captured") /\ AmountSum(pays2, P) = AmountSum(pays, P)
        /\ p \in P <=> x = b[p]
        /\ P \cap F \subseteq DOMAIN pays /\ p \in DOMAIN pays /\ p \notin P \cap F
    BY <1>2, <1>3
  <2> HIDE DEF P
  <2>3. days2[x].failed_count = Cardinality(P \cap (F \cup {p}))
    <3>1. days[x].failed_count = Cardinality(P \cap F)
      BY <2>1 DEF DayAddsUp, F
    <3>2. Cardinality((P \cap F) \cup {p}) = Cardinality(P \cap F) + 1
      BY ONLY <1>1, <2>2, RowAdded
    <3>3. P \cap (F \cup {p}) = IF p \in P THEN (P \cap F) \cup {p} ELSE P \cap F
      OBVIOUS
    <3>4. days2[x].failed_count
            = IF x = b[p] THEN days[x].failed_count + 1 ELSE days[x].failed_count
      OBVIOUS
    <3> QED  BY ONLY <2>2, <3>1, <3>2, <3>3, <3>4
  <2> QED  BY <2>1, <2>2, <2>3 DEF DayAddsUp
<1>5. ASSUME NEW x \in DOMAIN stats
      PROVE  StatsAddUp(stats[x], pays2, OfDay(pays2, m, x))
  <2>1. StatsAddUp(stats[x], pays, OfDay(pays, m, x))
    BY DEF AddUp
  <2>2. /\ OfDay(pays2, m, x) = OfDay(pays, m, x) /\ In(pays2, "captured") = In(pays, "captured")
        /\ AmountSum(pays2, OfDay(pays, m, x)) = AmountSum(pays, OfDay(pays, m, x))
    BY <1>2, <1>3
  <2> QED  BY ONLY <2>1, <2>2 DEF StatsAddUp
<1>6. ASSUME NEW x \in DOMAIN buyers
      PROVE  BuyerAddsUp(buyers[x], pays2, Bought(pays2, x), refs)
  <2> DEFINE P == Bought(pays, x) \cap In(pays, "captured")
  <2>1. BuyerAddsUp(buyers[x], pays, Bought(pays, x), refs)
    BY DEF AddUp
  <2>2. /\ Bought(pays2, x) = Bought(pays, x) /\ In(pays2, "captured") = In(pays, "captured")
        /\ AmountSum(pays2, P) = AmountSum(pays, P)
    BY <1>2, <1>3
  <2> QED  BY ONLY <2>1, <2>2 DEF BuyerAddsUp, P
<1> QED  BY <1>4, <1>5, <1>6 DEF AddUp

\* What is returned goes off a day's revenue and off what a customer has spent.
DayReturned(days2, days, d, a) ==
    /\ DOMAIN days2 = DOMAIN days
    /\ \A x \in DOMAIN days :
        IF x = d THEN DayReturns(days2[x], days[x], a) ELSE days2[x] = days[x]

TakesBack(buyers2, buyers, c, a) ==
    /\ DOMAIN buyers2 = DOMAIN buyers
    /\ \A x \in DOMAIN buyers :
        /\ buyers2[x].total_payments = buyers[x].total_payments
        /\ buyers2[x].total_spent
             = IF x = c THEN buyers[x].total_spent - a ELSE buyers[x].total_spent

\* A refund goes off the revenue of its own day, when that has a row, and off what
\* the customer of its captured payment has spent.
LEMMA NewReturn ==
  ASSUME NEW days, NEW stats, NEW buyers, NEW pays, NEW refs, NEW b, NEW m, NEW B,
         Countable(days, stats, buyers, pays, refs),
         AddUp(days, stats, buyers, pays, refs, b, m, B),
         NEW p \in DOMAIN pays, pays[p].status = "captured",
         NEW r, r \notin DOMAIN refs, NEW refs2, Opened(refs2, refs, r),
         refs2[r].payment = p, NEW a \in Nat, refs2[r].amount = a,
         r \in B <=> b[r] \in DOMAIN days,
         NEW days2, DayReturned(days2, days, b[r], a),
         NEW buyers2, TakesBack(buyers2, buyers, pays[p].customer, a)
  PROVE  AddUp(days2, stats, buyers2, pays, refs2, b, m, B)
<1> USE DEF Opened, DayReturned, DayReturns, TakesBack
<1>0. \A q \in DOMAIN refs : refs2[q] = refs[q] /\ q # r
  OBVIOUS
<1>1. /\ IsFiniteSet(DOMAIN pays) /\ NaturalAmounts(pays, DOMAIN pays)
      /\ IsFiniteSet(DOMAIN refs) /\ NaturalAmounts(refs, DOMAIN refs)
  BY DEF Countable
<1>2. IsFiniteSet(DOMAIN refs2) /\ NaturalAmounts(refs2, DOMAIN refs2)
  BY <1>1, FS_AddElement DEF NaturalAmounts
<1>3. \A T : T \subseteq DOMAIN refs => AmountSum(refs2, T) = AmountSum(refs, T)
  BY <1>1, SameAmounts
<1>4. ASSUME NEW T, T \subseteq DOMAIN refs
      PROVE  /\ AmountSum(refs2, T \cup {r}) = AmountSum(refs, T) + a
             /\ AmountSum(refs2, T) = AmountSum(refs, T) /\ AmountSum(refs, T) \in Nat
  <2>1. T \subseteq DOMAIN refs2 /\ r \in DOMAIN refs2 /\ r \notin T
    BY <1>4
  <2>2. AmountSum(refs2, T \cup {r}) = AmountSum(refs2, T) + refs2[r].amount
    BY ONLY <1>2, <2>1, RowAdded
  <2>3. AmountSum(refs, T) \in Nat
    BY ONLY <1>1, <1>4, PartOfRows
  <2> QED  BY <1>3, <1>4, <2>2, <2>3
<1>5. ASSUME NEW x \in DOMAIN days
      PROVE  DayAddsUp(days2[x], pays, OfDay(pays, b, x), refs2, BookedOn(refs2, b, x, B))
  <2> DEFINE R == BookedOn(refs, b, x, B)
  <2>1. DayAddsUp(days[x], pays, OfDay(pays, b, x), refs, R)
    BY DEF AddUp
  <2>2. R \subseteq DOMAIN refs /\ BookedOn(refs2, b, x, B) = IF x = b[r] THEN R \cup {r} ELSE R
    BY DEF BookedOn
  <2> HIDE DEF R
  <2>3. /\ AmountSum(refs2, R \cup {r}) = AmountSum(refs, R) + a
        /\ AmountSum(refs2, R) = AmountSum(refs, R) /\ AmountSum(refs, R) \in Nat
    BY <1>4, <2>2
  <2>4. /\ days[x].total_amount \in Int /\ days[x].refund_amount \in Int
        /\ days[x].net_revenue \in Int /\ a \in Int
    BY DEF Countable, Days
  <2>5. /\ days[x].net_revenue = days[x].total_amount - days[x].refund_amount
        /\ days[x].refund_amount = AmountSum(refs, R)
    BY <2>1 DEF DayAddsUp
  <2>6. /\ days2[x].total_amount = days[x].total_amount
        /\ days2[x].net_revenue
             = IF x = b[r] THEN days[x].net_revenue - a ELSE days[x].net_revenue
        /\ days2[x].refund_amount
             = IF x = b[r] THEN days[x].refund_amount + a ELSE days[x].refund_amount
    OBVIOUS
  <2>7. /\ days2[x].net_revenue = days2[x].total_amount - days2[x].refund_amount
        /\ days2[x].refund_amount = AmountSum(refs2, BookedOn(refs2, b, x, B))
    <3>1. CASE x = b[r]
      BY ONLY <2>2, <2>3, <2>4, <2>5, <2>6, <3>1
    <3>2. CASE x # b[r]
      BY ONLY <2>2, <2>3, <2>4, <2>5, <2>6, <3>2
    <3> QED  BY <3>1, <3>2
  <2> QED  BY <2>1, <2>7 DEF DayAddsUp
<1>6. ASSUME NEW x \in DOMAIN buyers
      PROVE  BuyerAddsUp(buyers2[x], pays, Bought(pays, x), refs2)
  <2> DEFINE P == Bought(pays, x) \cap In(pays, "captured")
             R == Returned(refs, P)
  <2>1. BuyerAddsUp(buyers[x], pays, Bought(pays, x), refs)
    BY DEF AddUp
  <2>2. /\ R \subseteq DOMAIN refs /\ P \subseteq DOMAIN pays
        /\ Returned(refs2, P) = IF x = pays[p].customer THEN R \cup {r} ELSE R
    <3>1. R \subseteq DOMAIN refs /\ P \subseteq DOMAIN pays /\ (p \in P <=> x = pays[p].customer)
      BY DEF Returned, Bought, In
    <3> HIDE DEF P
    <3>2. Returned(refs2, P) = IF p \in P THEN R \cup {r} ELSE R
      BY DEF Returned
    <3> QED  BY <3>1, <3>2
  <2>3. /\ AmountSum(refs2, R \cup {r}) = AmountSum(refs, R) + a
        /\ AmountSum(refs2, R) = AmountSum(refs, R) /\ AmountSum(refs, R) \in Nat
    BY <1>4, <2>2
  <2>4. AmountSum(pays, P) \in Nat /\ a \in Nat
    BY ONLY <1>1, <2>2, PartOfRows
  <2>5. buyers[x].total_spent = AmountSum(pays, P) - AmountSum(refs, R)
    BY <2>1 DEF BuyerAddsUp
  <2>6. buyers2[x].total_spent
          = IF x = pays[p].customer THEN buyers[x].total_spent - a ELSE buyers[x].total_spent
    OBVIOUS
  <2> HIDE DEF P, R
  <2>7. buyers2[x].total_spent = AmountSum(pays, P) - AmountSum(refs2, Returned(refs2, P))
    <3>1. CASE x = pays[p].customer
      BY <2>2, <2>3, <2>4, <2>5, <2>6, <3>1
    <3>2. CASE x # pays[p].customer
      BY <2>2, <2>3, <2>5, <2>6, <3>2
    <3> QED  BY <3>1, <3>2
  <2> QED  BY <2>1, <2>7 DEF BuyerAddsUp, P
<1> QED  BY <1>5, <1>6 DEF AddUp

-----------------------------------------------------------------------------
(* The handlers, one by one.                                               *)

\* The event may be applied, and leaves the feed.
Due(e) ==
    /\ ReadInv /\ e \in FeedEvents /\ Happened(e) /\ CanCome(e)
    /\ UNCHANGED <<lifecycle, columns, profile, dropped>>

LEMMA WriteSideStays ==
  ASSUME NEW e, Due(e)
  PROVE  /\ UNCHANGED <<customer, status, owner, amount, refund, name, method, born, today, booked,
                        merchant, text, dropped>>
         /\ ReadTypeOK /\ TotalsTypeOK /\ WriteSound /\ RowsSound /\ NeverAhead /\ NamesAgree
  BY DEF Due, lifecycle, columns, profile, ReadInv

LEMMA AmountsAreNumbers == \A a \in Amounts \cup {0} : a \in Nat /\ a \in Int
  BY ReadAmountsAssumption

LEMMA TablesCount ==
  ASSUME ReadTypeOK, TotalsTypeOK, RowsSound
  PROVE  Countable(daily_revenue, payment_method_stats, customers, payments, refunds)
<1>1. \A a \in Amounts : a \in Nat
  BY AmountsAreNumbers
<1>2. NaturalAmounts(payments, DOMAIN payments) /\ NaturalAmounts(refunds, DOMAIN refunds)
  BY <1>1 DEF ReadTypeOK, NaturalAmounts
<1>3. \A c \in DOMAIN customers :
        customers[c].total_payments \in Int /\ customers[c].total_spent \in Int
  BY DEF ReadTypeOK
<1> QED  BY <1>2, <1>3 DEF Countable, TotalsTypeOK, RowsSound, Days, Stats

LEMMA MerchantCreatedHandled ==
  ASSUME NEW e, Due(e), e.type = "merchant.created", _sync_merchant_created(e.value)
  PROVE  Handles(e)
<1> USE ReadIdsAssumption
<1>1. /\ UNCHANGED <<customer, status, owner, amount, refund, name, method, born, today, booked,
                     merchant, text, dropped>>
      /\ ReadTypeOK /\ TotalsTypeOK /\ WriteSound /\ RowsSound /\ NeverAhead /\ NamesAgree
      /\ merchant # None /\ e \in FeedEvents /\ e.id = None /\ e.value \in Names
  BY WriteSideStays, EventKinds DEF Due, Happened, MerchantNames
<1>2. /\ DOMAIN merchants' = {None} /\ merchants'[None] = e.value
      /\ merchants' = [m \in {None} |-> e.value]
      /\ UNCHANGED <<customers, payments, refunds, daily_revenue, payment_method_stats>>
  BY <1>1 DEF _sync_merchant_created, Upsert, OnlyMerchants, ReadTypeOK, PartialOn
<1>3. TotalsTypeOK' /\ RowsSound' /\ NeverAhead' /\ NamesAgree'
  BY <1>1, <1>2 DEF TotalsTypeOK, RowsSound, NeverAhead, NamesAgree
<1>4. Len(feed') <= MaxLag => ReadTypeOK'
  BY <1>1, <1>2 DEF ReadTypeOK, PartialOn
<1>5. \A f \in FeedEvents : CanCome(f) /\ ~TooLate(e, f) => CanCome(f)'
  BY <1>1, <1>2, EventKinds DEF CanCome, TooLate, Creations, MerchantNames
<1>6. TotalsReady => TotalsReady'
  BY <1>1, <1>2 DEF TotalsReady
<1>7. ShowsAll(e)
  BY <1>1, <1>2 DEF ShowsAll, Saying, Telling, Showing, Setting, MerchantNames, CustomerNames,
      PaymentTexts, StatusTypes, RefundStates
<1>8. TotalsNow => TotalsNow'
  BY <1>1, <1>2 DEF TotalsNow
<1> QED  BY <1>3, <1>4, <1>5, <1>6, <1>7, <1>8 DEF Handles

LEMMA MerchantUpdatedHandled ==
  ASSUME NEW e, Due(e), e.type = "merchant.updated", _sync_merchant_updated(e.value)
  PROVE  Handles(e)
<1> USE ReadIdsAssumption
<1>1. /\ UNCHANGED <<customer, status, owner, amount, refund, name, method, born, today, booked,
                     merchant, text, dropped>>
      /\ ReadTypeOK /\ TotalsTypeOK /\ WriteSound /\ RowsSound /\ NeverAhead /\ NamesAgree
      /\ merchant # None /\ e \in FeedEvents /\ e.id = None /\ e.value \in Names
  BY WriteSideStays, EventKinds DEF Due, Happened, MerchantNames
<1>0. /\ merchants' = [m \in DOMAIN merchants |-> IF m \in {None} THEN e.value ELSE merchants[m]]
      /\ UNCHANGED <<customers, payments, refunds, daily_revenue, payment_method_stats>>
  BY DEF _sync_merchant_updated, Update, OnlyMerchants
<1>2. /\ DOMAIN merchants' = DOMAIN merchants /\ \A m \in DOMAIN merchants' : merchants'[m] = e.value
      /\ None \in DOMAIN merchants => merchants' = [m \in {None} |-> e.value]
      /\ UNCHANGED <<customers, payments, refunds, daily_revenue, payment_method_stats>>
  <2>1. DOMAIN merchants \subseteq {None}
    BY <1>1 DEF ReadTypeOK, PartialOn
  <2>2. None \in DOMAIN merchants => DOMAIN merchants = {None}
    BY <2>1
  <2> QED  BY <1>0, <2>1, <2>2
<1>3. TotalsTypeOK' /\ RowsSound' /\ NeverAhead' /\ NamesAgree'
  BY <1>1, <1>2 DEF TotalsTypeOK, RowsSound, NeverAhead, NamesAgree
<1>4. Len(feed') <= MaxLag => ReadTypeOK'
  BY <1>1, <1>2 DEF ReadTypeOK, PartialOn
<1>5. \A f \in FeedEvents : CanCome(f) /\ ~TooLate(e, f) => CanCome(f)'
  BY <1>1, <1>2 DEF CanCome
<1>6. TotalsReady => TotalsReady'
  BY <1>1, <1>2 DEF TotalsReady
<1>7. Ready(e) => ShowsAll(e)
  BY <1>1, <1>2 DEF ShowsAll, Saying, Telling, Showing, Setting, MerchantNames, CustomerNames,
      PaymentTexts, StatusTypes, RefundStates, Ready
<1>8. TotalsNow => TotalsNow'
  BY <1>1, <1>2 DEF TotalsNow
<1> QED  BY <1>3, <1>4, <1>5, <1>6, <1>7, <1>8 DEF Handles

LEMMA CustomerCreatedHandled ==
  ASSUME NEW e, Due(e), e.type = "customer.created", _sync_customer_created(e.id, e.value)
  PROVE  Handles(e)
<1> USE ReadIdsAssumption
<1> DEFINE c == e.id
<1>1. /\ UNCHANGED <<customer, status, owner, amount, refund, name, method, born, today, booked,
                     merchant, text, dropped>>
      /\ ReadTypeOK /\ TotalsTypeOK /\ WriteSound /\ RowsSound /\ NeverAhead /\ NamesAgree
      /\ customer[c] # "absent" /\ e \in FeedEvents /\ c \in Customers /\ e.value \in Names
      /\ c \notin DOMAIN customers /\ \A p \in DOMAIN payments : owner[p] # c
  BY WriteSideStays, EventKinds DEF Due, Happened, CustomerNames, CanCome
<1>2. /\ DOMAIN customers' = DOMAIN customers \cup {c}
      /\ customers'[c] = [name |-> e.value, total_payments |-> 0, total_spent |-> 0]
      /\ \A x \in DOMAIN customers : customers'[x] = customers[x]
      /\ UNCHANGED <<merchants, payments, refunds, daily_revenue, payment_method_stats>>
  BY <1>1 DEF _sync_customer_created, Upsert, Row
<1> HIDE DEF c
<1>3. TotalsTypeOK' /\ RowsSound' /\ NeverAhead'
  BY <1>1, <1>2 DEF TotalsTypeOK, RowsSound, NeverAhead
<1>4. NamesAgree'
  BY <1>1, <1>2 DEF NamesAgree, RowsSound
<1>5. Len(feed') <= MaxLag => ReadTypeOK'
  BY <1>1, <1>2 DEF ReadTypeOK, PartialOn
<1>6. \A f \in FeedEvents : CanCome(f) /\ ~TooLate(e, f) => CanCome(f)'
  BY <1>1, <1>2 DEF CanCome, TooLate, Creations, c
<1>7. TotalsReady => TotalsReady'
  BY <1>1, <1>2 DEF TotalsReady
<1>8. ShowsAll(e)
  BY <1>1, <1>2 DEF ShowsAll, Saying, Telling, Showing, Setting, MerchantNames, CustomerNames,
      PaymentTexts, StatusTypes, RefundStates, c
<1>9. TotalsNow => TotalsNow'
  <2>1. \A p \in DOMAIN payments : payments[p].customer # c
    BY <1>1 DEF RowsSound
  <2> QED  BY <1>1, <1>2, <2>1, NewBuyer DEF TotalsNow
<1> QED  BY <1>3, <1>4, <1>5, <1>6, <1>7, <1>8, <1>9 DEF Handles

LEMMA CustomerUpdatedHandled ==
  ASSUME NEW e, Due(e), e.type = "customer.updated", _sync_customer_updated(e.id, e.value)
  PROVE  Handles(e)
<1> USE ReadIdsAssumption
<1> DEFINE c == e.id
           theirs == {r \in DOMAIN refunds : refunds[r].payment \in PaymentsOf(c)}
<1>1. /\ UNCHANGED <<customer, status, owner, amount, refund, name, method, born, today, booked,
                     merchant, text, dropped>>
      /\ ReadTypeOK /\ TotalsTypeOK /\ WriteSound /\ RowsSound /\ NeverAhead /\ NamesAgree
      /\ e \in FeedEvents /\ c \in Customers /\ e.value \in Names
  BY WriteSideStays, EventKinds DEF Due, CustomerNames
<1>2. /\ customers' = [x \in DOMAIN customers |->
                        IF x \in {c} THEN [customers[x] EXCEPT !.name = e.value] ELSE customers[x]]
      /\ payments' = [x \in DOMAIN payments |-> IF x \in PaymentsOf(c)
                        THEN [payments[x] EXCEPT !.name = e.value] ELSE payments[x]]
      /\ refunds' = [x \in DOMAIN refunds |->
                        IF x \in theirs THEN [refunds[x] EXCEPT !.name = e.value] ELSE refunds[x]]
      /\ UNCHANGED <<merchants, daily_revenue, payment_method_stats>>
  BY DEF _sync_customer_updated, Update
<1>3. /\ DOMAIN customers' = DOMAIN customers /\ DOMAIN payments' = DOMAIN payments
      /\ DOMAIN refunds' = DOMAIN refunds
      /\ \A x \in DOMAIN customers : x # c => customers'[x] = customers[x]
      /\ c \in DOMAIN customers => customers'[c] = [customers[c] EXCEPT !.name = e.value]
      /\ \A p \in DOMAIN payments :
            payments'[p] = IF payments[p].customer = c
                           THEN [payments[p] EXCEPT !.name = e.value] ELSE payments[p]
      /\ \A r \in DOMAIN refunds :
            refunds'[r] = IF refunds[r].payment \in DOMAIN payments
                                  /\ payments[refunds[r].payment].customer = c
                          THEN [refunds[r] EXCEPT !.name = e.value] ELSE refunds[r]
  BY <1>2 DEF PaymentsOf
<1> HIDE DEF c, theirs
<1>4. /\ c \in DOMAIN customers => customers'[c] \in [name : Names, total_payments : Nat, total_spent : Int]
                                     /\ customers'[c].name = e.value
      /\ \A p \in DOMAIN payments :
            /\ payments'[p] \in [status : {"created", "authorized", "captured", "failed"},
                         customer : Customers, amount : Amounts, name : Names \cup {None}, text : Texts,
                  metadata : [json : Texts]]
            /\ payments'[p].status = payments[p].status /\ payments'[p].customer = payments[p].customer
            /\ payments'[p].amount = payments[p].amount /\ payments'[p].text = payments[p].text
            /\ payments'[p].metadata = payments[p].metadata
            /\ payments'[p].name = IF payments[p].customer = c THEN e.value ELSE payments[p].name
      /\ \A r \in DOMAIN refunds :
            /\ refunds'[r] \in [status : {"initiated", "processed"}, payment : Payments,
                        amount : Amounts, name : Names \cup {None}]
            /\ refunds'[r].status = refunds[r].status /\ refunds'[r].payment = refunds[r].payment
            /\ refunds'[r].amount = refunds[r].amount
            /\ refunds'[r].name = IF refunds[r].payment \in DOMAIN payments
                                       /\ payments[refunds[r].payment].customer = c
                                  THEN e.value ELSE refunds[r].name
  <2> DEFINE T == [status : {"created", "authorized", "captured", "failed"}, customer : Customers,
                   amount : Amounts, name : Names \cup {None}, text : Texts,
                   metadata : [json : Texts]]
             U == [status : {"initiated", "processed"}, payment : Payments, amount : Amounts,
                   name : Names \cup {None}]
             B == [name : Names, total_payments : Nat, total_spent : Int]
  <2>1. \A row \in T : LET new == [row EXCEPT !.name = e.value] IN
            /\ new \in T /\ new.name = e.value /\ new.status = row.status
            /\ new.customer = row.customer /\ new.amount = row.amount /\ new.text = row.text
            /\ new.metadata = row.metadata
    BY <1>1
  <2>2. \A row \in U : LET new == [row EXCEPT !.name = e.value] IN
            /\ new \in U /\ new.name = e.value /\ new.status = row.status
            /\ new.payment = row.payment /\ new.amount = row.amount
    BY <1>1
  <2>3. \A row \in B : LET new == [row EXCEPT !.name = e.value] IN new \in B /\ new.name = e.value
    BY <1>1
  <2>4. /\ \A x \in DOMAIN customers : customers[x] \in B
        /\ \A p \in DOMAIN payments : payments[p] \in T
        /\ \A r \in DOMAIN refunds : refunds[r] \in U
    BY <1>1 DEF ReadTypeOK
  <2> HIDE DEF T, U, B
  <2>5. c \in DOMAIN customers => customers'[c] \in B /\ customers'[c].name = e.value
    <3>1. c \in DOMAIN customers => customers'[c] = [customers[c] EXCEPT !.name = e.value]
      BY <1>3
    <3> QED  BY ONLY <2>3, <2>4, <3>1
  <2>6. \A p \in DOMAIN payments :
            /\ payments'[p] \in T
            /\ payments'[p].status = payments[p].status /\ payments'[p].customer = payments[p].customer
            /\ payments'[p].amount = payments[p].amount /\ payments'[p].text = payments[p].text
            /\ payments'[p].metadata = payments[p].metadata
            /\ payments'[p].name = IF payments[p].customer = c THEN e.value ELSE payments[p].name
    <3> TAKE p \in DOMAIN payments
    <3>1. CASE payments[p].customer = c
      <4>1. payments'[p] = [payments[p] EXCEPT !.name = e.value]
        BY <1>3, <3>1
      <4> QED  BY ONLY <2>1, <2>4, <3>1, <4>1
    <3>2. CASE payments[p].customer # c
      <4>1. payments'[p] = payments[p]
        BY <1>3, <3>2
      <4> QED  BY ONLY <2>4, <3>2, <4>1
    <3> QED  BY <3>1, <3>2
  <2>7. \A r \in DOMAIN refunds :
            /\ refunds'[r] \in U
            /\ refunds'[r].status = refunds[r].status /\ refunds'[r].payment = refunds[r].payment
            /\ refunds'[r].amount = refunds[r].amount
            /\ refunds'[r].name = IF refunds[r].payment \in DOMAIN payments
                                       /\ payments[refunds[r].payment].customer = c
                                  THEN e.value ELSE refunds[r].name
    <3> TAKE r \in DOMAIN refunds
    <3>1. CASE refunds[r].payment \in DOMAIN payments /\ payments[refunds[r].payment].customer = c
      <4>1. refunds'[r] = [refunds[r] EXCEPT !.name = e.value]
        BY <1>3, <3>1
      <4> QED  BY ONLY <2>2, <2>4, <3>1, <4>1
    <3>2. CASE ~(refunds[r].payment \in DOMAIN payments /\ payments[refunds[r].payment].customer = c)
      <4>1. refunds'[r] = refunds[r]
        BY <1>3, <3>2
      <4> QED  BY ONLY <2>4, <3>2, <4>1
    <3> QED  BY <3>1, <3>2
  <2> QED  BY <2>5, <2>6, <2>7 DEF T, U, B
<1>5. TotalsTypeOK' /\ RowsSound' /\ NeverAhead'
  <2>1. TotalsTypeOK'  BY <1>1, <1>2 DEF TotalsTypeOK
  <2>2. RowsSound'  BY <1>1, <1>2, <1>3, <1>4 DEF RowsSound
  <2>3. NeverAhead'  BY <1>1, <1>3, <1>4 DEF NeverAhead
  <2> QED  BY <2>1, <2>2, <2>3
<1>6. NamesAgree'
  BY <1>1, <1>3, <1>4 DEF NamesAgree
<1>7. Len(feed') <= MaxLag => ReadTypeOK'
  <2>1. \A x \in DOMAIN customers' :
           customers'[x] \in [name : Names, total_payments : Nat, total_spent : Int]
    BY <1>1, <1>3, <1>4 DEF ReadTypeOK
  <2>2. /\ \A p \in DOMAIN payments' : payments'[p] \in
              [status : {"created", "authorized", "captured", "failed"},
               customer : Customers, amount : Amounts, name : Names \cup {None}, text : Texts,
                  metadata : [json : Texts]]
        /\ \A r \in DOMAIN refunds' : refunds'[r] \in
              [status : {"initiated", "processed"}, payment : Payments,
               amount : Amounts, name : Names \cup {None}]
    BY <1>3, <1>4
  <2> QED  BY <1>1, <1>2, <1>3, <2>1, <2>2 DEF ReadTypeOK, PartialOn
<1>8. \A f \in FeedEvents : CanCome(f) => CanCome(f)'
  BY <1>1, <1>2, <1>3, <1>4 DEF CanCome
<1>9. TotalsReady => TotalsReady'
  BY <1>1, <1>2, <1>3, <1>4 DEF TotalsReady
<1>10. Ready(e) => ShowsAll(e)
  <2>1. /\ \A x : e \notin Telling(MerchantNames, x) /\ e \notin Telling(PaymentTexts, x)
               /\ e \notin Telling(StatusTypes, x) /\ e \notin Telling(RefundStates, x)
        /\ \A x \in Customers : x # c => e \notin Telling(CustomerNames, x)
        /\ \A x, y : /\ e \notin Saying(MerchantNames, x, y) /\ e \notin Saying(PaymentTexts, x, y)
                     /\ e \notin Showing(x, y) /\ e \notin Setting(x, y)
                     /\ x # c => e \notin Saying(CustomerNames, x, y)
        /\ \A y : e \in Saying(CustomerNames, c, y) => e.value = y
        /\ e \in Telling(CustomerNames, c)
    BY <1>1 DEF Saying, Telling, Showing, Setting, MerchantNames, CustomerNames, PaymentTexts,
        StatusTypes, RefundStates, c
  <2> QED
    BY <1>1, <1>2, <1>3, <1>4, <2>1 DEF ShowsAll, Ready, c
<1>11. TotalsNow => TotalsNow'
  <2>1. Countable(daily_revenue, payment_method_stats, customers, payments, refunds)
    BY <1>1, TablesCount
  <2>2. \A x \in DOMAIN customers : /\ customers'[x].total_payments = customers[x].total_payments
                                     /\ customers'[x].total_spent = customers[x].total_spent
    BY <1>1, <1>3 DEF ReadTypeOK
  <2> QED  BY <1>1, <1>2, <1>3, <1>4, <2>1, <2>2, EditsDoNotCount DEF TotalsNow
<1> QED  BY <1>5, <1>6, <1>7, <1>8, <1>9, <1>10, <1>11 DEF Handles

LEMMA CustomerDeletedHandled ==
  ASSUME NEW e, Due(e), e.type = "customer.deleted", _sync_customer_deleted(e.id)
  PROVE  Handles(e)
<1> USE ReadIdsAssumption
<1> DEFINE c == e.id
<1>1. /\ UNCHANGED <<customer, status, owner, amount, refund, name, method, born, today, booked,
                     merchant, text, dropped>>
      /\ ReadTypeOK /\ TotalsTypeOK /\ WriteSound /\ RowsSound /\ NeverAhead /\ NamesAgree
      /\ e \in FeedEvents /\ c \in Customers /\ customer[c] = "deleted"
  BY WriteSideStays, EventKinds DEF Due, Happened
<1>2. /\ DOMAIN customers' = DOMAIN customers \ {c}
      /\ \A x \in DOMAIN customers' : customers'[x] = customers[x]
      /\ UNCHANGED <<merchants, payments, refunds, daily_revenue, payment_method_stats>>
  BY DEF _sync_customer_deleted
<1> HIDE DEF c
<1>3. TotalsTypeOK' /\ RowsSound' /\ NeverAhead'
  BY <1>1, <1>2 DEF TotalsTypeOK, RowsSound, NeverAhead
<1>4. NamesAgree'
  BY <1>1, <1>2 DEF NamesAgree
<1>5. Len(feed') <= MaxLag => ReadTypeOK'
  BY <1>1, <1>2 DEF ReadTypeOK, PartialOn
<1>6. \A f \in FeedEvents : CanCome(f) => CanCome(f)'
  BY <1>1, <1>2 DEF CanCome
<1>7. TotalsReady => TotalsReady'
  BY <1>1, <1>2 DEF TotalsReady
<1>8. ShowsAll(e)
  BY <1>1, <1>2 DEF ShowsAll, Saying, Telling, Showing, Setting, MerchantNames, CustomerNames,
      PaymentTexts, StatusTypes, RefundStates, c
<1>9. TotalsNow => TotalsNow'
  <2>1. Countable(daily_revenue, payment_method_stats, customers, payments, refunds)
    BY <1>1, TablesCount
  <2> QED  BY <1>1, <1>2, <2>1, EditsDoNotCount DEF TotalsNow
<1> QED  BY <1>3, <1>4, <1>5, <1>6, <1>7, <1>8, <1>9 DEF Handles

LEMMA PaymentUpdatedHandled ==
  ASSUME NEW e, Due(e), e.type = "payment.updated", _sync_payment_updated(e.id, e.value)
  PROVE  Handles(e)
<1> USE ReadIdsAssumption
<1> DEFINE p == e.id
<1>1. /\ UNCHANGED <<customer, status, owner, amount, refund, name, method, born, today, booked,
                     merchant, text, dropped>>
      /\ ReadTypeOK /\ TotalsTypeOK /\ WriteSound /\ RowsSound /\ NeverAhead /\ NamesAgree
      /\ e \in FeedEvents /\ p \in Payments /\ e.value \in Texts
  BY WriteSideStays, EventKinds DEF Due, PaymentTexts
<1>2. UNCHANGED <<merchants, customers, refunds, daily_revenue, payment_method_stats>>
  BY DEF _sync_payment_updated
<1> HIDE DEF p
<1>3. /\ DOMAIN payments' = DOMAIN payments
      /\ \A q \in DOMAIN payments :
            /\ payments'[q] \in [status : {"created", "authorized", "captured", "failed"},
                         customer : Customers, amount : Amounts, name : Names \cup {None}, text : Texts,
                  metadata : [json : Texts]]
            /\ payments'[q].status = payments[q].status /\ payments'[q].customer = payments[q].customer
            /\ payments'[q].amount = payments[q].amount /\ payments'[q].name = payments[q].name
            /\ payments'[q].text = IF q = p THEN e.value ELSE payments[q].text
            /\ payments'[q].metadata = IF q = p THEN Dumps(e.value) ELSE payments[q].metadata
  <2>0. payments' = [q \in DOMAIN payments |->
                        IF q \in {p} THEN [payments[q] EXCEPT !.text = e.value,
                                                               !.metadata = Dumps(e.value)]
                        ELSE payments[q]]
    BY DEF _sync_payment_updated, Update, p
  <2> DEFINE T == [status : {"created", "authorized", "captured", "failed"}, customer : Customers,
                   amount : Amounts, name : Names \cup {None}, text : Texts,
                   metadata : [json : Texts]]
             x == e.value  y == Dumps(e.value)
  <2>1. x \in Texts /\ y \in [json : Texts]
    BY <1>1 DEF Dumps
  <2> HIDE DEF x, y
  <2>2. \A row \in T : LET new == [row EXCEPT !.text = x, !.metadata = y] IN
            /\ new \in T /\ new.status = row.status /\ new.customer = row.customer
            /\ new.amount = row.amount /\ new.name = row.name /\ new.text = x /\ new.metadata = y
    BY <2>1
  <2>3. \A q \in DOMAIN payments : payments[q] \in T
    BY <1>1 DEF ReadTypeOK
  <2> HIDE DEF T
  <2>4. \A q \in DOMAIN payments :
           payments'[q] = IF q = p THEN [payments[q] EXCEPT !.text = x, !.metadata = y]
                          ELSE payments[q]
    BY <2>0 DEF x, y
  <2>5. \A q \in DOMAIN payments :
            /\ payments'[q] \in T
            /\ payments'[q].status = payments[q].status /\ payments'[q].customer = payments[q].customer
            /\ payments'[q].amount = payments[q].amount /\ payments'[q].name = payments[q].name
            /\ payments'[q].text = IF q = p THEN x ELSE payments[q].text
            /\ payments'[q].metadata = IF q = p THEN y ELSE payments[q].metadata
    <3> TAKE q \in DOMAIN payments
    <3>1. CASE q = p
      <4>1. payments'[q] = [payments[q] EXCEPT !.text = x, !.metadata = y]
        BY <2>4, <3>1
      <4>2. payments[q] \in T
        BY <2>3
      <4>3. LET new == [payments[q] EXCEPT !.text = x, !.metadata = y] IN
            /\ new \in T /\ new.status = payments[q].status /\ new.customer = payments[q].customer
            /\ new.amount = payments[q].amount /\ new.name = payments[q].name
            /\ new.text = x /\ new.metadata = y
        BY ONLY <2>2, <4>2
      <4> QED  BY ONLY <3>1, <4>1, <4>3
    <3>2. CASE q # p
      <4>1. payments'[q] = payments[q]
        BY <2>4, <3>2
      <4> QED  BY ONLY <2>3, <3>2, <4>1
    <3> QED  BY <3>1, <3>2
  <2>6. DOMAIN payments' = DOMAIN payments
    BY <2>0
  <2> QED  BY <2>5, <2>6 DEF T, x, y
<1>4. TotalsTypeOK' /\ RowsSound' /\ NeverAhead'
  BY <1>1, <1>2, <1>3 DEF TotalsTypeOK, RowsSound, NeverAhead
<1>5. NamesAgree'
  BY <1>1, <1>2, <1>3 DEF NamesAgree
<1>6. Len(feed') <= MaxLag => ReadTypeOK'
  BY <1>1, <1>2, <1>3 DEF ReadTypeOK, PartialOn
<1>7. \A f \in FeedEvents : CanCome(f) => CanCome(f)'
  BY <1>1, <1>2, <1>3 DEF CanCome
<1>8. TotalsReady => TotalsReady'
  BY <1>1, <1>2, <1>3 DEF TotalsReady, ReadTypeOK
<1>9. Ready(e) => ShowsAll(e)
  BY <1>1, <1>2, <1>3 DEF ShowsAll, Saying, Telling, Showing, Setting, MerchantNames,
      CustomerNames, PaymentTexts, StatusTypes, RefundStates, Ready, p
<1>10. TotalsNow => TotalsNow'
  <2>1. Countable(daily_revenue, payment_method_stats, customers, payments, refunds)
    BY <1>1, TablesCount
  <2> QED  BY <1>1, <1>2, <1>3, <2>1, EditsDoNotCount DEF TotalsNow
<1> QED  BY <1>4, <1>5, <1>6, <1>7, <1>8, <1>9, <1>10 DEF Handles

\* What setting a status does to the payments.
LEMMA StatusSet ==
  ASSUME ReadTypeOK, NEW p, NEW s \in {"authorized", "captured", "failed"}, SetStatus(p, s)
  PROVE  /\ DOMAIN payments' = DOMAIN payments
         /\ \A q \in DOMAIN payments :
            /\ payments'[q] \in [status : {"created", "authorized", "captured", "failed"},
                         customer : Customers, amount : Amounts, name : Names \cup {None}, text : Texts,
                  metadata : [json : Texts]]
            /\ payments'[q].text = payments[q].text /\ payments'[q].customer = payments[q].customer
            /\ payments'[q].metadata = payments[q].metadata
            /\ payments'[q].amount = payments[q].amount /\ payments'[q].name = payments[q].name
            /\ payments'[q].status = IF q = p THEN s ELSE payments[q].status
<1> DEFINE T == [status : {"created", "authorized", "captured", "failed"},
                 customer : Customers, amount : Amounts, name : Names \cup {None}, text : Texts,
                  metadata : [json : Texts]]
<1>1. \A row \in T :
         /\ [row EXCEPT !.status = s] \in T /\ [row EXCEPT !.status = s].status = s
         /\ [row EXCEPT !.status = s].text = row.text
         /\ [row EXCEPT !.status = s].metadata = row.metadata
         /\ [row EXCEPT !.status = s].customer = row.customer
         /\ [row EXCEPT !.status = s].amount = row.amount
         /\ [row EXCEPT !.status = s].name = row.name
  OBVIOUS
<1>2. \A q \in DOMAIN payments : payments[q] \in T
  BY DEF ReadTypeOK
<1>3. payments' = [x \in DOMAIN payments |->
                     IF x \in {p} THEN [payments[x] EXCEPT !.status = s] ELSE payments[x]]
  BY DEF SetStatus, Update
<1> HIDE DEF T
<1>4. DOMAIN payments' = DOMAIN payments
  BY <1>3
<1>5. ASSUME NEW q \in DOMAIN payments
      PROVE  /\ payments'[q] \in T
             /\ payments'[q].text = payments[q].text /\ payments'[q].customer = payments[q].customer
            /\ payments'[q].metadata = payments[q].metadata
             /\ payments'[q].amount = payments[q].amount /\ payments'[q].name = payments[q].name
             /\ payments'[q].status = IF q = p THEN s ELSE payments[q].status
  <2>1. CASE q = p
    <3>1. payments'[q] = [payments[q] EXCEPT !.status = s]
      BY <1>3, <2>1
    <3> QED  BY <1>1, <1>2, <2>1, <3>1
  <2>2. CASE q # p
    BY <1>2, <1>3, <2>2
  <2> QED  BY <2>1, <2>2
<1> QED  BY <1>4, <1>5 DEF T

\* Setting a payment's status, whatever becomes of the totals.
LEMMA StatusHandled ==
  ASSUME NEW e, Due(e), e.type \in StatusTypes, e.type # "payment.created",
         SetStatus(e.id, StatusOf(e.type)), UNCHANGED <<merchants, refunds>>, TotalsTypeOK',
         DOMAIN daily_revenue' = DOMAIN daily_revenue,
         DOMAIN payment_method_stats' = DOMAIN payment_method_stats,
         DOMAIN customers' = DOMAIN customers,
         \A c \in DOMAIN customers :
            /\ customers'[c] \in [name : Names, total_payments : Nat, total_spent : Int]
            /\ customers'[c].name = customers[c].name,
         TotalsReady /\ Ready(e) /\ TotalsNow => TotalsNow'
  PROVE  Handles(e)
<1> USE ReadIdsAssumption
<1> DEFINE p == e.id
           s == StatusOf(e.type)
<1>1. /\ UNCHANGED <<customer, status, owner, amount, refund, name, method, born, today, booked,
                     merchant, text, dropped>>
      /\ ReadTypeOK /\ TotalsTypeOK /\ WriteSound /\ RowsSound /\ NeverAhead /\ NamesAgree
      /\ e \in FeedEvents /\ p \in Payments /\ s \in History(status[p])
      /\ p \in DOMAIN payments => s \notin History(payments[p].status)
  BY WriteSideStays, EventKinds DEF Due, StatusTypes, Happened, CanCome
<1>2. s \in {"authorized", "captured", "failed"}
  BY DEF StatusOf, StatusTypes
<1> HIDE DEF p, s
<1>4. /\ DOMAIN payments' = DOMAIN payments
      /\ \A q \in DOMAIN payments :
            /\ payments'[q] \in [status : {"created", "authorized", "captured", "failed"},
                         customer : Customers, amount : Amounts, name : Names \cup {None}, text : Texts,
                  metadata : [json : Texts]]
            /\ payments'[q].text = payments[q].text /\ payments'[q].customer = payments[q].customer
            /\ payments'[q].metadata = payments[q].metadata
            /\ payments'[q].amount = payments[q].amount /\ payments'[q].name = payments[q].name
            /\ payments'[q].status = IF q = p THEN s ELSE payments[q].status
  BY <1>1, <1>2, StatusSet DEF p, s
<1>5. RowsSound'
  BY <1>1, <1>4 DEF RowsSound
<1>6. NeverAhead'
  BY <1>1, <1>4 DEF NeverAhead
<1>7. NamesAgree'
  BY <1>1, <1>4 DEF NamesAgree, RowsSound, ReadTypeOK
<1>8. Len(feed') <= MaxLag => ReadTypeOK'
  <2>1. \A q \in DOMAIN payments' : payments'[q] \in
              [status : {"created", "authorized", "captured", "failed"},
               customer : Customers, amount : Amounts, name : Names \cup {None}, text : Texts,
                  metadata : [json : Texts]]
    BY <1>4
  <2> QED  BY <1>1, <1>4, <2>1 DEF ReadTypeOK, PartialOn
<1>9. ASSUME NEW f \in FeedEvents, CanCome(f), ~TooLate(e, f)  PROVE CanCome(f)'
  <2>1. f.type \in StatusTypes /\ f.id = p => StatusOf(f.type) \notin History(s)
    BY <1>9 DEF TooLate, p, s
  <2> QED  BY <1>1, <1>4, <1>9, <2>1 DEF CanCome
<1>10. TotalsReady => TotalsReady'
  <2>1. p \in DOMAIN payments /\ payments[p].status = "captured" => FALSE
    BY <1>1, <1>2 DEF NeverAhead, History
  <2> QED  BY <1>1, <1>4, <2>1 DEF TotalsReady
<1>11. Ready(e) => ShowsAll(e)
  <2>1. /\ \A x : e \notin Telling(MerchantNames, x) /\ e \notin Telling(PaymentTexts, x)
               /\ e \notin Telling(CustomerNames, x) /\ e \notin Telling(RefundStates, x)
        /\ \A x, y : /\ e \notin Saying(MerchantNames, x, y) /\ e \notin Saying(PaymentTexts, x, y)
                     /\ e \notin Saying(CustomerNames, x, y) /\ e \notin Setting(x, y)
                     /\ x # p => e \notin Showing(x, y)
        /\ \A y : e \in Showing(p, y) => s = y
        /\ e \in Telling(StatusTypes, p)
        /\ e.type \notin Creations /\ e.type # "customer.deleted"
    BY <1>1 DEF Saying, Telling, Showing, Setting, MerchantNames, CustomerNames, PaymentTexts,
        StatusTypes, RefundStates, Creations, p, s
  <2>2. Ready(e) => p \in DOMAIN payments
    BY DEF Ready, p
  <2> QED
    BY <1>1, <1>4, <2>1, <2>2 DEF ShowsAll, Creations
<1> QED  BY <1>5, <1>6, <1>7, <1>8, <1>9, <1>10, <1>11 DEF Handles

\* A payment that can still be authorized, captured or declined was neither captured
\* nor declined.
UnderWay(p) == p \in DOMAIN payments /\ payments[p].status \notin {"captured", "failed"}

LEMMA StatusIsNew ==
  ASSUME NEW e, Due(e), Ready(e), e.type \in StatusTypes, e.type # "payment.created"
  PROVE  UnderWay(e.id)
<1>1. e.id \in DOMAIN payments
  BY DEF Ready
<1>2. payments[e.id].status \in History(status[e.id])
  BY <1>1, WriteSideStays DEF NeverAhead
<1>3. /\ StatusOf(e.type) \in History(status[e.id])
      /\ StatusOf(e.type) \notin History(payments[e.id].status)
  BY <1>1 DEF Due, Happened, CanCome
<1>4. StatusOf(e.type) \in {"authorized", "captured", "failed"}
  BY DEF StatusTypes, StatusOf
<1> QED  BY <1>1, <1>2, <1>3, <1>4 DEF History, UnderWay

LEMMA PaymentAuthorizedHandled ==
  ASSUME NEW e, Due(e), e.type = "payment.authorized", _sync_payment_authorized(e.id)
  PROVE  Handles(e)
<1>1. StatusOf(e.type) = "authorized" /\ e.type \in StatusTypes /\ e.type # "payment.created"
  BY DEF StatusOf, StatusTypes
<1>2. ReadTypeOK /\ TotalsTypeOK
  BY WriteSideStays
<1>3. /\ SetStatus(e.id, StatusOf(e.type))
      /\ UNCHANGED <<merchants, customers, refunds, daily_revenue, payment_method_stats>>
  BY <1>1 DEF _sync_payment_authorized
<1>4. TotalsTypeOK'
  BY <1>2, <1>3 DEF TotalsTypeOK
<1>5. \A c \in DOMAIN customers :
            /\ customers'[c] \in [name : Names, total_payments : Nat, total_spent : Int]
            /\ customers'[c].name = customers[c].name
  BY <1>2, <1>3 DEF ReadTypeOK
<1>6. TotalsReady /\ Ready(e) /\ TotalsNow => TotalsNow'
  <2> SUFFICES ASSUME Ready(e), TotalsNow  PROVE TotalsNow'
    OBVIOUS
  <2>1. UnderWay(e.id) /\ Countable(daily_revenue, payment_method_stats, customers, payments, refunds)
    BY <1>1, TablesCount, StatusIsNew, WriteSideStays
  <2>2. /\ born' = born /\ method' = method /\ booked' = booked /\ DOMAIN payments' = DOMAIN payments
        /\ \A q \in DOMAIN payments :
              /\ payments'[q].amount = payments[q].amount
              /\ payments'[q].customer = payments[q].customer
              /\ payments'[q].status = IF q = e.id THEN "authorized" ELSE payments[q].status
    BY <1>1, <1>2, <1>3, StatusSet, WriteSideStays
  <2> QED  BY <1>3, <2>1, <2>2, EditsDoNotCount DEF TotalsNow, UnderWay
<1> QED  BY <1>1, <1>3, <1>4, <1>5, <1>6, StatusHandled

LEMMA PaymentFailedHandled ==
  ASSUME NEW e, Due(e), e.type = "payment.failed", _sync_payment_failed(e.id)
  PROVE  Handles(e)
<1> DEFINE d == born[e.id]
<1>1. StatusOf(e.type) = "failed" /\ e.type \in StatusTypes /\ e.type # "payment.created"
  BY DEF StatusOf, StatusTypes
<1>2. ReadTypeOK /\ TotalsTypeOK
  BY WriteSideStays
<1>3. /\ SetStatus(e.id, StatusOf(e.type))
      /\ UNCHANGED <<merchants, customers, refunds, payment_method_stats>>
      /\ daily_revenue' = [x \in DOMAIN daily_revenue |-> IF x \in {d}
            THEN [daily_revenue[x] EXCEPT !.failed_count = @ + 1] ELSE daily_revenue[x]]
  BY <1>1 DEF _sync_payment_failed, Update
<1> HIDE DEF d
<1>4. TotalsTypeOK' /\ DOMAIN daily_revenue' = DOMAIN daily_revenue
  BY <1>2, <1>3 DEF TotalsTypeOK
<1>5. \A c \in DOMAIN customers :
            /\ customers'[c] \in [name : Names, total_payments : Nat, total_spent : Int]
            /\ customers'[c].name = customers[c].name
  BY <1>2, <1>3 DEF ReadTypeOK
<1>6. TotalsReady /\ Ready(e) /\ TotalsNow => TotalsNow'
  <2> SUFFICES ASSUME Ready(e), TotalsNow  PROVE TotalsNow'
    OBVIOUS
  <2>1. UnderWay(e.id) /\ Countable(daily_revenue, payment_method_stats, customers, payments, refunds)
    BY <1>1, TablesCount, StatusIsNew, WriteSideStays
  <2>2. /\ born' = born /\ method' = method /\ booked' = booked
        /\ StatusBecomes(payments', payments, e.id, "failed")
    BY <1>1, <1>2, <1>3, StatusSet, WriteSideStays DEF StatusBecomes
  <2>3. DayFails(daily_revenue', daily_revenue, born[e.id])
    BY <1>2, <1>3, <1>4 DEF TotalsTypeOK, DayFails, d
  <2>4. /\ AddUp(daily_revenue, payment_method_stats, customers, payments, refunds, born, method, booked)
        /\ e.id \in DOMAIN payments /\ payments[e.id].status \notin {"captured", "failed"}
    BY <2>1 DEF TotalsNow, UnderWay
  <2>5. AddUp(daily_revenue', payment_method_stats, customers, payments', refunds, born, method, booked)
    BY ONLY <2>1, <2>2, <2>3, <2>4, NewFailure
  <2> QED  BY <1>3, <2>2, <2>5 DEF TotalsNow
<1> QED  BY <1>1, <1>3, <1>4, <1>5, <1>6, StatusHandled

LEMMA PaymentCapturedHandled ==
  ASSUME NEW e, Due(e), e.type = "payment.captured", _sync_payment_captured(e.id)
  PROVE  Handles(e)
<1> DEFINE d == born[e.id]  k == method[e.id]  b == owner[e.id]  a == amount[e.id]
<1>1. StatusOf(e.type) = "captured" /\ e.type \in StatusTypes /\ e.type # "payment.created"
  BY DEF StatusOf, StatusTypes
<1>2. ReadTypeOK /\ TotalsTypeOK /\ a \in Int
  <2>1. ReadTypeOK /\ TotalsTypeOK /\ WriteSound
    BY WriteSideStays
  <2>2. e.id \in Payments
    BY EventKinds, <1>1 DEF Due
  <2>3. a \in Amounts \cup {0}
    BY <2>1, <2>2 DEF WriteSound
  <2> QED  BY <2>1, <2>3, AmountsAreNumbers
<1>3. /\ SetStatus(e.id, StatusOf(e.type))
      /\ UNCHANGED <<merchants, refunds>>
      /\ daily_revenue' = [x \in DOMAIN daily_revenue |-> IF x \in {d}
            THEN [daily_revenue[x] EXCEPT !.success_count = @ + 1] ELSE daily_revenue[x]]
      /\ payment_method_stats' = [x \in DOMAIN payment_method_stats |-> IF x \in {k}
            THEN [payment_method_stats[x] EXCEPT !.success_count = @ + 1]
            ELSE payment_method_stats[x]]
      /\ customers' = [x \in DOMAIN customers |-> IF x \in {b}
            THEN [customers[x] EXCEPT !.total_spent = @ + a] ELSE customers[x]]
  BY <1>1 DEF _sync_payment_captured, Update
<1> HIDE DEF d, k, b, a
<1>4. /\ TotalsTypeOK' /\ DOMAIN daily_revenue' = DOMAIN daily_revenue
      /\ DOMAIN payment_method_stats' = DOMAIN payment_method_stats
  BY <1>2, <1>3 DEF TotalsTypeOK
<1>5. /\ \A c \in DOMAIN customers :
            /\ customers'[c] \in [name : Names, total_payments : Nat, total_spent : Int]
            /\ customers'[c].name = customers[c].name
      /\ DOMAIN customers' = DOMAIN customers
  BY <1>2, <1>3 DEF ReadTypeOK
<1>6. TotalsReady /\ Ready(e) /\ TotalsNow => TotalsNow'
  <2> SUFFICES ASSUME Ready(e), TotalsNow  PROVE TotalsNow'
    OBVIOUS
  <2>1. UnderWay(e.id) /\ Countable(daily_revenue, payment_method_stats, customers, payments, refunds)
    BY <1>1, TablesCount, StatusIsNew, WriteSideStays
  <2>2. /\ born' = born /\ method' = method /\ booked' = booked
        /\ StatusBecomes(payments', payments, e.id, "captured")
    BY <1>1, <1>2, <1>3, StatusSet, WriteSideStays DEF StatusBecomes
  <2>3. DaySucceeds(daily_revenue', daily_revenue, d)
    BY <1>2, <1>3, <1>4 DEF TotalsTypeOK, DaySucceeds
  <2>4. MethodSucceeds(payment_method_stats', payment_method_stats, k)
    BY <1>2, <1>3, <1>4 DEF TotalsTypeOK, MethodSucceeds
  <2>5. Spends(customers', customers, b, a)
    BY <1>2, <1>3, <1>5 DEF ReadTypeOK, Spends
  <2>6. \A r \in DOMAIN refunds : refunds[r].payment # e.id
    BY WriteSideStays DEF Due, CanCome, RowsSound
  <2>7. /\ b = payments[e.id].customer /\ a = payments[e.id].amount /\ k = method[e.id]
        /\ d = born[e.id]
    BY <2>1, WriteSideStays DEF RowsSound, UnderWay, b, a, k, d
  <2>8. /\ AddUp(daily_revenue, payment_method_stats, customers, payments, refunds, born, method, booked)
        /\ e.id \in DOMAIN payments /\ payments[e.id].status \notin {"captured", "failed"}
    BY <2>1 DEF TotalsNow, UnderWay
  <2>9. AddUp(daily_revenue', payment_method_stats', customers', payments', refunds, born, method, booked)
    BY ONLY <2>1, <2>2, <2>3, <2>4, <2>5, <2>6, <2>7, <2>8, NewSuccess
  <2> QED  BY <1>3, <2>2, <2>9 DEF TotalsNow
<1> QED  BY <1>1, <1>3, <1>4, <1>5, <1>6, StatusHandled

LEMMA PaymentSettledHandled ==
  ASSUME NEW e, Due(e), e.type = "payment.settled", UNCHANGED readTables
  PROVE  Handles(e)
<1> USE ReadIdsAssumption
<1>1. /\ UNCHANGED <<customer, status, owner, amount, refund, name, method, born, today, booked,
                     merchant, text, dropped>>
      /\ UNCHANGED <<merchants, customers, payments, refunds, daily_revenue,
                     payment_method_stats>>
      /\ ReadTypeOK /\ TotalsTypeOK /\ WriteSound /\ RowsSound /\ NeverAhead /\ NamesAgree
  BY WriteSideStays DEF readTables
<1>2. TotalsTypeOK' /\ RowsSound' /\ NeverAhead' /\ NamesAgree'
  BY <1>1 DEF TotalsTypeOK, RowsSound, NeverAhead, NamesAgree
<1>3. Len(feed') <= MaxLag => ReadTypeOK'
  BY <1>1 DEF ReadTypeOK, PartialOn
<1>4. \A f \in FeedEvents : CanCome(f) => CanCome(f)'
  BY <1>1 DEF CanCome
<1>5. TotalsReady => TotalsReady'
  BY <1>1 DEF TotalsReady
<1>6. ShowsAll(e)
  BY <1>1 DEF ShowsAll, Saying, Telling, Showing, Setting, MerchantNames, CustomerNames,
      PaymentTexts, StatusTypes, RefundStates
<1>7. TotalsNow => TotalsNow'
  BY <1>1 DEF TotalsNow
<1> QED  BY <1>2, <1>3, <1>4, <1>5, <1>6, <1>7 DEF Handles

LEMMA RefundProcessedHandled ==
  ASSUME NEW e, Due(e), e.type = "refund.processed", _sync_refund_processed(e.id)
  PROVE  Handles(e)
<1> USE ReadIdsAssumption
<1> DEFINE r == e.id
<1>1. /\ UNCHANGED <<customer, status, owner, amount, refund, name, method, born, today, booked,
                     merchant, text, dropped>>
      /\ ReadTypeOK /\ TotalsTypeOK /\ WriteSound /\ RowsSound /\ NeverAhead /\ NamesAgree
      /\ e \in FeedEvents /\ r \in Refunds /\ refund[r].state = "processed"
  BY WriteSideStays, EventKinds DEF Due, RefundStates, Happened
<1>2. /\ refunds' = [x \in DOMAIN refunds |->
                       IF x \in {r} THEN [refunds[x] EXCEPT !.status = "processed"] ELSE refunds[x]]
      /\ UNCHANGED <<merchants, customers, payments, daily_revenue, payment_method_stats>>
  BY DEF _sync_refund_processed, Update
<1> HIDE DEF r
<1>3. /\ DOMAIN refunds' = DOMAIN refunds
      /\ \A q \in DOMAIN refunds :
            /\ refunds'[q] \in [status : {"initiated", "processed"}, payment : Payments,
                        amount : Amounts, name : Names \cup {None}]
            /\ refunds'[q].payment = refunds[q].payment /\ refunds'[q].amount = refunds[q].amount
            /\ refunds'[q].name = refunds[q].name
            /\ refunds'[q].status = IF q = r THEN "processed" ELSE refunds[q].status
  BY <1>1, <1>2 DEF ReadTypeOK
<1>4. TotalsTypeOK' /\ RowsSound' /\ NeverAhead'
  BY <1>1, <1>2, <1>3 DEF TotalsTypeOK, RowsSound, NeverAhead
<1>5. NamesAgree'
  BY <1>1, <1>2, <1>3 DEF NamesAgree
<1>6. Len(feed') <= MaxLag => ReadTypeOK'
  BY <1>1, <1>2, <1>3 DEF ReadTypeOK, PartialOn
<1>7. \A f \in FeedEvents : CanCome(f) => CanCome(f)'
  BY <1>1, <1>2, <1>3 DEF CanCome
<1>8. TotalsReady => TotalsReady'
  BY <1>1, <1>2, <1>3 DEF TotalsReady
<1>9. Ready(e) => ShowsAll(e)
  BY <1>1, <1>2, <1>3 DEF ShowsAll, Saying, Telling, Showing, Setting, MerchantNames,
      CustomerNames, PaymentTexts, StatusTypes, RefundStates, StateOf, Ready, r
<1>10. TotalsNow => TotalsNow'
  <2>1. Countable(daily_revenue, payment_method_stats, customers, payments, refunds)
    BY <1>1, TablesCount
  <2> QED  BY <1>1, <1>2, <1>3, <2>1, EditsDoNotCount DEF TotalsNow
<1> QED  BY <1>4, <1>5, <1>6, <1>7, <1>8, <1>9, <1>10 DEF Handles

LEMMA PaymentCreatedHandled ==
  ASSUME NEW e, Due(e), e.type = "payment.created", _sync_payment_created(e.id, e.value)
  PROVE  Handles(e)
<1> USE ReadIdsAssumption
<1> DEFINE p == e.id  d == born[p]  k == method[p]  c == owner[p]  a == amount[p]
           row == [status |-> "created", customer |-> c, amount |-> a,
                   text |-> e.value, metadata |-> Dumps(e.value),
                   name |-> IF c \in DOMAIN customers THEN customers[c].name ELSE None]
<1>1. /\ UNCHANGED <<customer, status, owner, amount, refund, name, method, born, today, booked,
                     merchant, text, dropped>>
      /\ ReadTypeOK /\ TotalsTypeOK /\ WriteSound /\ RowsSound /\ NeverAhead /\ NamesAgree
      /\ e \in FeedEvents /\ e.value \in Texts /\ p \in Payments
      /\ "created" \in History(status[p]) /\ status[p] # "none"
      /\ p \notin DOMAIN payments /\ \A r \in DOMAIN refunds : refund[r].payment # p
  BY WriteSideStays, EventKinds DEF Due, PaymentTexts, StatusTypes, StatusOf, Happened, CanCome,
      History
<1>2. c \in Customers /\ a \in Amounts /\ a \in Int /\ k \in Methods /\ d \in 1..MaxDay
  <2>1. c \in Customers /\ a \in Amounts /\ k \in Methods /\ d \in 1..MaxDay
    BY <1>1 DEF WriteSound
  <2> QED  BY <2>1, AmountsAreNumbers
<1>3. /\ payments' = [x \in DOMAIN payments \cup {p} |-> IF x = p THEN row ELSE payments[x]]
      /\ customers' = [x \in DOMAIN customers |-> IF x \in {c}
            THEN [customers[x] EXCEPT !.total_payments = @ + 1] ELSE customers[x]]
      /\ UNCHANGED <<merchants, refunds>>
  <2>1. Row(customers, c, [name |-> None]).name
          = IF c \in DOMAIN customers THEN customers[c].name ELSE None
    BY DEF Row
  <2> QED  BY <1>1, <2>1 DEF _sync_payment_created, Upsert, Update
<1>4. /\ DOMAIN daily_revenue' = DOMAIN daily_revenue \cup {d}
      /\ \A x \in DOMAIN daily_revenue' : x # d => daily_revenue'[x] = daily_revenue[x]
      /\ daily_revenue'[d] = LET day == Row(daily_revenue, d, NoRevenue) IN
            [day EXCEPT !.total_amount = @ + a, !.payment_count = @ + 1, !.net_revenue = @ + a]
  BY DEF _sync_payment_created, Upsert
<1>5. /\ DOMAIN payment_method_stats' = DOMAIN payment_method_stats \cup {k}
      /\ \A x \in DOMAIN payment_method_stats' :
            x # k => payment_method_stats'[x] = payment_method_stats[x]
      /\ payment_method_stats'[k] = LET stats == Row(payment_method_stats, k, NoStats) IN
            [stats EXCEPT !.total_amount = @ + a, !.count = @ + 1]
  BY DEF _sync_payment_created, Upsert
<1> HIDE DEF p, d, k, c, a
<1>6. TotalsTypeOK'
  <2>1. daily_revenue'[d] \in [total_amount : Int, payment_count : Int, net_revenue : Int,
                               success_count : Int, failed_count : Int, refund_amount : Int]
    <3> DEFINE T == Days
               day == Row(daily_revenue, d, NoRevenue)
    <3>1. day \in T
      BY <1>1 DEF TotalsTypeOK, Row, NoRevenue, Days
    <3> HIDE DEF day
    <3>2. [day EXCEPT !.total_amount = @ + a, !.payment_count = @ + 1, !.net_revenue = @ + a] \in T
      BY <1>2, <3>1, DayAfterPayment
    <3> QED  BY <1>4, <3>2 DEF day, Days
  <2>2. payment_method_stats'[k] \in [total_amount : Int, count : Int, success_count : Int]
    <3> DEFINE T == Stats
               stats == Row(payment_method_stats, k, NoStats)
    <3>1. stats \in T
      BY <1>1 DEF TotalsTypeOK, Row, NoStats, Stats
    <3> HIDE DEF stats
    <3>2. [stats EXCEPT !.total_amount = @ + a, !.count = @ + 1] \in T
      BY <1>2, <3>1, MethodAfterPayment
    <3> QED  BY <1>5, <3>2 DEF stats, Stats
  <2> QED  BY <1>1, <1>4, <1>5, <2>1, <2>2 DEF TotalsTypeOK
<1>7. /\ DOMAIN customers' = DOMAIN customers
      /\ \A x \in DOMAIN customers :
            /\ customers'[x] \in [name : Names, total_payments : Nat, total_spent : Int]
            /\ customers'[x].name = customers[x].name
  BY <1>1, <1>3 DEF ReadTypeOK
<1>8. /\ DOMAIN payments' = DOMAIN payments \cup {p}
      /\ \A q \in DOMAIN payments : payments'[q] = payments[q]
      /\ payments'[p] = row
      /\ row \in [status : {"created", "authorized", "captured", "failed"},
                  customer : Customers, amount : Amounts, name : Names \cup {None}, text : Texts,
                  metadata : [json : Texts]]
  <2>1. c \in DOMAIN customers => customers[c].name \in Names
    BY <1>1 DEF ReadTypeOK
  <2>2. Dumps(e.value) \in [json : Texts]
    BY <1>1 DEF Dumps
  <2> QED  BY <1>1, <1>2, <1>3, <2>1, <2>2
<1>9. RowsSound'
  <2>1. IsFiniteSet(DOMAIN payments')
    BY <1>1, <1>8, FS_AddElement DEF RowsSound
  <2> QED  BY <1>1, <1>3, <1>7, <1>8, <2>1 DEF RowsSound, a, c
<1>10. NeverAhead'
  BY <1>1, <1>3, <1>8 DEF NeverAhead
<1>11. NamesAgree'
  <2>1. \A r \in DOMAIN refunds : refunds[r].payment # p
    BY <1>1 DEF RowsSound
  <2>2. \A q \in DOMAIN payments' : payments'[q].customer \in DOMAIN customers' =>
            payments'[q].name = customers'[payments'[q].customer].name
    BY <1>1, <1>7, <1>8 DEF NamesAgree
  <2> QED  BY <1>1, <1>3, <1>8, <2>1, <2>2 DEF NamesAgree
<1>12. Len(feed') <= MaxLag => ReadTypeOK'
  <2>1. /\ DOMAIN daily_revenue' \subseteq 1..MaxDay /\ DOMAIN payment_method_stats' \subseteq Methods
        /\ DOMAIN payments' \subseteq Payments
    BY <1>1, <1>2, <1>4, <1>5, <1>8 DEF ReadTypeOK, PartialOn
  <2>2. \A q \in DOMAIN payments' : payments'[q] \in
              [status : {"created", "authorized", "captured", "failed"},
               customer : Customers, amount : Amounts, name : Names \cup {None}, text : Texts,
                  metadata : [json : Texts]]
    BY <1>1, <1>8 DEF ReadTypeOK
  <2> QED  BY <1>1, <1>3, <1>7, <2>1, <2>2 DEF ReadTypeOK, PartialOn
<1>13. ASSUME NEW f \in FeedEvents, CanCome(f), ~TooLate(e, f)  PROVE CanCome(f)'
  <2>1. /\ f.type = "customer.created" => owner[p] # f.id
        /\ f.type = "payment.created" => f.id # p
        /\ f.type \in StatusTypes /\ f.id = p => StatusOf(f.type) \notin History("created")
    BY <1>13 DEF TooLate, Creations, StatusTypes, StatusOf, p
  <2> QED  BY <1>1, <1>3, <1>7, <1>8, <1>13, <2>1 DEF CanCome
<1>14. TotalsReady => TotalsReady'
  BY <1>1, <1>3, <1>4, <1>5, <1>8 DEF TotalsReady, d, k
<1>15. ShowsAll(e)
  <2>1. /\ \A x : e \notin Telling(MerchantNames, x) /\ e \notin Telling(CustomerNames, x)
                  /\ e \notin Telling(RefundStates, x)
        /\ \A x, y : /\ e \notin Saying(MerchantNames, x, y) /\ e \notin Saying(CustomerNames, x, y)
                     /\ e \notin Setting(x, y)
                     /\ x # p => e \notin Showing(x, y) /\ e \notin Saying(PaymentTexts, x, y)
        /\ \A y : /\ e \in Showing(p, y) => y = "created"
                  /\ e \in Saying(PaymentTexts, p, y) => y = e.value
    BY <1>1 DEF Saying, Telling, Showing, Setting, MerchantNames, CustomerNames, PaymentTexts,
        StatusTypes, RefundStates, StatusOf, p
  <2> QED
    BY <1>1, <1>3, <1>4, <1>7, <1>8, <2>1 DEF ShowsAll, p, d
<1>16. TotalsReady /\ TotalsNow => TotalsNow'
  <2> SUFFICES ASSUME TotalsReady, TotalsNow  PROVE TotalsNow'
    OBVIOUS
  <2>1. Countable(daily_revenue, payment_method_stats, customers, payments, refunds)
    BY <1>1, TablesCount
  <2>2. PICK day \in Days : day = Row(daily_revenue, d, NoRevenue)
    <3>1. Row(daily_revenue, d, NoRevenue) \in Days
      BY <1>1 DEF TotalsTypeOK, Row, NoRevenue, Days
    <3> QED  BY <3>1
  <2>3. PICK old \in Stats : old = Row(payment_method_stats, k, NoStats)
    <3>1. Row(payment_method_stats, k, NoStats) \in Stats
      BY <1>1 DEF TotalsTypeOK, Row, NoStats, Stats
    <3> QED  BY <3>1
  <2>4. DayGained(daily_revenue'[d], day, a) /\ MethodGained(payment_method_stats'[k], old, a)
    <3>1. DayGained([day EXCEPT !.total_amount = @ + a, !.payment_count = @ + 1,
                                !.net_revenue = @ + a], day, a)
      BY ONLY <1>2, <2>2, DayAfterPayment
    <3>2. MethodGained([old EXCEPT !.total_amount = @ + a, !.count = @ + 1], old, a)
      BY ONLY <1>2, <2>3, MethodAfterPayment
    <3> QED  BY <1>4, <1>5, <2>2, <2>3, <3>1, <3>2
  <2>5. /\ Opened(payments', payments, p) /\ Opened(daily_revenue', daily_revenue, d)
        /\ Opened(payment_method_stats', payment_method_stats, k)
    BY <1>4, <1>5, <1>8 DEF Opened
  <2>6. /\ payments'[p].status = "created" /\ payments'[p].amount = a /\ payments'[p].customer = c
        /\ p \notin DOMAIN payments /\ \A r \in DOMAIN refunds : refunds[r].payment # p
        /\ a \in Nat
    BY <1>1, <1>2, <1>8, AmountsAreNumbers DEF RowsSound
  <2>7. Buys(customers', customers, c)
    BY <1>1, <1>3, <1>7 DEF Buys, ReadTypeOK
  <2>8. \A q \in DOMAIN payments :
          born[q] \in DOMAIN daily_revenue /\ method[q] \in DOMAIN payment_method_stats
    BY DEF TotalsReady
  <2>11. \A r \in DOMAIN refunds \cap booked : born[r] \in DOMAIN daily_revenue
    BY DEF TotalsReady
  <2>9. /\ AddUp(daily_revenue, payment_method_stats, customers, payments, refunds, born, method, booked)
        /\ d = born[p] /\ k = method[p] /\ c = payments'[p].customer
    BY <2>6 DEF TotalsNow, d, k
  <2>10. AddUp(daily_revenue', payment_method_stats', customers', payments', refunds, born, method, booked)
    BY ONLY <2>1, <2>2, <2>3, <2>4, <2>5, <2>6, <2>7, <2>8, <2>9, <2>11, NewPayment
  <2> QED  BY <1>1, <1>3, <2>10 DEF TotalsNow
<1> QED  BY <1>6, <1>9, <1>10, <1>11, <1>12, <1>13, <1>14, <1>15, <1>16 DEF Handles

LEMMA RefundInitiatedHandled ==
  ASSUME NEW e, Due(e), e.type = "refund.initiated", _sync_refund_initiated(e.id)
  PROVE  Handles(e)
<1> USE ReadIdsAssumption
<1> DEFINE r == e.id  p == refund[r].payment  a == refund[r].amount  d == born[r]  c == owner[p]
           row == [status |-> "initiated", payment |-> p, amount |-> a,
                   name |-> IF p \in DOMAIN payments THEN payments[p].name ELSE None]
<1>1. /\ UNCHANGED <<customer, status, owner, amount, refund, name, method, born, today, booked,
                     merchant, text, dropped>>
      /\ ReadTypeOK /\ TotalsTypeOK /\ WriteSound /\ RowsSound /\ NeverAhead /\ NamesAgree
      /\ e \in FeedEvents /\ r \in Refunds /\ refund[r].state # "none" /\ r \notin DOMAIN refunds
  BY WriteSideStays, EventKinds DEF Due, RefundStates, Happened, CanCome
<1>2. p \in Payments /\ a \in Amounts /\ a \in Int /\ status[p] # "none"
  <2>1. p \in Payments /\ a \in Amounts /\ status[p] # "none"
    BY <1>1 DEF WriteSound
  <2> QED  BY <2>1, AmountsAreNumbers
<1>3. /\ refunds' = [x \in DOMAIN refunds \cup {r} |-> IF x = r THEN row ELSE refunds[x]]
      /\ daily_revenue' = [x \in DOMAIN daily_revenue |-> IF x \in {d}
            THEN [daily_revenue[x] EXCEPT !.refund_amount = @ + a, !.net_revenue = @ - a]
            ELSE daily_revenue[x]]
      /\ customers' = [x \in DOMAIN customers |-> IF x \in {c}
            THEN [customers[x] EXCEPT !.total_spent = @ - a] ELSE customers[x]]
      /\ UNCHANGED <<merchants, payments, payment_method_stats>>
  <2>1. Row(payments, p, [name |-> None]).name
          = IF p \in DOMAIN payments THEN payments[p].name ELSE None
    BY DEF Row
  <2> QED  BY <1>1, <2>1 DEF _sync_refund_initiated, Upsert, Update
<1> HIDE DEF r, p, a, d, c
<1>4. TotalsTypeOK' /\ DOMAIN daily_revenue' = DOMAIN daily_revenue
  <2> DEFINE T == Days
  <2>1. \A day \in T : [day EXCEPT !.refund_amount = @ + a, !.net_revenue = @ - a] \in T
    BY <1>2, DayAfterRefund
  <2>2. \A x \in DOMAIN daily_revenue : daily_revenue[x] \in T
    BY <1>1 DEF TotalsTypeOK, Days
  <2> HIDE DEF T
  <2>3. DOMAIN daily_revenue' = DOMAIN daily_revenue /\ \A x \in DOMAIN daily_revenue : daily_revenue'[x] \in T
    BY <1>3, <2>1, <2>2
  <2> QED  BY <1>1, <1>3, <2>3 DEF TotalsTypeOK, T, Days
<1>5. /\ DOMAIN customers' = DOMAIN customers
      /\ \A x \in DOMAIN customers :
            /\ customers'[x] \in [name : Names, total_payments : Nat, total_spent : Int]
            /\ customers'[x].name = customers[x].name
  <2> DEFINE T == [name : Names, total_payments : Nat, total_spent : Int]
  <2>1. \A buyer \in T : /\ [buyer EXCEPT !.total_spent = @ - a] \in T
                         /\ [buyer EXCEPT !.total_spent = @ - a].name = buyer.name
    BY <1>2
  <2>2. \A x \in DOMAIN customers : customers[x] \in T
    BY <1>1 DEF ReadTypeOK
  <2> HIDE DEF T
  <2>3. \A x \in DOMAIN customers : customers'[x] \in T /\ customers'[x].name = customers[x].name
    BY <1>3, <2>1, <2>2
  <2> QED  BY <1>3, <2>3 DEF T
<1>6. /\ DOMAIN refunds' = DOMAIN refunds \cup {r}
      /\ \A q \in DOMAIN refunds : refunds'[q] = refunds[q]
      /\ refunds'[r] = row
      /\ row \in [status : {"initiated", "processed"}, payment : Payments,
                  amount : Amounts, name : Names \cup {None}]
  <2>1. p \in DOMAIN payments => payments[p].name \in Names \cup {None}
    BY <1>1 DEF ReadTypeOK
  <2> QED  BY <1>1, <1>2, <1>3, <2>1
<1>7. RowsSound'
  <2>1. IsFiniteSet(DOMAIN refunds')
    BY <1>1, <1>6, FS_AddElement DEF RowsSound
  <2> QED  BY <1>1, <1>3, <1>5, <1>6, <2>1 DEF RowsSound, a, p
<1>8. NeverAhead'
  BY <1>1, <1>3, <1>6 DEF NeverAhead
<1>9. NamesAgree'
  BY <1>1, <1>3, <1>5, <1>6 DEF NamesAgree
<1>10. Len(feed') <= MaxLag => ReadTypeOK'
  <2>1. \A q \in DOMAIN refunds' : refunds'[q] \in
              [status : {"initiated", "processed"}, payment : Payments,
               amount : Amounts, name : Names \cup {None}]
    BY <1>1, <1>6 DEF ReadTypeOK
  <2>2. \A x \in DOMAIN customers' :
           customers'[x] \in [name : Names, total_payments : Nat, total_spent : Int]
    BY <1>5
  <2>3. DOMAIN refunds' \subseteq Refunds
    BY <1>1, <1>6 DEF ReadTypeOK, PartialOn
  <2> QED  BY <1>1, <1>3, <1>4, <1>5, <2>1, <2>2, <2>3 DEF ReadTypeOK, PartialOn
<1>11. ASSUME NEW f \in FeedEvents, CanCome(f), ~TooLate(e, f)  PROVE CanCome(f)'
  <2>1. /\ f.type = "refund.initiated" => f.id # r
        /\ f.type \in {"payment.created", "payment.captured"} => refund[r].payment # f.id
    BY <1>11 DEF TooLate, Creations, r
  <2> QED  BY <1>1, <1>3, <1>5, <1>6, <1>11, <2>1 DEF CanCome
<1>12. Ready(e) /\ TotalsReady => TotalsReady'
  BY <1>1, <1>3, <1>4, <1>6 DEF TotalsReady, Ready, r, p
<1>13. ShowsAll(e)
  <2>1. /\ \A x : e \notin Telling(MerchantNames, x) /\ e \notin Telling(CustomerNames, x)
                  /\ e \notin Telling(PaymentTexts, x) /\ e \notin Telling(StatusTypes, x)
        /\ \A x, y : /\ e \notin Saying(MerchantNames, x, y) /\ e \notin Saying(CustomerNames, x, y)
                     /\ e \notin Saying(PaymentTexts, x, y) /\ e \notin Showing(x, y)
                     /\ x # r => e \notin Setting(x, y)
        /\ \A y : e \in Setting(r, y) => y = "initiated"
    BY <1>1 DEF Saying, Telling, Showing, Setting, MerchantNames, CustomerNames, PaymentTexts,
        StatusTypes, RefundStates, StateOf, r
  <2> QED
    BY <1>1, <1>3, <1>5, <1>6, <2>1 DEF ShowsAll, r
<1>14. Ready(e) /\ TotalsNow => TotalsNow'
  <2> SUFFICES ASSUME Ready(e), TotalsNow  PROVE TotalsNow'
    OBVIOUS
  <2>1. Countable(daily_revenue, payment_method_stats, customers, payments, refunds)
    BY <1>1, TablesCount
  <2>2. p \in DOMAIN payments /\ payments[p].status = "captured" /\ c = payments[p].customer
    BY <1>1 DEF Ready, RowsSound, r, p, c
  <2>3. /\ Opened(refunds', refunds, r) /\ refunds'[r].payment = p /\ refunds'[r].amount = a
        /\ r \notin DOMAIN refunds /\ a \in Nat
    BY <1>1, <1>2, <1>6, AmountsAreNumbers DEF Opened
  <2>4. DayReturned(daily_revenue', daily_revenue, d, a)
    <3>1. \A x \in DOMAIN daily_revenue : daily_revenue[x] \in Days
      BY <1>1 DEF TotalsTypeOK, Days
    <3>2. \A day \in Days :
            DayReturns([day EXCEPT !.refund_amount = @ + a, !.net_revenue = @ - a], day, a)
      BY <1>2, DayAfterRefund
    <3> QED  BY <1>3, <1>4, <3>1, <3>2 DEF DayReturned
  <2>5. TakesBack(customers', customers, c, a)
    <3>1. \A x \in DOMAIN customers :
            customers[x] \in [name : Names, total_payments : Nat, total_spent : Int]
      BY <1>1 DEF ReadTypeOK
    <3> QED  BY <1>2, <1>3, <1>5, <3>1 DEF TakesBack
  <2>6. /\ AddUp(daily_revenue, payment_method_stats, customers, payments, refunds, born, method, booked)
        /\ d = born[r] /\ (r \in booked <=> born[r] \in DOMAIN daily_revenue)
    BY DEF TotalsNow, Ready, d, r
  <2>7. AddUp(daily_revenue', payment_method_stats, customers', payments, refunds', born, method, booked)
    BY ONLY <2>1, <2>2, <2>3, <2>4, <2>5, <2>6, NewReturn
  <2> QED  BY <1>1, <1>3, <2>7 DEF TotalsNow
<1> QED  BY <1>4, <1>7, <1>8, <1>9, <1>10, <1>11, <1>12, <1>13, <1>14 DEF Handles

LEMMA SyncHandles ==
  ASSUME ReadInv, sync_event
  PROVE  Handles(Head(feed))
<1>1. PICK e : e = Head(feed)
  OBVIOUS
<1>2. Due(e)
  BY <1>1, HeadIsNext DEF sync_event, Due
<1>3. SYNC_HANDLERS(e)
  BY <1>1 DEF sync_event
<1> QED
  BY <1>1, <1>2, <1>3, MerchantCreatedHandled, MerchantUpdatedHandled, CustomerCreatedHandled,
     CustomerUpdatedHandled, CustomerDeletedHandled, PaymentCreatedHandled, PaymentUpdatedHandled,
     PaymentAuthorizedHandled, PaymentCapturedHandled, PaymentFailedHandled, PaymentSettledHandled,
     RefundInitiatedHandled, RefundProcessedHandled
  DEF SYNC_HANDLERS

-----------------------------------------------------------------------------
(* The invariant.                                                          *)

LEMMA ReadInitInvariant == ReadInit => ReadInv /\ ReplicaInv
<1> SUFFICES ASSUME ReadInit  PROVE ReadInv /\ ReplicaInv
  OBVIOUS
<1>1. /\ DOMAIN merchants = {} /\ DOMAIN customers = {} /\ DOMAIN payments = {}
      /\ DOMAIN refunds = {} /\ DOMAIN daily_revenue = {} /\ DOMAIN payment_method_stats = {}
      /\ feed = <<>> /\ Len(feed) = 0 /\ 1..Len(feed) = {}
      /\ feed \in Seq(FeedEvents)
  BY EmptySeq DEF ReadInit, NoRows
<1>2. ReadTypeOK /\ TotalsTypeOK
  BY <1>1, ReadBoundsAssumption DEF ReadInit, ReadTypeOK, TotalsTypeOK, PartialOn
<1>3. WriteSound
  BY ReadBoundsAssumption DEF ReadInit, Write!LifecycleInit, Write!NoRefund, WriteSound
<1>4. /\ FeedSound /\ FeedInOrder /\ RowsInOrder
  BY <1>1 DEF FeedSound, FeedInOrder, RowsInOrder
<1>5. RowsSound /\ NeverAhead /\ NamesAgree
  BY <1>1, FS_EmptySet DEF RowsSound, NeverAhead, NamesAgree
<1>6. RowsComplete /\ ValuesComplete /\ TotalsReady /\ BookingReady
  BY <1>1 DEF ReadInit, Write!LifecycleInit, Write!NoRefund, RowsComplete, ValuesComplete,
      TotalsReady, BookingReady
<1> QED  BY <1>2, <1>3, <1>4, <1>5, <1>6 DEF ReadInv, ReplicaInv

LEMMA ReadStepInvariant ==
  ASSUME ReadInv, ReplicaInv, [ReadNext]_readVars
  PROVE  ReadInv' /\ ReplicaInv'
<1>1. CASE WriteNext
  <2>1. PICK e : WriteSound' /\ Keeps /\ Sends(e) /\ IsNews(e) /\ SaysAll(e)
    BY <1>1, RequestsAdvance DEF Advances
  <2> QED  BY <2>1, NewsKeepsOrder, NewsKeepsReplica
<1>2. CASE NextDay
  <2>1. /\ UNCHANGED <<customer, status, owner, amount, refund, name, method, born, booked, merchant, text>>
        /\ UNCHANGED <<merchants, customers, payments, refunds, daily_revenue,
                       payment_method_stats, feed, dropped>>
        /\ today < MaxDay /\ today' = today + 1
    BY <1>2 DEF NextDay, lifecycle, profile, readTables
  <2>2. WriteSound'
    BY <2>1, ReadBoundsAssumption DEF ReadInv, WriteSound
  <2>3. ReadInv'
    BY <2>1, <2>2 DEF ReadInv, ReadTypeOK, PartialOn, TotalsTypeOK, FeedSound, FeedInOrder, RowsSound,
       RowsInOrder, NeverAhead, NamesAgree, Happened, TooLate, CanCome
  <2>4. ReplicaInv'
    BY <2>1 DEF ReplicaInv, RowsComplete, ValuesComplete, TotalsReady, BookingReady, DayOpens
  <2> QED  BY <2>3, <2>4
<1>3. CASE sync_event
  <2>1. /\ feed # <<>> /\ feed' = Tail(feed) /\ dropped' = dropped
        /\ UNCHANGED <<lifecycle, columns, profile>>
    BY <1>3 DEF sync_event
  <2>2. Handles(Head(feed))
    BY <1>3, SyncHandles
  <2>3. ReadInv'
    BY <2>1, <2>2, HandledInOrder DEF Handles
  <2>4. dropped = 0 => ShowsAll(Head(feed)) /\ TotalsReady'
    BY <2>1, <2>2, HeadIsReady DEF Handles, ReplicaInv
  <2>5. ReplicaInv'
    BY <2>1, <2>4, HandledCompletely
  <2> QED  BY <2>3, <2>5
<1>4. CASE Drop
  BY <1>4, DropKeepsOrder DEF ReplicaInv
<1>5. CASE UNCHANGED readVars
  <2>1. /\ UNCHANGED <<customer, status, owner, amount, refund, name, method, born, booked, merchant, text>>
        /\ UNCHANGED <<merchants, customers, payments, refunds, daily_revenue,
                       payment_method_stats, feed, dropped, today>>
    BY <1>5 DEF readVars, lifecycle, columns, profile, readTables
  <2>2. WriteSound'
    BY <2>1 DEF ReadInv, WriteSound
  <2>3. ReadInv'
    BY <2>1, <2>2 DEF ReadInv, ReadTypeOK, PartialOn, TotalsTypeOK, FeedSound, FeedInOrder, RowsSound,
       RowsInOrder, NeverAhead, NamesAgree, Happened, TooLate, CanCome
  <2>4. ReplicaInv'
    BY <2>1 DEF ReplicaInv, RowsComplete, ValuesComplete, TotalsReady, BookingReady, DayOpens
  <2> QED  BY <2>3, <2>4
<1> QED  BY <1>1, <1>2, <1>3, <1>4, <1>5 DEF ReadNext

\* What is on its way to the read database comes in order, and nothing is missing
\* there as long as nothing was dropped.
THEOREM ReadInvariantHolds == ReadSpec => [](ReadInv /\ ReplicaInv)
<1>1. ReadInv /\ ReplicaInv /\ [ReadNext]_readVars => (ReadInv /\ ReplicaInv)'
  BY ReadStepInvariant
<1> QED  BY <1>1, ReadInitInvariant, PTL DEF ReadSpec

\* The read tables keep their types.
THEOREM ReadTypeCorrect == ReadSpec => []ReadTypeOK
<1>1. ReadInv => ReadTypeOK
  BY DEF ReadInv
<1> QED  BY <1>1, ReadInvariantHolds, PTL

\* The handlers of sync_service never show a status that a payment or refund has not
\* had, nor a row of something that never existed, whatever was dropped.
THEOREM ReadSideNeverAhead == ReadSpec => []NeverAhead
<1>1. ReadInv => NeverAhead
  BY DEF ReadInv
<1> QED  BY <1>1, ReadInvariantHolds, PTL

\* The copies of a customer's name agree with the customer's row, whatever was dropped.
THEOREM CopiedNamesAgree == ReadSpec => []NamesAgree
<1>1. ReadInv => NamesAgree
  BY DEF ReadInv
<1> QED  BY <1>1, ReadInvariantHolds, PTL

\* No step makes the totals wrong: requests leave them alone, an event changes them
\* with the rows they add up.
LEMMA TotalsStep ==
  ASSUME ReadInv, ReplicaInv, AggregatesAddUp, [ReadNext]_readVars
  PROVE  AggregatesAddUp'
<1>1. CASE WriteNext
  <2>1. PICK e : Keeps /\ Sends(e)
    BY <1>1, RequestsAdvance DEF Advances
  <2> QED  BY <2>1, RequestsKeepTotals DEF Sends
<1>2. CASE NextDay
  BY <1>2, TotalsAddUp, TotalsAddUpNext DEF NextDay, readTables
<1>3. CASE sync_event
  <2>1. feed # <<>> /\ dropped' = dropped /\ Handles(Head(feed))
    BY <1>3, SyncHandles DEF sync_event
  <2>2. dropped = 0 => TotalsReady /\ Ready(Head(feed)) /\ TotalsNow
    BY <2>1, HeadIsReady, TotalsAddUp DEF ReplicaInv, TotalsNow
  <2>3. dropped = 0 => TotalsNow'
    BY <2>1, <2>2 DEF Handles
  <2> QED  BY <2>1, <2>3, TotalsAddUpNext DEF TotalsNow
<1>4. CASE Drop
  <2>1. dropped' # 0
    BY <1>4 DEF Drop, ReadInv, ReadTypeOK
  <2> QED  BY <2>1, TotalsAddUpNext
<1>5. CASE UNCHANGED readVars
  BY <1>5, TotalsAddUp, TotalsAddUpNext DEF readVars, columns, readTables
<1> QED  BY <1>1, <1>2, <1>3, <1>4, <1>5 DEF ReadNext

\* As long as no event was dropped, the totals that the handlers keep up step by step
\* are those of the rows: each day's, each method's and each customer's.
THEOREM TotalsOfTheRows == ReadSpec => []AggregatesAddUp
<1>1. ReadInit => AggregatesAddUp
  <2> SUFFICES ASSUME ReadInit  PROVE AggregatesAddUp
    OBVIOUS
  <2>1. DOMAIN daily_revenue = {} /\ DOMAIN payment_method_stats = {} /\ DOMAIN customers = {}
    BY DEF ReadInit, NoRows
  <2> QED  BY <2>1, TotalsAddUp DEF AddUp
<1>2. ReadInv /\ ReplicaInv /\ AggregatesAddUp /\ [ReadNext]_readVars => AggregatesAddUp'
  BY TotalsStep
<1> QED  BY <1>1, <1>2, ReadInvariantHolds, PTL DEF ReadSpec

\* With nothing on its way and nothing dropped, the read tables are those of the
\* write side.
LEMMA NothingMissing == ReadInv /\ ReplicaInv => ReplicaConverges
<1> SUFFICES ASSUME ReadInv, ReplicaInv, feed = <<>>, dropped = 0
             PROVE  ReplicaConverges
  BY DEF ReplicaConverges, CaughtUp
<1>1. /\ RowsComplete /\ ValuesComplete /\ RowsSound /\ NeverAhead /\ WriteSound /\ ReadTypeOK
  BY DEF ReadInv, ReplicaInv
<1>2. /\ \A t, x : ~Coming(feed, t, x)
      /\ \A E, F : ~LastOf(feed, E, F)
  <2>1. 1..Len(feed) = {}
    BY EmptySeq
  <2> QED  BY <2>1 DEF Coming, LastOf
<1>3. merchant # None => merchants = [m \in {None} |-> merchant]
  BY <1>1, <1>2 DEF ValuesComplete
<1>4. /\ DOMAIN customers = {c \in Customers : customer[c] = "live"}
      /\ \A c \in DOMAIN customers : customers[c].name = name[c]
  <2>1. \A c \in DOMAIN customers : c \in Customers
    BY <1>1 DEF ReadTypeOK, PartialOn
  <2>2. \A c \in DOMAIN customers : customer[c] # "absent"
    BY <1>1 DEF RowsSound
  <2>3. \A c \in Customers : customer[c] \in {"absent", "live", "deleted"}
    BY <1>1 DEF WriteSound
  <2>4. \A c \in Customers :
          /\ customer[c] = "live" => c \in DOMAIN customers /\ customers[c].name = name[c]
          /\ customer[c] = "deleted" => c \notin DOMAIN customers
    BY <1>1, <1>2 DEF RowsComplete, ValuesComplete
  <2> QED  BY <2>1, <2>2, <2>3, <2>4
<1>5. /\ DOMAIN payments = {p \in Payments : status[p] # "none"}
      /\ \A p \in DOMAIN payments :
            /\ payments[p].status = Shown(status[p]) /\ payments[p].customer = owner[p]
            /\ payments[p].amount = amount[p] /\ payments[p].text = text[p]
            /\ payments[p].metadata = Dumps(text[p])
  <2>1. \A p \in DOMAIN payments : p \in Payments
    BY <1>1 DEF ReadTypeOK, PartialOn
  <2>2. \A p \in DOMAIN payments :
          /\ status[p] # "none"
          /\ payments[p].customer = owner[p] /\ payments[p].amount = amount[p]
          /\ payments[p].metadata = Dumps(payments[p].text)
    BY <1>1 DEF RowsSound
  <2>3. \A p \in Payments : status[p] # "none" => p \in DOMAIN payments
    BY <1>1, <1>2 DEF RowsComplete
  <2>4. \A p \in Payments : status[p] # "none" =>
          payments[p].status = Shown(status[p]) /\ payments[p].text = text[p]
    BY <1>1, <1>2 DEF ValuesComplete
  <2> QED  BY <2>1, <2>2, <2>3, <2>4
<1>6. /\ DOMAIN refunds = {r \in Refunds : refund[r].state # "none"}
      /\ \A r \in DOMAIN refunds :
            /\ refunds[r].status = refund[r].state /\ refunds[r].payment = refund[r].payment
            /\ refunds[r].amount = refund[r].amount
  BY <1>1, <1>2 DEF RowsComplete, ValuesComplete, RowsSound, ReadTypeOK, PartialOn, NeverAhead
<1> QED  BY <1>3, <1>4, <1>5, <1>6 DEF ReplicaConverges, CaughtUp

\* Once every event has been applied, the read database holds what the handlers make of
\* the last state of the write side, which is not that state: metadata is a string there,
\* and a settled payment is shown as captured.
THEOREM ReadSideConverges == ReadSpec => []ReplicaConverges
<1> QED  BY NothingMissing, ReadInvariantHolds, PTL
=============================================================================
