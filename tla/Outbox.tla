--------------------------------- MODULE Outbox ---------------------------------
(***************************************************************************)
(* The transactional outbox: request transactions insert rows into         *)
(* domain_events, and the runs of the Celery task publish_pending_events   *)
(* move the committed ones into the Kafka topic payments.events.           *)
(*                                                                         *)
(* A row is named by the order of its created_at, which emit_event takes   *)
(* before the transaction commits.  Rows of several transactions may       *)
(* therefore become visible in another order, or never.                    *)
(***************************************************************************)
EXTENDS Integers, Sequences, FiniteSets

CONSTANTS
    Merchants,      \* tenants; the topic is keyed, hence ordered, by merchant
    Publishers,     \* runs of publish_pending_events that can overlap
    BatchSize,      \* LIMIT of the query
    MaxEvents,      \* bound: rows ever inserted
    MaxFailures,    \* bound: runs that crash or end in an exception
    MaxLost,        \* bound: sends that fail
    None

ASSUME BatchSizeAssumption == BatchSize \in Nat \ {0}
ASSUME BoundsAssumption == MaxEvents \in Nat /\ MaxFailures \in Nat /\ MaxLost \in Nat
ASSUME NoMerchantAssumption == None \notin Merchants

Events == 1..MaxEvents

VARIABLES
    row,        \* row[e]: "none", "open" (uncommitted), "pending", "published", "aborted"
    merchant,   \* merchant[e]: the tenant of the row
    cause,      \* cause[e]: the committed row whose effect the request saw, 0 if none
    batch,      \* batch[k]: the rows a run of the task has locked
    buffer,     \* buffer[k]: those its Kafka producer has still to deliver
    topic,      \* topic[m]: the messages of merchant m, in offset order
    failures,   \* runs that failed so far
    lost,       \* sends that failed so far
    overlapped  \* history: a run fetched while another one was still at work

rowVars == <<row, merchant, cause>>
outboxVars == <<row, merchant, cause, batch, buffer, topic, failures, lost, overlapped>>

OutboxInit ==
    /\ row = [e \in Events |-> "none"]
    /\ merchant = [e \in Events |-> None]
    /\ cause = [e \in Events |-> 0]
    /\ batch = [k \in Publishers |-> {}]
    /\ buffer = [k \in Publishers |-> {}]
    /\ topic = [m \in Merchants |-> <<>>]
    /\ failures = 0
    /\ lost = 0
    /\ overlapped = FALSE

Visible(e) == row[e] \in {"pending", "published"}
Latest(e) == row[e] = "none" /\ \A d \in Events : d < e => row[d] # "none"

-----------------------------------------------------------------------------
(* The request transactions                                                *)

\* A merchant starts with merchant.created; whatever else is emitted for it
\* comes from a request that read rows committed together with an event d.
Emit(e, m, d) ==
    /\ Latest(e)
    /\ \/ /\ d = 0
          /\ \A x \in Events : merchant[x] = m => row[x] = "aborted"
       \/ /\ d \in Events
          /\ Visible(d)
          /\ merchant[d] = m
    /\ row' = [row EXCEPT ![e] = "open"]
    /\ merchant' = [merchant EXCEPT ![e] = m]
    /\ cause' = [cause EXCEPT ![e] = d]
    /\ UNCHANGED <<batch, buffer, topic, failures, lost, overlapped>>

\* The request's transaction ends, and the row with it.
EndRequest(e, outcome) ==
    /\ row[e] = "open"
    /\ row' = [row EXCEPT ![e] = outcome]
    /\ UNCHANGED <<merchant, cause, batch, buffer, topic, failures, lost, overlapped>>

-----------------------------------------------------------------------------
(* publish_pending_events                                                  *)

Locked == UNION {batch[k] : k \in Publishers}

\* Mutant: FOR UPDATE SKIP LOCKED is missing.
Ready_NoSkipLocked == {e \in Events : row[e] = "pending"}

\* Mutant: rows of open transactions are read as well.
Ready_DirtyRead == {e \in Events : row[e] \in {"open", "pending"}} \ Locked

\* Mutant: a cursor on created_at, past the newest row published.
Ready_Cursor ==
    {e \in Events : row[e] = "pending" /\ \A d \in Events : row[d] = "published" => d < e} \ Locked

\* WHERE status = 'pending' ... FOR UPDATE SKIP LOCKED
Ready == {e \in Events : row[e] = "pending"} \ Locked

\* Mutant: ORDER BY created_at DESC.
Fetch_NewestFirst(k) ==
    LET newest == {e \in Ready : Cardinality({d \in Ready : d > e}) < BatchSize} IN
    /\ batch[k] \cup buffer[k] = {}
    /\ Ready # {}
    /\ batch' = [batch EXCEPT ![k] = newest]
    /\ buffer' = [buffer EXCEPT ![k] = newest]
    /\ overlapped' = (overlapped \/ \E j \in Publishers : batch[j] \cup buffer[j] # {})
    /\ UNCHANGED <<rowVars, topic, failures, lost>>

\* SELECT ... ORDER BY created_at LIMIT; a run that finds nothing changes nothing.
Fetch(k) ==
    LET oldest == {e \in Ready : Cardinality({d \in Ready : d < e}) < BatchSize} IN
    /\ batch[k] \cup buffer[k] = {}
    /\ Ready # {}
    /\ batch' = [batch EXCEPT ![k] = oldest]
    /\ buffer' = [buffer EXCEPT ![k] = oldest]
    /\ overlapped' = (overlapped \/ \E j \in Publishers : batch[j] \cup buffer[j] # {})
    /\ UNCHANGED <<rowVars, topic, failures, lost>>

\* Mutant: send() without a key, so nothing orders a merchant's messages.
Send_NoKey(k, e) ==
    /\ e \in buffer[k]
    /\ topic' = [topic EXCEPT ![merchant[e]] = Append(topic[merchant[e]], e)]
    /\ buffer' = [buffer EXCEPT ![k] = buffer[k] \ {e}]
    /\ UNCHANGED <<rowVars, batch, failures, lost, overlapped>>

\* producer.send with key merchant_id: the producer delivers the messages of a
\* partition in the order of the calls, those of different ones in any order.
Send(k, e) ==
    /\ e \in buffer[k]
    /\ \A d \in buffer[k] : merchant[d] = merchant[e] => e <= d
    /\ topic' = [topic EXCEPT ![merchant[e]] = Append(topic[merchant[e]], e)]
    /\ buffer' = [buffer EXCEPT ![k] = buffer[k] \ {e}]
    /\ UNCHANGED <<rowVars, batch, failures, lost, overlapped>>

\* send raises and is logged, or the delivery fails: nobody looks at its future.
LoseSend(k, e) ==
    /\ e \in buffer[k]
    /\ lost < MaxLost
    /\ lost' = lost + 1
    /\ buffer' = [buffer EXCEPT ![k] = buffer[k] \ {e}]
    /\ UNCHANGED <<rowVars, batch, topic, failures, overlapped>>

\* Mutant: the rows are marked before flush() has returned.
MarkPublished_BeforeFlush(k) ==
    /\ batch[k] # {}
    /\ row' = [e \in Events |-> IF e \in batch[k] THEN "published" ELSE row[e]]
    /\ batch' = [batch EXCEPT ![k] = {}]
    /\ buffer' = [buffer EXCEPT ![k] = {}]
    /\ UNCHANGED <<merchant, cause, topic, failures, lost, overlapped>>

\* flush() has returned; every row of the batch becomes published, and unlocked.
MarkPublished(k) ==
    /\ batch[k] # {}
    /\ buffer[k] = {}
    /\ row' = [e \in Events |-> IF e \in batch[k] THEN "published" ELSE row[e]]
    /\ batch' = [batch EXCEPT ![k] = {}]
    /\ UNCHANGED <<merchant, cause, buffer, topic, failures, lost, overlapped>>

\* Mutant: the except branch commits, with every row of the batch marked.
FailRun_Commits(k) ==
    /\ batch[k] \cup buffer[k] # {}
    /\ failures < MaxFailures
    /\ failures' = failures + 1
    /\ row' = [e \in Events |-> IF e \in batch[k] THEN "published" ELSE row[e]]
    /\ batch' = [batch EXCEPT ![k] = {}]
    /\ \E n \in Events \cup {0} : buffer' = [buffer EXCEPT ![k] = {e \in buffer[k] : e <= n}]
    /\ UNCHANGED <<merchant, cause, topic, lost, overlapped>>

\* A dead worker (n = 0), or an exception: the rows are pending again, also those
\* that were delivered, while producer.close() in the finally clause still delivers
\* what the loop had handed over, up to n.
FailRun(k) ==
    /\ batch[k] \cup buffer[k] # {}
    /\ failures < MaxFailures
    /\ failures' = failures + 1
    /\ batch' = [batch EXCEPT ![k] = {}]
    /\ \E n \in Events \cup {0} : buffer' = [buffer EXCEPT ![k] = {e \in buffer[k] : e <= n}]
    /\ UNCHANGED <<rowVars, topic, lost, overlapped>>

-----------------------------------------------------------------------------

Requests ==
    \/ \E e \in Events, m \in Merchants, d \in Events \cup {0} : Emit(e, m, d)
    \/ \E e \in Events, outcome \in {"pending", "aborted"} : EndRequest(e, outcome)

Deliver(k) == \E e \in Events : Send(k, e) \/ LoseSend(k, e)

Task(k) == Fetch(k) \/ Deliver(k) \/ MarkPublished(k) \/ FailRun(k)

OutboxNext == Requests \/ \E k \in Publishers : Task(k)

OutboxSpec == OutboxInit /\ [][OutboxNext]_outboxVars

\* Celery beat queues a run every 2 seconds, and a run that is alive goes on;
\* the producer delivers what it holds; request transactions end.
OutboxFairness ==
    /\ \A k \in Publishers : /\ WF_outboxVars(Fetch(k))
                             /\ WF_outboxVars(Deliver(k))
                             /\ WF_outboxVars(MarkPublished(k))
    /\ WF_outboxVars(\E e \in Events, o \in {"pending", "aborted"} : EndRequest(e, o))

OutboxFairSpec == OutboxSpec /\ OutboxFairness
=============================================================================
