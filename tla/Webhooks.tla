-------------------------------- MODULE Webhooks --------------------------------
(***************************************************************************)
(* Webhooks of third-party consumers: their endpoints, the Kafka consumer  *)
(* that makes the first attempt at every delivery, and the Celery tasks    *)
(* that retry deliveries and dead letters.  The endpoint's own server and  *)
(* the messages of the topic are not the gateway's: the one answers as it  *)
(* likes, the others are numbered in the order they are published.         *)
(***************************************************************************)
EXTENDS ConsumerAccess, FiniteSets

CONSTANTS
    Endpoints,
    ThreadHasPool,  \* whether the consumer's thread has connections of its own event
                    \* loop: FALSE in this repository, whose pool is the service's
    Workers,        \* child processes of Celery, one task at a time each
    MaxRetries,     \* TP_WEBHOOK_MAX_RETRIES
    Deliveries,     \* bound: keys for rows of tp_webhook_events
    MaxLetters      \* bound: dead letters of one delivery

ASSUME PoolAssumption == ThreadHasPool \in BOOLEAN
ASSUME RetriesAssumption == MaxRetries \in Nat /\ MaxLetters \in Nat \ {0} /\ Deliveries \subseteq Nat

VARIABLES
    endpoint,       \* tp_webhook_endpoints: [owner, scope, wants, active], or None
    published,      \* messages in the topic; message n belongs to OwnerOf(n)
    position,       \* the next message the consumer takes, less one
    committed,      \* the group's offset, or None before its first commit
    hook,           \* the consumer's coroutine: step, message, endpoints it fetched
    delivery,       \* tp_webhook_events: [ev, e, status, attempts], or None
    letters,        \* tp_dead_letter_queue: pairs <<delivery, n>>
    buried,         \* history: how many dead letters a delivery has had
    retryQueue,     \* tp_webhook_retry tasks in the broker, per delivery
    letterQueue,    \* tp_dlq_retry tasks in the broker
    worker,         \* the task each Celery process runs
    pooled,         \* processes with a pool: it belongs to the loop of their first task
    acked,          \* history: <<message, endpoint>> answered with 2xx
    handled,        \* history: messages the consumer was done with
    dropped,        \* history: messages it gave up at an exception
    raised,         \* history: failures of the database under a message in hand
    jumped          \* history: messages it joined behind, without an offset

hookVars == <<endpoint, published, position, committed, hook, delivery, letters, buried, retryQueue,
              letterQueue, worker, pooled, acked, handled, dropped, raised, jumped>>
topicVars == <<published, position, committed, hook, handled, dropped, raised, jumped>>
taskVars == <<letters, buried, retryQueue, letterQueue, worker, pooled>>

TheMerchant == CHOOSE m \in Merchants : TRUE      \* bound: all messages are one merchant's

Resting == [step |-> "ready", ev |-> 0, todo |-> {}, e |-> None, ok |-> FALSE]
Down == [Resting EXCEPT !.step = "down"]
Free == [step |-> "free", d |-> 0, n |-> 0, ok |-> FALSE]

\* What a row of tp_webhook_events holds; none is the absent row.
Delivery == [ev : Nat, e : Endpoints, status : {"failed", "delivered", "dlq"}, attempts : Nat]
ASSUME NoDeliveryAssumption == None \notin Delivery

OpenEndpoint(c) == [owner |-> c, scope |-> None, wants |-> TRUE, active |-> TRUE]

WebhookInit ==
    /\ \E row \in {None} \cup {OpenEndpoint(c) : c \in {d \in Consumers : consumers[d] # None}} :
         endpoint = [e \in Endpoints |-> row]
    /\ published = 0 /\ position = 0 /\ committed = None
    /\ hook = Down
    /\ delivery = [d \in Deliveries |-> None]
    /\ letters = {} /\ buried = [d \in Deliveries |-> 0]
    /\ retryQueue = [d \in Deliveries |-> 0] /\ letterQueue = {}
    /\ worker = [w \in Workers |-> Free] /\ pooled = {}
    /\ acked = {} /\ handled = {} /\ dropped = {} /\ raised = 0 /\ jumped = {}

Elsewhere == UNCHANGED <<now, consumers, access, cache, token, offSince, missed>>

-----------------------------------------------------------------------------
(* Endpoints: requests that verify_third_party_access has let through      *)

HookRequest(r, e) == req[r].step = "hook" /\ (endpoint[e] # None => endpoint[e].owner = req[r].c)

\* A new endpoint has a new id (bound: one that nothing refers to is used again).
NewId(e) ==
    /\ endpoint[e] = None
    /\ \A r \in Requests : req[r].row # e
    /\ \A f \in hook.todo \cup {hook.e} : f # None => f.id # e

\* INSERT first, then the ping, which takes as long as the endpoint likes.
CreateEndpoint(r, e) ==
    /\ HookRequest(r, e) /\ NewId(e)
    /\ \E scope \in Merchants \cup {None} :
         endpoint' = [endpoint EXCEPT ![e] = [OpenEndpoint(req[r].c) EXCEPT !.scope = scope, !.active = FALSE]]
    /\ Await(r, "ping", "none", e)
    /\ NoCost /\ Elsewhere /\ UNCHANGED <<delivery, acked>> /\ UNCHANGED topicVars /\ UNCHANGED taskVars

VerifyEndpoint(r, e) ==
    /\ HookRequest(r, e) /\ endpoint[e] # None
    /\ Await(r, "ping", "none", e)
    /\ NoCost /\ Elsewhere /\ UNCHANGED hookVars

Ping(r) ==
    /\ req[r].step = "ping"
    /\ \/ Await(r, "activate", "none", req[r].row)
       \/ Finish(r)
    /\ NoCost /\ Elsewhere /\ UNCHANGED hookVars

\* The UPDATE finds no row when the endpoint was deleted meanwhile.
ActivateEndpoint(r) ==
    LET e == req[r].row IN
    /\ req[r].step = "activate"
    /\ endpoint' = IF endpoint[e] = None THEN endpoint ELSE [endpoint EXCEPT ![e].active = TRUE]
    /\ Finish(r)
    /\ NoCost /\ Elsewhere /\ UNCHANGED <<delivery, acked>> /\ UNCHANGED topicVars /\ UNCHANGED taskVars

\* Other event types; a request cannot set the status.
UpdateEndpoint(r, e) ==
    /\ HookRequest(r, e) /\ endpoint[e] # None
    /\ endpoint' = [endpoint EXCEPT ![e].wants = ~@]
    /\ Finish(r)
    /\ NoCost /\ Elsewhere /\ UNCHANGED <<delivery, acked>> /\ UNCHANGED topicVars /\ UNCHANGED taskVars

\* The foreign keys of deliveries and dead letters keep an endpoint that had any.
DeleteEndpoint(r, e) ==
    /\ HookRequest(r, e) /\ endpoint[e] # None
    /\ endpoint' = IF \E d \in Deliveries : delivery[d] # None /\ delivery[d].e = e
                   THEN endpoint ELSE [endpoint EXCEPT ![e] = None]
    /\ Finish(r)
    /\ NoCost /\ Elsewhere /\ UNCHANGED <<delivery, acked>> /\ UNCHANGED topicVars /\ UNCHANGED taskVars

-----------------------------------------------------------------------------
(* The Kafka consumer                                                      *)

Publish ==
    /\ Spend("publish")
    /\ published' = published + 1
    /\ Elsewhere /\ UNCHANGED req
    /\ UNCHANGED <<endpoint, position, committed, hook, delivery, acked, handled, dropped, raised, jumped>> /\ UNCHANGED taskVars

\* Without an offset the group starts at the end: auto_offset_reset="latest".
Join ==
    /\ hook.step = "down"
    /\ hook' = Resting
    /\ position' = IF committed = None THEN published ELSE committed
    /\ jumped' = IF committed = None THEN jumped \cup (1..published) ELSE jumped
    /\ NoCost /\ Elsewhere /\ UNCHANGED req
    /\ UNCHANGED <<endpoint, published, committed, delivery, acked, handled, dropped, raised>> /\ UNCHANGED taskVars

\* Mutant: the offset of the message in hand is committed on the timer.
AutoCommit_AnyTime ==
    /\ hook.step # "down" /\ committed # position
    /\ committed' = position
    /\ NoCost /\ Elsewhere /\ UNCHANGED req
    /\ UNCHANGED <<endpoint, published, position, hook, delivery, acked, handled, dropped, raised, jumped>> /\ UNCHANGED taskVars

\* The timer is looked at between two messages only.
AutoCommit ==
    /\ hook.step = "ready" /\ committed # position
    /\ committed' = position
    /\ NoCost /\ Elsewhere /\ UNCHANGED req
    /\ UNCHANGED <<endpoint, published, position, hook, delivery, acked, handled, dropped, raised, jumped>> /\ UNCHANGED taskVars

TakeMessage ==
    /\ hook.step = "ready" /\ position < published
    /\ position' = position + 1
    /\ hook' = [hook EXCEPT !.step = "targets", !.ev = position + 1]
    /\ NoCost /\ Elsewhere /\ UNCHANGED req
    /\ UNCHANGED <<endpoint, published, committed, delivery, acked, handled, dropped, raised, jumped>> /\ UNCHANGED taskVars

Fits(e) ==
    /\ endpoint[e] # None /\ endpoint[e].active /\ endpoint[e].wants
    /\ consumers[endpoint[e].owner].status = "active"
    /\ endpoint[e].scope \in {None, TheMerchant}

\* get_active_endpoints_for_event: what the loop works through is what it fetched
\* here, whatever becomes of the rows.
Targets ==
    {[id |-> e, owner |-> endpoint[e].owner, scope |-> endpoint[e].scope] : e \in {f \in Endpoints : Fits(f)}}

\* What the loop does next, with these endpoints to do; "check" for one without a scope.
Turn(todo) ==
    IF todo = {} THEN hook' = Resting /\ handled' = handled \cup {hook.ev}
    ELSE /\ handled' = handled
         /\ \E f \in todo :
              hook' = [hook EXCEPT !.todo = todo \ {f}, !.e = f,
                                   !.step = IF f.scope # None THEN "post" ELSE "check"]

\* The first use of the pool: it answers on the loop it was made on only.
FindTargets ==
    /\ hook.step = "targets" /\ ThreadHasPool
    /\ Turn(Targets)
    /\ NoCost /\ Elsewhere /\ UNCHANGED req
    /\ UNCHANGED <<endpoint, published, position, committed, delivery, acked, dropped, raised, jumped>> /\ UNCHANGED taskVars

CheckEndpointAccess ==
    /\ hook.step = "check"
    /\ IF <<hook.e.owner, TheMerchant>> \in access
       THEN hook' = [hook EXCEPT !.step = "post"] /\ handled' = handled
       ELSE Turn(hook.todo)
    /\ NoCost /\ Elsewhere /\ UNCHANGED req
    /\ UNCHANGED <<endpoint, published, position, committed, delivery, acked, dropped, raised, jumped>> /\ UNCHANGED taskVars

\* The endpoint answers 2xx, or something else, or nothing.
PostWebhook ==
    /\ hook.step = "post"
    /\ \E ok \in BOOLEAN :
         /\ hook' = [hook EXCEPT !.step = "insert", !.ok = ok]
         /\ acked' = IF ok THEN acked \cup {<<hook.ev, hook.e.id>>} ELSE acked
    /\ NoCost /\ Elsewhere /\ UNCHANGED req
    /\ UNCHANGED <<endpoint, published, position, committed, delivery, handled, dropped, raised, jumped>> /\ UNCHANGED taskVars

FreeRows == {d \in Deliveries : delivery[d] = None}
NextRow == CHOOSE d \in FreeRows : \A f \in FreeRows : d <= f

\* The log row; the foreign key refuses it when the endpoint is gone.
InsertDelivery ==
    /\ hook.step = "insert" /\ FreeRows # {}
    /\ delivery' = IF endpoint[hook.e.id] = None THEN delivery
                   ELSE [delivery EXCEPT ![NextRow] =
                          [ev |-> hook.ev, e |-> hook.e.id, attempts |-> 1,
                           status |-> IF hook.ok THEN "delivered" ELSE "failed"]]
    /\ Turn(hook.todo)
    /\ NoCost /\ Elsewhere /\ UNCHANGED req
    /\ UNCHANGED <<endpoint, published, position, committed, acked, dropped, raised, jumped>> /\ UNCHANGED taskVars

\* A statement fails, or there is no pool on this loop.  Inside the inner try only the
\* endpoint is lost, outside it the message is.
HookRaises ==
    /\ IF hook.step = "targets" /\ ~ThreadHasPool THEN NoCost /\ raised' = raised
       ELSE Spend("crash") /\ raised' = raised + 1
    /\ \/ /\ hook.step \in {"targets", "check"}
          /\ hook' = Resting /\ dropped' = dropped \cup {hook.ev} /\ handled' = handled
       \/ /\ hook.step \in {"post", "insert"}
          /\ Turn(hook.todo) /\ dropped' = dropped
    /\ Elsewhere /\ UNCHANGED req
    /\ UNCHANGED <<endpoint, published, position, committed, delivery, acked, jumped>> /\ UNCHANGED taskVars

\* The process stops, or the thread ends; it comes back with the process.
HookStops ==
    /\ hook.step # "down" /\ Spend("crash")
    /\ hook' = Down
    /\ Elsewhere /\ UNCHANGED req
    /\ UNCHANGED <<endpoint, published, position, committed, delivery, acked, handled, dropped, raised, jumped>> /\ UNCHANGED taskVars

HookNext ==
    \/ Join \/ AutoCommit \/ TakeMessage \/ FindTargets \/ CheckEndpointAccess
    \/ PostWebhook \/ InsertDelivery \/ HookRaises \/ HookStops
=============================================================================
