----------------------------- MODULE ThirdPartyProofs -----------------------------
(***************************************************************************)
(* What holds of the third-party side for any consumers, requests, tasks,  *)
(* endpoints and deliveries, any lifetimes and any mix of activities.      *)
(***************************************************************************)
EXTENDS ThirdParty, FiniteSums, WellFoundedInduction, TLAPS

-----------------------------------------------------------------------------
(* Why they hold: what is true of the copies and of the requests that carry *)
(* them                                                                     *)

RequestSteps ==
    {"idle", "lookup", "fetch", "store", "access", "count", "prune", "serve", "invalidate",
     "hook", "ping", "activate"}
Operations == {"none", "page", "list", "hook", "admin", "detail"}
Reasons == {"none", "auth", "limit", "detail"}

RequestType ==
    [step : RequestSteps, op : Operations, why : Reasons, c : Consumers \cup {None},
     m : Merchants \cup {None}, row : Row \cup Endpoints \cup {None}, stamp : Nat, since : Nat]

Copies == [Consumers -> [row : Row, until : Nat, late : BOOLEAN] \cup {None}]

AccessTypeOK ==
    /\ now \in Nat
    /\ consumers \in [Consumers -> Row \cup {None}]
    /\ cache \in Copies
    /\ token \in [Consumers -> Nat]
    /\ req \in [Requests -> RequestType]
    /\ offSince \in [Consumers -> Nat]
    /\ \A c \in Consumers : offSince[c] <= now

Active(c) == consumers[c].status = "active"

\* A coroutine at an await: whose request it is, how old the await is, and, when it
\* brings a row to the cache, how old that row may be.
RequestSound(q) ==
    \/ q = Idle
    \/ /\ q.step # "idle"
       /\ q.c \in Consumers /\ consumers[q.c] # None
       /\ q.since <= now /\ now <= q.since + MaxDelay
       /\ q.why = "auth" => q.step \in {"lookup", "fetch", "store"}
       /\ q.step = "store" =>
            /\ q.row \in Row
            /\ q.row.status = "active" => Active(q.c) \/ q.since <= offSince[q.c]

RequestsSound == \A r \in Requests : RequestSound(req[r])

TokensOwned == \A c \in Consumers : token[c] # 0 => consumers[c] # None

\* A copy that shows a consumer active that is not ends with the TTL and one await.
CopiesExpire ==
    \A c \in Consumers : cache[c] # None =>
        /\ consumers[c] # None
        /\ cache[c].until <= now + TTL
        /\ cache[c].row.status = "active" =>
             Active(c) \/ cache[c].until <= offSince[c] + TTL + MaxDelay

\* StaleOnlyByRace of every copy, expired ones too.
CopiesExplained ==
    \A c \in Consumers :
        cache[c] # None /\ cache[c].row # consumers[c] =>
            \/ cache[c].late
            \/ c \in missed
            \/ \E r \in Requests : req[r].step = "invalidate" /\ req[r].c = c

AccessInv == AccessTypeOK /\ RequestsSound /\ TokensOwned /\ CopiesExpire /\ CopiesExplained

-----------------------------------------------------------------------------
(* ... and of the webhook consumer and the tasks                           *)

EndpointsTyped ==
    endpoint \in [Endpoints -> {None} \cup
        [owner : Consumers, scope : Merchants \cup {None}, wants : BOOLEAN, active : BOOLEAN]]

\* What the loop carries of an endpoint.
Fetched == [id : Endpoints, owner : Consumers, scope : Merchants \cup {None}]

HookType ==
    [step : {"down", "ready", "targets", "check", "post", "insert"}, ev : Nat,
     todo : SUBSET Fetched, e : Fetched \cup {None}, ok : BOOLEAN]

TopicTypeOK ==
    /\ published \in Nat /\ position \in Nat /\ committed \in Nat \cup {None}
    /\ hook \in HookType
    /\ hook.step \in {"check", "post", "insert"} => hook.e \in Fetched
    /\ hook.step \in {"down", "ready"} => hook.ev = 0
    /\ raised \in Nat

\* A message is given up for a failure of its own, when the thread can reach its pool.
GivenUpCounted ==
    /\ IsFiniteSet(dropped)
    /\ ThreadHasPool => Cardinality(dropped) <= raised

\* What an offset that is committed leaves behind was seen to.
OffsetsCover == committed # None => \A n \in 1..committed : n \in handled \cup dropped \cup jumped

TaskSteps ==
    {"free", "endpoint", "bury", "post", "record", "requeue", "mark", "letter", "delete"}
TaskType == [step : TaskSteps, d : Nat, n : Nat, ok : BOOLEAN]

TaskTypeOK ==
    /\ delivery \in [Deliveries -> Delivery \cup {None}]
    /\ letters \subseteq Deliveries \X Nat
    /\ buried \in [Deliveries -> Nat]
    /\ retryQueue \in [Deliveries -> Nat]
    /\ worker \in [Workers -> TaskType]

Told(d) == <<delivery[d].ev, delivery[d].e>> \in acked
HasLetter(d) == \E l \in letters : l[1] = d

\* Queues, letters and tasks are about rows of the log that exist, and a task that
\* is about to write what it knows knows it.
TaskSound(t) ==
    t.step # "free" =>
        /\ t.d \in Deliveries /\ delivery[t.d] # None
        /\ t.step = "record" /\ t.ok => Told(t.d)
        /\ t.step = "mark" => Told(t.d) \/ HasLetter(t.d)
        /\ t.step = "delete" => Told(t.d)

RowsExist ==
    /\ \A d \in Deliveries : retryQueue[d] > 0 => delivery[d] # None
    /\ \A l \in letters : delivery[l[1]] # None

AnswerKept == hook.step = "insert" /\ hook.ok => <<hook.ev, hook.e.id>> \in acked

HookInv ==
    /\ EndpointsTyped
    /\ TopicTypeOK /\ GivenUpCounted /\ OffsetsCover /\ SkippedOnlyWithoutOffset
    /\ TaskTypeOK /\ RowsExist /\ AnswerKept
    /\ \A w \in Workers : TaskSound(worker[w])
    /\ DeadLetterOrDelivered

-----------------------------------------------------------------------------

\* All that the invariant of the consumers' copies speaks of, but for the requests.
copyVars == <<now, consumers, cache, token, offSince, missed>>

LEMMA AccessInitInvariant == AccessInit => AccessInv
<1> SUFFICES ASSUME AccessInit  PROVE  AccessInv
  OBVIOUS
<1> USE DEF AccessInit
<1>1. NewRow \in Row
  BY LimitsAssumption DEF NewRow, Row, Statuses
<1>2. AccessTypeOK
  <2>1. token \in [Consumers -> Nat]  BY TimesAssumption
  <2>2. req \in [Requests -> RequestType]  BY DEF Idle, RequestType, RequestSteps, Operations, Reasons
  <2> QED  BY <1>1, <2>1, <2>2 DEF AccessTypeOK, Copies
<1>3. RequestsSound  BY DEF RequestsSound, RequestSound
<1>4. TokensOwned  BY DEF TokensOwned
<1> QED  BY <1>2, <1>3, <1>4 DEF AccessInv, CopiesExpire, CopiesExplained

\* Copies change, or only the requests do, so that what is known of them goes on.
CopiesKept ==
    /\ UNCHANGED <<now, consumers, token, offSince>>
    /\ cache' \in Copies
    /\ CopiesExpire' /\ CopiesExplained'

\* A request goes on to a sound state, and what is known of the copies is kept.
LEMMA RequestMoves ==
  ASSUME AccessInv, CopiesKept,
         NEW r \in Requests, NEW q \in RequestType, RequestSound(q),
         req' = [req EXCEPT ![r] = q]
  PROVE  AccessInv'
<1> USE DEF AccessInv, CopiesKept
<1>1. AccessTypeOK'  BY DEF AccessTypeOK
<1>2. RequestsSound'
  BY DEF RequestsSound, RequestSound, Active, AccessTypeOK
<1>3. TokensOwned'
  BY DEF TokensOwned
<1> QED  BY <1>1, <1>2, <1>3

\* A request that moves alone disturbs no copy, unless it has yet to delete one.
LEMMA CopiesRest ==
  ASSUME AccessInv, UNCHANGED copyVars, NEW r \in Requests, req[r].step # "invalidate",
         \A s \in Requests \ {r} : req'[s] = req[s]
  PROVE  CopiesKept
<1> USE DEF AccessInv, copyVars
<1>1. cache' \in Copies  BY DEF AccessTypeOK
<1>2. CopiesExpire'  BY DEF CopiesExpire, Active
<1>3. CopiesExplained'  BY DEF CopiesExplained
<1> QED  BY <1>1, <1>2, <1>3 DEF CopiesKept

LEMMA IdleSound == Idle \in RequestType /\ RequestSound(Idle)
  BY DEF Idle, RequestType, RequestSteps, Operations, Reasons, RequestSound

\* What Await and Finish do to the other requests: nothing.
LEMMA OthersRest ==
  ASSUME AccessInv, NEW r \in Requests, NEW q, req' = [req EXCEPT ![r] = q]
  PROVE  \A s \in Requests \ {r} : req'[s] = req[s]
  BY DEF AccessInv, AccessTypeOK

LEMMA FinishKeeps ==
  ASSUME AccessInv, NEW r \in Requests, Finish(r),
         CopiesKept \/ (UNCHANGED copyVars /\ req[r].step # "invalidate")
  PROVE  AccessInv'
<1>1. req' = [req EXCEPT ![r] = Idle]
  BY DEF Finish
<1>2. CopiesKept
  BY <1>1, OthersRest, CopiesRest
<1> QED  BY <1>1, <1>2, IdleSound, RequestMoves

\* A request on its way is put to a new await.
LEMMA AwaitKeeps ==
  ASSUME AccessInv, NEW r \in Requests,
         NEW step \in RequestSteps, NEW why \in Reasons, NEW row \in Row \cup Endpoints \cup {None},
         Await(r, step, why, row),
         CopiesKept \/ UNCHANGED copyVars,
         req[r].step \notin {"idle", "invalidate"}, step # "idle",
         why = "auth" => step \in {"lookup", "fetch", "store"},
         step = "store" => row \in Row /\ (row.status = "active" => Active(req[r].c))
  PROVE  AccessInv'
<1> DEFINE q == [req[r] EXCEPT !.step = step, !.why = why, !.row = row, !.since = now,
                               !.stamp = IF step = "count" \/ step = "prune" THEN now
                                         ELSE req[r].stamp]
<1>1. req[r] \in RequestType /\ now \in Nat
  BY DEF AccessInv, AccessTypeOK
<1>2. q \in RequestType
  BY <1>1 DEF RequestType
<1>3. /\ q.step = step /\ q.why = why /\ q.row = row /\ q.since = now /\ q.c = req[r].c
  BY <1>1 DEF RequestType
<1>4. req[r].c \in Consumers /\ consumers[req[r].c] # None
  BY DEF AccessInv, RequestsSound, RequestSound, Idle
<1>5. now <= now + MaxDelay
  BY <1>1, TimesAssumption
<1>6. RequestSound(q)
  BY <1>1, <1>3, <1>4, <1>5 DEF RequestSound
<1>7. req' = [req EXCEPT ![r] = q]
  BY DEF Await
<1> HIDE DEF q
<1>8. CopiesKept
  BY <1>7, OthersRest, CopiesRest
<1> QED  BY <1>2, <1>6, <1>7, <1>8, RequestMoves

\* A request begins: the copy of a registered consumer is looked up.
LEMMA BeginKeeps ==
  ASSUME AccessInv, UNCHANGED copyVars, NEW r \in Requests, req[r] = Idle,
         NEW q \in RequestType, q.step = "lookup", q.since = now,
         q.c \in Consumers, consumers[q.c] # None,
         req' = [req EXCEPT ![r] = q]
  PROVE  AccessInv'
<1>1. now \in Nat /\ now <= now + MaxDelay
  BY TimesAssumption DEF AccessInv, AccessTypeOK
<1>2. RequestSound(q)
  BY <1>1 DEF RequestSound
<1>3. CopiesKept
  BY OthersRest, CopiesRest DEF Idle
<1> QED  BY <1>2, <1>3, RequestMoves

LEMMA BeginRequestKeeps ==
  ASSUME AccessInv, NEW r \in Requests, NEW c \in Consumers, NEW m \in Merchants \cup {None},
         NEW op \in {"page", "list", "hook"}, BeginRequest(r, op, c, m)
  PROVE  AccessInv'
<1> DEFINE q == [Idle EXCEPT !.step = "lookup", !.op = op, !.why = "auth",
                             !.c = c, !.m = m, !.since = now]
<1>1. now \in Nat /\ consumers[c] # None
  BY DEF BeginRequest, AccessInv, AccessTypeOK, TokensOwned
<1>2. "lookup" \in RequestSteps /\ op \in Operations /\ "auth" \in Reasons
  BY DEF RequestSteps, Operations, Reasons
<1>3. q \in RequestType
  BY <1>1, <1>2, IdleSound DEF RequestType
<1>4. q.step = "lookup" /\ q.c = c /\ q.since = now
  BY IdleSound DEF RequestType
<1>5. req' = [req EXCEPT ![r] = q] /\ req[r] = Idle /\ UNCHANGED copyVars
  BY DEF BeginRequest, copyVars
<1> HIDE DEF q
<1> QED  BY <1>1, <1>3, <1>4, <1>5, BeginKeeps

LEMMA ConsumerDetailKeeps ==
  ASSUME AccessInv, NEW r \in Requests, NEW c \in Consumers, ConsumerDetail(r, c)
  PROVE  AccessInv'
<1> DEFINE q == [Idle EXCEPT !.step = "lookup", !.op = "detail", !.why = "detail",
                             !.c = c, !.since = now]
<1>1. now \in Nat /\ consumers[c] # None
  BY DEF ConsumerDetail, AccessInv, AccessTypeOK
<1>2. "lookup" \in RequestSteps /\ "detail" \in Operations /\ "detail" \in Reasons
  BY DEF RequestSteps, Operations, Reasons
<1>3. q \in RequestType
  BY <1>1, <1>2, IdleSound DEF RequestType
<1>4. q.step = "lookup" /\ q.c = c /\ q.since = now
  BY IdleSound DEF RequestType
<1>5. req' = [req EXCEPT ![r] = q] /\ req[r] = Idle /\ UNCHANGED copyVars
  BY DEF ConsumerDetail, copyVars
<1> HIDE DEF q
<1> QED  BY <1>1, <1>3, <1>4, <1>5, BeginKeeps

\* With the row in hand the request goes on to what it was for.
LEMMA ProceedKeeps ==
  ASSUME AccessInv, NEW r \in Requests, NEW row \in Row, Proceed(r, row),
         CopiesKept \/ UNCHANGED copyVars, req[r].step \in {"lookup", "store"}
  PROVE  AccessInv'
<1> USE DEF RequestSteps, Reasons
<1>1. CASE Finish(r)  BY <1>1, FinishKeeps
<1>2. CASE Await(r, "access", "none", None)  BY <1>2, AwaitKeeps
<1>3. CASE Await(r, "lookup", "limit", None)  BY <1>3, AwaitKeeps
<1>4. CASE Await(r, "hook", "none", None)  BY <1>4, AwaitKeeps
<1>5. CASE Await(r, "count", "none", row)  BY <1>5, AwaitKeeps
<1>6. CASE Await(r, "prune", "none", row)  BY <1>6, AwaitKeeps
<1> QED  BY <1>1, <1>2, <1>3, <1>4, <1>5, <1>6 DEF Proceed

LEMMA LookupKeeps ==
  ASSUME AccessInv, NEW r \in Requests, LookupHit(r) \/ LookupMiss(r) \/ CheckAccess(r)
  PROVE  AccessInv'
<1> USE DEF RequestSteps, Reasons
<1>1. req[r] \in RequestType /\ UNCHANGED copyVars
  BY DEF AccessInv, AccessTypeOK, LookupHit, LookupMiss, CheckAccess, copyVars
<1>2. req[r].why \in Reasons /\ (req[r].step # "idle" => req[r].c \in Consumers)
  BY <1>1 DEF RequestType, AccessInv, RequestsSound, RequestSound, Idle
<1>3. CASE LookupHit(r)
  <2>1. cache[req[r].c].row \in Row
    BY <1>2, <1>3 DEF LookupHit, Cached, AccessInv, AccessTypeOK, Copies
  <2> QED  BY <1>1, <1>3, <2>1, ProceedKeeps DEF LookupHit
<1>4. CASE LookupMiss(r)
  BY <1>1, <1>2, <1>4, AwaitKeeps DEF LookupMiss
<1>5. CASE CheckAccess(r)
  <2>1. CASE Finish(r)
    BY <1>1, <1>5, <2>1, FinishKeeps DEF CheckAccess
  <2>2. CASE Await(r, "lookup", "limit", None)
    BY <1>1, <1>5, <2>2, AwaitKeeps DEF CheckAccess
  <2> QED  BY <1>5, <2>1, <2>2 DEF CheckAccess
<1> QED  BY <1>3, <1>4, <1>5

\* The row a query of the primary returns is as fresh as its await.
LEMMA FetchKeeps ==
  ASSUME AccessInv, NEW r \in Requests, FetchRow(r)
  PROVE  AccessInv'
<1> USE DEF RequestSteps, Reasons
<1>1. req[r] \in RequestType /\ UNCHANGED copyVars /\ req[r].step = "fetch"
  BY DEF AccessInv, AccessTypeOK, FetchRow, copyVars
<1>2. req[r].why \in Reasons /\ req[r].c \in Consumers /\ consumers[req[r].c] # None
  BY <1>1 DEF RequestType, AccessInv, RequestsSound, RequestSound, Idle
<1>3. consumers[req[r].c] \in Row
  BY <1>2 DEF AccessInv, AccessTypeOK
<1> QED  BY <1>1, <1>2, <1>3, AwaitKeeps DEF FetchRow, Active

\* A copy lives for its TTL from now, and the row in it was active one await ago at most.
LEMMA StoreKeepsCopies ==
  ASSUME AccessInv, NEW r \in Requests, Store(r)
  PROVE  CopiesKept
<1> DEFINE c == req[r].c
<1>1. /\ req[r].step = "store" /\ c \in Consumers /\ consumers[c] # None
      /\ req[r].since <= now /\ now <= req[r].since + MaxDelay
      /\ req[r].row \in Row
      /\ req[r].row.status = "active" => Active(c) \/ req[r].since <= offSince[c]
  BY DEF Store, AccessInv, RequestsSound, RequestSound, Idle
<1>2. /\ cache' = [cache EXCEPT ![c] = [row |-> req[r].row, until |-> now + TTL,
                                        late |-> req[r].row # consumers[c]]]
      /\ UNCHANGED <<now, consumers, token, offSince, missed>>
      /\ \A s \in Requests \ {r} : req'[s] = req[s]
  BY OthersRest DEF Store, Proceed, Await, Finish
<1>3. /\ now \in Nat /\ TTL \in Nat /\ MaxDelay \in Nat /\ req[r].since \in Nat
      /\ offSince[c] \in Nat /\ cache \in Copies
  BY <1>1, TimesAssumption DEF AccessInv, AccessTypeOK, RequestType
<1> HIDE DEF c
<1>4. cache' \in Copies
  BY <1>1, <1>2, <1>3 DEF Copies
<1>5. CopiesExpire'
  <2>1. ASSUME NEW d \in Consumers, d # c  PROVE  cache'[d] = cache[d]
    BY <1>2, <1>3, <2>1 DEF Copies
  <2>2. /\ cache'[c].row = req[r].row /\ cache'[c].until = now + TTL
    BY <1>1, <1>2, <1>3 DEF Copies
  <2>3. req[r].row.status = "active" => Active(c) \/ now + TTL <= offSince[c] + TTL + MaxDelay
    BY <1>1, <1>3
  <2> QED  BY <1>1, <1>2, <1>3, <2>1, <2>2, <2>3 DEF CopiesExpire, AccessInv, Active
<1>6. CopiesExplained'
  <2>1. ASSUME NEW d \in Consumers, d # c, cache'[d] # None, cache'[d].row # consumers[d]
        PROVE  \/ cache'[d].late
               \/ d \in missed'
               \/ \E s \in Requests : req'[s].step = "invalidate" /\ req'[s].c = d
    <3>1. cache'[d] = cache[d]
      BY <1>2, <1>3, <2>1 DEF Copies
    <3>2. \/ cache[d].late \/ d \in missed
          \/ \E s \in Requests : req[s].step = "invalidate" /\ req[s].c = d
      BY <2>1, <3>1 DEF AccessInv, CopiesExplained
    <3> QED  BY <1>1, <1>2, <3>1, <3>2
  <2>2. cache'[c].row # consumers[c] => cache'[c].late
    BY <1>1, <1>2, <1>3 DEF Copies
  <2> QED  BY <1>2, <2>1, <2>2 DEF CopiesExplained
<1> QED  BY <1>2, <1>4, <1>5, <1>6 DEF CopiesKept

LEMMA StoreKeeps ==
  ASSUME AccessInv, NEW r \in Requests, Store(r)
  PROVE  AccessInv'
<1>1. req[r].row \in Row
  BY DEF Store, AccessInv, RequestsSound, RequestSound, Idle
<1> QED  BY <1>1, StoreKeepsCopies, ProceedKeeps DEF Store

\* The copy is gone, whatever it showed.
LEMMA InvalidateKeeps ==
  ASSUME AccessInv, NEW r \in Requests, Invalidate(r)
  PROVE  AccessInv'
<1> DEFINE c == req[r].c
<1>1. /\ cache' = [cache EXCEPT ![c] = None] /\ missed' = missed \ {c}
      /\ UNCHANGED <<now, consumers, token, offSince>> /\ Finish(r)
      /\ \A s \in Requests \ {r} : req'[s] = req[s]
  BY OthersRest DEF Invalidate, Finish
<1>2. cache \in Copies
  BY DEF AccessInv, AccessTypeOK
<1> HIDE DEF c
<1>3. cache' \in Copies /\ \A d \in Consumers : cache'[d] = IF d = c THEN None ELSE cache[d]
  BY <1>1, <1>2 DEF Copies
<1>4. CopiesExpire'
  BY <1>1, <1>3 DEF CopiesExpire, AccessInv, Active
<1>5. CopiesExplained'
  BY <1>1, <1>3 DEF CopiesExplained, AccessInv, c
<1> QED  BY <1>1, <1>3, <1>4, <1>5, FinishKeeps DEF CopiesKept

\* A request that fails before it has deleted the copy leaves its mark.
LEMMA FailKeeps ==
  ASSUME AccessInv, NEW r \in Requests, Fail(r)
  PROVE  AccessInv'
<1>1. /\ Finish(r) /\ UNCHANGED <<now, consumers, cache, token, offSince>>
      /\ missed' = IF req[r].step = "invalidate" THEN missed \cup {req[r].c} ELSE missed
      /\ \A s \in Requests \ {r} : req'[s] = req[s]
  BY OthersRest DEF Fail, Finish
<1>2. cache' \in Copies
  BY <1>1 DEF AccessInv, AccessTypeOK
<1>3. CopiesExpire'
  BY <1>1 DEF CopiesExpire, AccessInv, Active
<1>4. CopiesExplained'
  BY <1>1 DEF CopiesExplained, AccessInv
<1> QED  BY <1>1, <1>2, <1>3, <1>4, FinishKeeps DEF CopiesKept

\* A new row has no copy yet.
LEMMA RegisterKeeps ==
  ASSUME AccessInv, NEW c \in Consumers, Register(c)
  PROVE  AccessInv'
<1>1. /\ consumers[c] = None /\ consumers' = [consumers EXCEPT ![c] = NewRow]
      /\ UNCHANGED <<now, cache, token, req, offSince, missed>>
  BY DEF Register
<1>2. NewRow \in Row /\ NewRow # None
  BY LimitsAssumption, NoRowAssumption DEF NewRow, Row, Statuses
<1>3. AccessTypeOK'
  BY <1>1, <1>2 DEF AccessInv, AccessTypeOK
<1>4. \A d \in Consumers : \/ consumers'[d] # None /\ (d = c \/ consumers'[d] = consumers[d])
                           \/ d # c /\ consumers'[d] = consumers[d]
  BY <1>1, <1>2 DEF AccessInv, AccessTypeOK
<1>5. RequestsSound'
  BY <1>1, <1>4 DEF AccessInv, RequestsSound, RequestSound, Active
<1>6. TokensOwned' /\ CopiesExpire'
  BY <1>1, <1>4 DEF AccessInv, TokensOwned, CopiesExpire, Active
<1>7. CopiesExplained'
  BY <1>1, <1>4 DEF AccessInv, CopiesExplained, CopiesExpire
<1> QED  BY <1>3, <1>5, <1>6, <1>7 DEF AccessInv

LEMMA AuthenticateKeeps ==
  ASSUME AccessInv, NEW c \in Consumers, Authenticate(c)
  PROVE  AccessInv'
<1>1. /\ consumers[c] # None /\ token' = [token EXCEPT ![c] = now + TokenLife]
      /\ UNCHANGED <<now, consumers, cache, req, offSince, missed>>
  BY DEF Authenticate
<1>2. AccessTypeOK'
  BY <1>1, TimesAssumption DEF AccessInv, AccessTypeOK
<1>3. TokensOwned'
  BY <1>1 DEF AccessInv, AccessTypeOK, TokensOwned
<1>4. RequestsSound' /\ CopiesExpire' /\ CopiesExplained'
  BY <1>1 DEF AccessInv, RequestsSound, RequestSound, CopiesExpire, CopiesExplained, Active
<1> QED  BY <1>2, <1>3, <1>4 DEF AccessInv

LEMMA TickKeeps ==
  ASSUME AccessInv, Tick
  PROVE  AccessInv'
<1>1. /\ now' = now + 1 /\ UNCHANGED <<consumers, cache, token, req, offSince, missed>>
      /\ \A r \in Requests : req[r] # Idle => now < req[r].since + MaxDelay
      /\ now \in Nat /\ TTL \in Nat /\ MaxDelay \in Nat
  BY TimesAssumption DEF Tick, AccessInv, AccessTypeOK
<1>2. AccessTypeOK'
  BY <1>1 DEF AccessInv, AccessTypeOK
<1>3. RequestsSound'
  <2>1. ASSUME NEW r \in Requests, req[r] # Idle
        PROVE  req[r].since <= now + 1 /\ now + 1 <= req[r].since + MaxDelay
    <3>1. req[r].since \in Nat /\ req[r].since <= now
      BY <2>1 DEF AccessInv, AccessTypeOK, RequestType, RequestsSound, RequestSound
    <3> QED  BY <1>1, <2>1, <3>1
  <2> QED  BY <1>1, <2>1 DEF AccessInv, RequestsSound, RequestSound, Active
<1>4. CopiesExpire'
  <2>1. ASSUME NEW c \in Consumers, cache[c] # None  PROVE  cache[c].until <= now + 1 + TTL
    <3>1. cache[c].until \in Nat /\ cache[c].until <= now + TTL
      BY <2>1 DEF AccessInv, AccessTypeOK, Copies, CopiesExpire
    <3> QED  BY <1>1, <3>1
  <2> QED  BY <1>1, <2>1 DEF AccessInv, CopiesExpire, Active
<1>5. TokensOwned' /\ CopiesExplained'
  BY <1>1 DEF AccessInv, TokensOwned, CopiesExplained
<1> QED  BY <1>2, <1>3, <1>4, <1>5 DEF AccessInv

\* An update marks the moment the consumer stops being active, and owes a deletion:
\* what is on its way or in the cache is older than that.
LEMMA UpdateKeeps ==
  ASSUME AccessInv, NEW r \in Requests, NEW c \in Consumers, NEW row \in Row,
         UpdateConsumer(r, c, row)
  PROVE  AccessInv'
<1> DEFINE q == [Idle EXCEPT !.step = "invalidate", !.op = "admin", !.c = c, !.since = now]
<1>1. /\ req[r] = Idle /\ consumers[c] # None
      /\ consumers' = [consumers EXCEPT ![c] = row]
      /\ offSince' = IF consumers[c].status = "active" /\ row.status # "active"
                     THEN [offSince EXCEPT ![c] = now] ELSE offSince
      /\ req' = [req EXCEPT ![r] = q]
      /\ UNCHANGED <<now, cache, token, missed>>
  BY DEF UpdateConsumer
<1>2. now \in Nat /\ TTL \in Nat /\ MaxDelay \in Nat /\ now <= now + MaxDelay
  BY TimesAssumption DEF AccessInv, AccessTypeOK
<1>3. "invalidate" \in RequestSteps /\ "admin" \in Operations
  BY DEF RequestSteps, Operations
<1>4. q \in RequestType
  BY <1>2, <1>3, IdleSound DEF RequestType
<1>5. q.step = "invalidate" /\ q.c = c /\ q.since = now /\ q.why = "none"
  BY IdleSound DEF RequestType, Idle
<1> HIDE DEF q
<1>6. AccessTypeOK'
  BY <1>1, <1>2, <1>4 DEF AccessInv, AccessTypeOK
<1>7. /\ \A d \in Consumers \ {c} : consumers'[d] = consumers[d] /\ offSince'[d] = offSince[d]
      /\ consumers'[c] = row /\ row # None
      /\ Active(c) /\ row.status # "active" => offSince'[c] = now
      /\ ~(Active(c) /\ row.status # "active") => offSince'[c] = offSince[c]
      /\ \A s \in Requests : req'[s] = IF s = r THEN q ELSE req[s]
      /\ \A d \in Consumers : offSince[d] \in Nat
  BY <1>1, NoRowAssumption DEF AccessInv, AccessTypeOK, Active
<1>8. Active(c)' <=> row.status = "active"
  BY <1>7 DEF Active
<1>9. RequestsSound'
  <2>1. RequestSound(req[r])'
    BY <1>1, <1>2, <1>5, <1>7 DEF RequestSound
  <2>2. ASSUME NEW s \in Requests, s # r  PROVE  RequestSound(req[s])'
    <3>1. req'[s] = req[s] /\ RequestSound(req[s])
      BY <1>7, <2>2 DEF AccessInv, RequestsSound
    <3>2. CASE req[s] = Idle  BY <3>1, <3>2 DEF RequestSound
    <3>3. CASE req[s] # Idle
      <4>1. req[s].c \in Consumers /\ consumers'[req[s].c] # None
        BY <1>7, <3>1, <3>3 DEF RequestSound
      <4>2. Active(req[s].c) \/ req[s].since <= offSince[req[s].c]
              => consumers'[req[s].c].status = "active" \/ req[s].since <= offSince'[req[s].c]
        <5>1. CASE req[s].c = c
          <6>1. req[s].since <= now
            BY <3>1, <3>3 DEF RequestSound
          <6>2. CASE Active(c) /\ row.status # "active"
            BY <1>7, <5>1, <6>1, <6>2 DEF Active
          <6>3. CASE ~(Active(c) /\ row.status # "active")
            BY <1>7, <5>1, <6>3 DEF Active
          <6> QED  BY <6>2, <6>3
        <5>2. CASE req[s].c # c
          BY <1>7, <4>1, <5>2 DEF Active
        <5> QED  BY <5>1, <5>2
      <4> QED  BY <1>1, <3>1, <3>3, <4>1, <4>2 DEF RequestSound, Active
    <3> QED  BY <3>2, <3>3
  <2> QED  BY <2>1, <2>2 DEF RequestsSound
<1>10. TokensOwned'
  BY <1>1, <1>7 DEF AccessInv, TokensOwned
<1>11. CopiesExpire'
  <2>1. ASSUME NEW d \in Consumers, cache[d] # None
        PROVE  /\ cache[d].until \in Nat
               /\ consumers'[d] # None
               /\ cache[d].row.status = "active" =>
                    Active(d)' \/ cache[d].until <= offSince'[d] + TTL + MaxDelay
    <3>1. /\ cache[d].until \in Nat /\ cache[d].until <= now + TTL /\ consumers[d] # None
          /\ cache[d].row.status = "active" =>
               Active(d) \/ cache[d].until <= offSince[d] + TTL + MaxDelay
      BY <2>1 DEF AccessInv, AccessTypeOK, Copies, CopiesExpire
    <3>2. cache[d].until <= now + TTL + MaxDelay
      BY <1>2, <3>1
    <3>3. CASE d # c  BY <1>7, <3>1, <3>3 DEF Active
    <3>4. CASE d = c  BY <1>7, <1>8, <3>1, <3>2, <3>4
    <3> QED  BY <3>3, <3>4
  <2> QED  BY <1>1, <2>1 DEF AccessInv, CopiesExpire
<1>12. CopiesExplained'
  <2>1. req'[r].step = "invalidate" /\ req'[r].c = c
    BY <1>5, <1>7
  <2>2. ASSUME NEW d \in Consumers, d # c, cache[d] # None, cache[d].row # consumers[d]
        PROVE  \/ cache[d].late \/ d \in missed
               \/ \E s \in Requests : req'[s].step = "invalidate" /\ req'[s].c = d
    <3>1. \/ cache[d].late \/ d \in missed
          \/ \E s \in Requests : req[s].step = "invalidate" /\ req[s].c = d
      BY <2>2 DEF AccessInv, CopiesExplained
    <3>2. \A s \in Requests : req[s].step = "invalidate" => s # r
      BY <1>1 DEF Idle
    <3> QED  BY <1>7, <3>1, <3>2
  <2> QED  BY <1>1, <1>7, <2>1, <2>2 DEF CopiesExplained
<1> QED  BY <1>6, <1>9, <1>10, <1>11, <1>12 DEF AccessInv

LEMMA AdministrationKeeps ==
  ASSUME AccessInv, NEW r \in Requests, NEW c \in Consumers,
         \/ Suspend(r, c) \/ Revoke(r, c) \/ Activate(r, c) \/ RotateSecret(r, c)
         \/ \E n \in Limits : ChangeLimit(r, c, n)
         \/ \E n \in Windows : ChangeWindow(r, c, n)
  PROVE  AccessInv'
<1>1. consumers[c] \in Row
  BY DEF AccessInv, AccessTypeOK, Suspend, Revoke, Activate, RotateSecret, ChangeLimit, ChangeWindow, UpdateConsumer
<1>2. /\ [consumers[c] EXCEPT !.status = "suspended"] \in Row
      /\ [consumers[c] EXCEPT !.status = "revoked"] \in Row
      /\ [consumers[c] EXCEPT !.status = "active"] \in Row
      /\ \A n \in Limits : [consumers[c] EXCEPT !.limit = n] \in Row
      /\ \A n \in Windows : [consumers[c] EXCEPT !.window = n] \in Row
  BY <1>1 DEF Row, Statuses
<1> QED  BY <1>1, <1>2, UpdateKeeps DEF Suspend, Revoke, Activate, RotateSecret, ChangeLimit, ChangeWindow

LEMMA AccessNextKeeps ==
  ASSUME AccessInv, AccessNext
  PROVE  AccessInv'
<1>1. ASSUME NEW r \in Requests, NEW c \in Consumers,
             \/ \E m \in Merchants : BeginRequest(r, "page", c, m)
             \/ \E op \in {"list", "hook"} : BeginRequest(r, op, c, None)
             \/ Suspend(r, c) \/ Revoke(r, c) \/ Activate(r, c) \/ RotateSecret(r, c)
             \/ \E n \in Limits : ChangeLimit(r, c, n)
             \/ \E n \in Windows : ChangeWindow(r, c, n)
             \/ ConsumerDetail(r, c)
      PROVE  AccessInv'
  BY <1>1, BeginRequestKeeps, AdministrationKeeps, ConsumerDetailKeeps
<1>2. ASSUME NEW r \in Requests,
             \/ LookupHit(r) \/ LookupMiss(r) \/ FetchRow(r) \/ Store(r)
             \/ CheckAccess(r) \/ Invalidate(r) \/ Fail(r)
      PROVE  AccessInv'
  BY <1>2, LookupKeeps, FetchKeeps, StoreKeeps, InvalidateKeeps, FailKeeps
<1>3. ASSUME NEW c \in Consumers, NEW m \in Merchants, AssignMerchant(c, m) \/ RemoveMerchantAccess(c, m)
      PROVE  AccessInv'
  <2>1. UNCHANGED <<now, consumers, cache, token, req, offSince, missed>>
    BY <1>3 DEF AssignMerchant, RemoveMerchantAccess
  <2> QED  BY <2>1 DEF AccessInv, AccessTypeOK, RequestsSound, RequestSound, TokensOwned,
                       CopiesExpire, CopiesExplained, Active
<1> QED  BY <1>1, <1>2, <1>3, RegisterKeeps, AuthenticateKeeps, TickKeeps DEF AccessNext

\* Counting, exporting and endpoint management move one request.
LEMMA ServingMoves ==
  ASSUME RateStep \/ ExportStep \/ EndpointStep
  PROVE  \E r \in Requests :
           /\ UNCHANGED copyVars
           /\ req[r].step \in {"count", "prune", "serve", "hook", "ping", "activate"}
           /\ \/ Finish(r) \/ Await(r, "serve", "none", None) \/ Await(r, "activate", "none", req[r].row)
              \/ \E e \in Endpoints : Await(r, "ping", "none", e)
<1>1. CASE RateStep
  <2>1. PICK r \in Requests : CheckRateLimit(r) \/ ShowStatus(r)
    BY <1>1 DEF RateStep, RateNext
  <2> QED  BY <2>1 DEF CheckRateLimit, ShowStatus, copyVars
<1>2. CASE ExportStep
  <2>1. PICK r \in Requests : ExportPage(r) \/ RefuseExport(r) \/ GetAssignedMerchants(r)
    BY <1>2 DEF ExportStep, ExportNext, GetPayments, GetCustomers, GetRefunds, GetEvents
  <2> QED  BY <2>1 DEF ExportPage, RefuseExport, GetAssignedMerchants, copyVars
<1>3. CASE EndpointStep
  <2>1. PICK r \in Requests :
           \/ Ping(r) \/ ActivateEndpoint(r)
           \/ \E e \in Endpoints :
                CreateEndpoint(r, e) \/ VerifyEndpoint(r, e) \/ UpdateEndpoint(r, e) \/ DeleteEndpoint(r, e)
    BY <1>3 DEF EndpointStep
  <2> QED  BY <2>1 DEF Ping, ActivateEndpoint, CreateEndpoint, VerifyEndpoint, UpdateEndpoint,
                DeleteEndpoint, HookRequest, Elsewhere, copyVars
<1> QED  BY <1>1, <1>2, <1>3

LEMMA ServingKeeps ==
  ASSUME AccessInv, RateStep \/ ExportStep \/ EndpointStep
  PROVE  AccessInv'
<1>1. PICK r \in Requests :
         /\ UNCHANGED copyVars
         /\ req[r].step \in {"count", "prune", "serve", "hook", "ping", "activate"}
         /\ \/ Finish(r) \/ Await(r, "serve", "none", None) \/ Await(r, "activate", "none", req[r].row)
            \/ \E e \in Endpoints : Await(r, "ping", "none", e)
  BY ServingMoves
<1>2. req[r].row \in Row \cup Endpoints \cup {None}
  BY DEF AccessInv, AccessTypeOK, RequestType
<1> QED  BY <1>1, <1>2, FinishKeeps, AwaitKeeps DEF RequestSteps, Reasons

\* The tasks leave the consumers, the requests and the topic alone.
LEMMA TasksKeepAside == TaskNext => Aside
<1>1. ASSUME NEW d \in Deliveries, Enqueue(d)  PROVE  Aside
  BY <1>1 DEF Enqueue
<1>2. ASSUME NEW l \in letters, RetryLetter(l)  PROVE  Aside
  BY <1>2 DEF RetryLetter
<1>3. ASSUME NEW w \in Workers, Work(w)  PROVE  Aside
  BY <1>3 DEF Work, StartRetry, StartLetter, ReadEndpoint, DirectDispatch, RecordRetry, Requeue,
     BuryInsert, BuryMark, DispatchLetter, DeleteLetter
<1>4. ASSUME NEW w \in Workers, TaskDies(w)  PROVE  Aside
  BY <1>4 DEF TaskDies
<1> QED  BY <1>1, <1>2, <1>3, <1>4 DEF TaskNext

\* So do the write side and the deliveries.
LEMMA OutsideRests ==
  ASSUME WriteStep \/ DeliveryStep \/ TaskStep \/ UNCHANGED allVars
  PROVE  UNCHANGED <<now, consumers, cache, token, req, offSince, missed>>
<1>1. CASE WriteStep  BY <1>1 DEF WriteStep, accessVars
<1>2. CASE DeliveryStep
  BY <1>2 DEF DeliveryStep, Publish, HookNext, Join, AutoCommit, TakeMessage, FindTargets,
     CheckEndpointAccess, PostWebhook, InsertDelivery, HookRaises, HookStops, Elsewhere
<1>3. CASE TaskStep  BY <1>3, TasksKeepAside DEF TaskStep, Aside, Elsewhere
<1>4. CASE UNCHANGED allVars  BY <1>4 DEF allVars, accessVars
<1> QED  BY <1>1, <1>2, <1>3, <1>4

LEMMA AccessNextInvariant == AccessInv /\ [ThirdPartyNext]_allVars => AccessInv'
<1> SUFFICES ASSUME AccessInv, [ThirdPartyNext]_allVars  PROVE  AccessInv'
  OBVIOUS
<1>1. CASE AccessStep  BY <1>1, AccessNextKeeps DEF AccessStep
<1>2. CASE RateStep \/ ExportStep \/ EndpointStep  BY <1>2, ServingKeeps
<1>3. CASE WriteStep \/ DeliveryStep \/ TaskStep \/ UNCHANGED allVars
  BY <1>3, OutsideRests DEF AccessInv, AccessTypeOK, RequestsSound, RequestSound, TokensOwned,
                            CopiesExpire, CopiesExplained, Active
<1> QED  BY <1>1, <1>2, <1>3 DEF ThirdPartyNext

\* The inductive invariant of the consumers, their copies and the requests.
THEOREM AccessInvariantHolds == ThirdPartySpec => []AccessInv
<1>1. ThirdPartyInit => AccessInv
  BY AccessInitInvariant DEF ThirdPartyInit
<1> QED  BY <1>1, AccessNextInvariant, PTL DEF ThirdPartySpec

\* A copy in Redis that differs from the row was on its way when the row changed, or
\* its deletion is under way or failed: update_consumer and cache_consumer race no
\* other way, however many requests there are.
THEOREM StaleCopiesExplained == ThirdPartySpec => []StaleOnlyByRace
<1>1. AccessInv => StaleOnlyByRace
  BY DEF AccessInv, CopiesExplained, StaleOnlyByRace, Cached
<1> QED  BY <1>1, AccessInvariantHolds, PTL

-----------------------------------------------------------------------------
(* How long a consumer that was suspended or revoked is let in             *)

\* A request with the authentication still to do is moved by its own four steps only,
\* or it fails.
LEMMA AuthMoves ==
  ASSUME AccessInv, ThirdPartyNext, NEW r \in Requests,
         req[r].step \in {"lookup", "fetch", "store"}, req'[r] # req[r]
  PROVE  LookupHit(r) \/ LookupMiss(r) \/ FetchRow(r) \/ Store(r) \/ Fail(r)
<1>1. ASSUME NEW s \in Requests,
             \/ Finish(s)
             \/ \E step, why, row : Await(s, step, why, row)
             \/ \E q : req' = [req EXCEPT ![s] = q]
      PROVE  s = r
  BY <1>1, OthersRest DEF Finish, Await
<1>2. req[r] # Idle
  BY DEF Idle
<1>3. CASE AccessStep
  <2>1. ASSUME NEW s \in Requests, NEW c \in Consumers,
               \/ \E m \in Merchants : BeginRequest(s, "page", c, m)
               \/ \E op \in {"list", "hook"} : BeginRequest(s, op, c, None)
               \/ ConsumerDetail(s, c)
        PROVE  FALSE
    BY <1>1, <1>2, <2>1 DEF BeginRequest, ConsumerDetail
  <2>2. ASSUME NEW s \in Requests, NEW c \in Consumers, NEW row, UpdateConsumer(s, c, row)
        PROVE  FALSE
    BY <1>1, <1>2, <2>2 DEF UpdateConsumer
  <2>3. ASSUME NEW s \in Requests, CheckAccess(s) \/ Invalidate(s)
        PROVE  FALSE
    BY <1>1, <2>3 DEF CheckAccess, Invalidate
  <2>4. ASSUME NEW s \in Requests,
               LookupHit(s) \/ LookupMiss(s) \/ FetchRow(s) \/ Store(s) \/ Fail(s)
        PROVE  s = r
    BY <1>1, <2>4 DEF LookupHit, LookupMiss, FetchRow, Store, Fail, Proceed
  <2>5. ASSUME NEW c \in Consumers,
               \/ Register(c) \/ Authenticate(c)
               \/ \E m \in Merchants : AssignMerchant(c, m) \/ RemoveMerchantAccess(c, m)
        PROVE  FALSE
    BY <2>5 DEF Register, Authenticate, AssignMerchant, RemoveMerchantAccess
  <2>6. ~Tick  BY DEF Tick
  <2> QED  BY <1>3, <2>1, <2>2, <2>3, <2>4, <2>5, <2>6
           DEF AccessStep, AccessNext, Suspend, Revoke, Activate, RotateSecret, ChangeLimit, ChangeWindow
<1>4. ~RateStep
  <2> SUFFICES ASSUME NEW s \in Requests, CheckRateLimit(s) \/ ShowStatus(s)  PROVE  FALSE
    BY DEF RateStep, RateNext
  <2>1. (Finish(s) \/ Await(s, "serve", "none", None)) /\ req[s].step \in {"count", "prune"}
    BY DEF CheckRateLimit, ShowStatus
  <2> QED  BY <1>1, <2>1
<1>5. ~ExportStep
  <2> SUFFICES ASSUME NEW s \in Requests,
                      ExportPage(s) \/ RefuseExport(s) \/ GetAssignedMerchants(s)
               PROVE  FALSE
    BY DEF ExportStep, ExportNext, GetPayments, GetCustomers, GetRefunds, GetEvents
  <2>1. Finish(s) /\ req[s].step = "serve"
    BY DEF ExportPage, RefuseExport, GetAssignedMerchants
  <2> QED  BY <1>1, <2>1
<1>6. ~EndpointStep
  <2> SUFFICES ASSUME NEW s \in Requests,
                      \/ Ping(s) \/ ActivateEndpoint(s)
                      \/ \E e \in Endpoints :
                           CreateEndpoint(s, e) \/ VerifyEndpoint(s, e) \/ UpdateEndpoint(s, e) \/ DeleteEndpoint(s, e)
               PROVE  FALSE
    BY DEF EndpointStep
  <2>1. /\ req[s].step \in {"hook", "ping", "activate"}
        /\ \/ Finish(s) \/ Await(s, "activate", "none", req[s].row)
           \/ \E e \in Endpoints : Await(s, "ping", "none", e)
    BY DEF Ping, ActivateEndpoint, CreateEndpoint, VerifyEndpoint, UpdateEndpoint, DeleteEndpoint, HookRequest
  <2> QED  BY <1>1, <2>1
<1>7. ~WriteStep  BY DEF WriteStep, accessVars
<1>8. ~DeliveryStep
  BY DEF DeliveryStep, Publish, HookNext, Join, AutoCommit, TakeMessage, FindTargets,
     CheckEndpointAccess, PostWebhook, InsertDelivery, HookRaises, HookStops
<1>9. ~TaskStep
  BY TasksKeepAside DEF TaskStep, Aside
<1> QED  BY <1>3, <1>4, <1>5, <1>6, <1>7, <1>8, <1>9 DEF ThirdPartyNext

\* verify_third_party_access lets a consumer in that is no longer active for the
\* cache's TTL and one await at most.
THEOREM AdmissionEndsWithTtl == ThirdPartySpec => AdmittedWithinTtl
<1> DEFINE Timely == \A r \in Requests : Admits(r) =>
                        \/ consumers[req[r].c].status = "active"
                        \/ now < offSince[req[r].c] + TTL + MaxDelay
<1>1. AccessInv /\ [ThirdPartyNext]_allVars => [Timely]_allVars
  <2> SUFFICES ASSUME AccessInv, ThirdPartyNext, NEW r \in Requests, Admits(r)
               PROVE  \/ consumers[req[r].c].status = "active"
                      \/ now < offSince[req[r].c] + TTL + MaxDelay
    BY DEF Timely
  <2> DEFINE c == req[r].c
  <2>1. /\ req[r].why = "auth" /\ req[r].step \in {"lookup", "fetch", "store"}
        /\ req'[r].why # "auth" /\ req'[r] # Idle /\ req'[r] # req[r]
    BY DEF Admits, AccessInv, RequestsSound, RequestSound, Idle
  <2>2. /\ c \in Consumers /\ req[r] \in RequestType /\ req[r].since \in Nat /\ req[r] # Idle
        /\ now \in Nat /\ offSince[c] \in Nat /\ TTL \in Nat \ {0} /\ MaxDelay \in Nat
        /\ req[r].since <= now /\ now <= req[r].since + MaxDelay
    BY <2>1, TimesAssumption DEF AccessInv, AccessTypeOK, RequestType, RequestsSound, RequestSound, Idle
  <2>3. ~Fail(r) /\ ~LookupMiss(r) /\ ~FetchRow(r)
    <3>1. ~Fail(r)
      BY <2>1 DEF Fail, Finish, AccessInv, AccessTypeOK
    <3>2. ASSUME NEW step, NEW row, Await(r, step, "auth", row)  PROVE  FALSE
      <4>1. req'[r].why = "auth"
        BY <2>2, <3>2 DEF Await, RequestType, AccessInv, AccessTypeOK
      <4> QED  BY <2>1, <4>1
    <3> QED  BY <2>1, <3>1, <3>2 DEF LookupMiss, FetchRow
  <2>4. CASE LookupHit(r)
    <3>1. /\ cache[c] # None /\ now < cache[c].until
          /\ cache[c].row.status = "active" \/ req'[r] = Idle
      BY <2>1, <2>4 DEF LookupHit, Cached, Proceed, Finish, AccessInv, AccessTypeOK
    <3>2. Active(c) \/ (cache[c].until \in Nat /\ cache[c].until <= offSince[c] + TTL + MaxDelay)
      BY <2>1, <2>2, <3>1 DEF AccessInv, AccessTypeOK, Copies, CopiesExpire
    <3> QED  BY <2>2, <3>1, <3>2 DEF Active
  <2>5. CASE Store(r)
    <3>1. req[r].row.status = "active" \/ req'[r] = Idle
      BY <2>1, <2>5 DEF Store, Proceed, Finish, AccessInv, AccessTypeOK
    <3>2. Active(c) \/ req[r].since <= offSince[c]
      BY <2>1, <2>2, <2>5, <3>1 DEF Store, AccessInv, RequestsSound, RequestSound
    <3>3. ASSUME req[r].since <= offSince[c]  PROVE  now < offSince[c] + TTL + MaxDelay
      BY <2>2, <3>3
    <3> QED  BY <3>2, <3>3 DEF Active
  <2> QED  BY <2>1, <2>3, <2>4, <2>5, AuthMoves
<1> QED  BY <1>1, AccessInvariantHolds, PTL DEF ThirdPartySpec, AdmittedWithinTtl

-----------------------------------------------------------------------------
(* How many requests a consumer is let in with                             *)

RateTypeOK ==
    /\ hits \in [Consumers -> [Times -> Nat]]
    /\ keyUntil \in [Consumers -> Int]
    /\ granted \in [Consumers -> [Times -> Nat]]
    /\ most \in [Consumers -> Nat]
    /\ least \in [Consumers -> Int]

\* A request that is about to be counted brings a row and the reading of the clock
\* it began to wait with.
ReadyToCount(q) == q.step \in {"count", "prune"} => q.row \in Row /\ q.stamp = q.since

\* The sorted set holds every request that was let in and is in a window still open,
\* the shortest that was applied, and does not expire before.
GrantsRemembered ==
    \A c \in Consumers, u \in Times : granted[c][u] > 0 =>
        /\ u <= now /\ u + least[c] <= keyUntil[c]
        /\ now < u + least[c] => granted[c][u] <= hits[c][u]

RateInv == RateTypeOK /\ GrantsRemembered /\ WindowBound /\ \A r \in Requests : ReadyToCount(req[r])

LEMMA TimesFinite == IsFiniteSet(Times) /\ Times \subseteq Nat
  BY FS_Interval, HorizonAssumption DEF Times

\* TotalOf as the sum of a column, for which FiniteSums has the lemmas.
Column(counts) == [t \in Times |-> [amount |-> counts[t]]]

LEMMA TotalIsSum ==
  ASSUME NEW counts \in [Times -> Nat], NEW S \in SUBSET Times
  PROVE  TotalOf(counts, S) = AmountSum(Column(counts), S) /\ TotalOf(counts, S) \in Nat
<1> DEFINE Adds(g) == g = [s \in SUBSET S |-> IF s = {} THEN 0
                                             ELSE counts[AnyRow(s)] + g[s \ {AnyRow(s)}]]
           k == CHOOSE g : Adds(g)
<1>1. IsFiniteSet(S) /\ NaturalAmounts(Column(counts), S)
  BY TimesFinite, FS_Subset DEF NaturalAmounts, Column
<1>2. TotalOf(counts, S) = k[S]
  BY DEF TotalOf, MapThenSumSet, MapThenFoldSet, AnyRow
<1>3. \A g : Adds(g) <=> AddsUp(g, Column(counts), S)
  <2>1. \A s \in SUBSET S : s # {} => Column(counts)[AnyRow(s)].amount = counts[AnyRow(s)]
    BY AnyRowInside DEF Column
  <2>2. \A g : [s \in SUBSET S |-> IF s = {} THEN 0 ELSE counts[AnyRow(s)] + g[s \ {AnyRow(s)}]]
               = [s \in SUBSET S |-> IF s = {} THEN 0
                                     ELSE Column(counts)[AnyRow(s)].amount + g[s \ {AnyRow(s)}]]
    BY <2>1
  <2> QED  BY <2>2 DEF AddsUp
<1>4. PICK g : AddsUp(g, Column(counts), S)
  BY <1>1, AddsExists
<1>5. Adds(k)
  BY <1>3, <1>4
<1> HIDE DEF k
<1>6. AddsUp(k, Column(counts), S)
  BY <1>3, <1>5
<1> QED  BY <1>1, <1>2, <1>6, AmountSumIs

LEMMA SpanFinite ==
  ASSUME NEW t, NEW window
  PROVE  IsFiniteSet(Span(t, window)) /\ Span(t, window) \in SUBSET Times
BY TimesFinite, FS_Subset DEF Span

\* A shorter window has fewer requests in it.
LEMMA ShorterSpan ==
  ASSUME NEW counts \in [Times -> Nat], NEW t \in Times,
         NEW long \in Int, NEW short \in Int, short <= long
  PROVE  TotalOf(counts, Span(t, short)) <= TotalOf(counts, Span(t, long))
<1>1. Span(t, short) \subseteq Span(t, long)
  BY TimesFinite, TimesAssumption DEF Span
<1>2. /\ IsFiniteSet(Span(t, short)) /\ Span(t, short) \in SUBSET Times
      /\ IsFiniteSet(Span(t, long)) /\ Span(t, long) \in SUBSET Times
  BY SpanFinite
<1>3. /\ TotalOf(counts, Span(t, short)) = AmountSum(Column(counts), Span(t, short))
      /\ TotalOf(counts, Span(t, long)) = AmountSum(Column(counts), Span(t, long))
  BY <1>2, TotalIsSum
<1>4. NaturalAmounts(Column(counts), Span(t, short)) /\ NaturalAmounts(Column(counts), Span(t, long))
  BY <1>2 DEF NaturalAmounts, Column
<1>5. \A u \in Span(t, short) : Column(counts)[u].amount <= Column(counts)[u].amount
  BY <1>4 DEF NaturalAmounts
<1> QED  BY <1>1, <1>2, <1>3, <1>4, <1>5, SumOfFewer

LEMMA LeastOfTwo ==
  ASSUME NEW a \in Int, NEW b \in Int
  PROVE  Min({a, b}) \in Int /\ Min({a, b}) <= a /\ Min({a, b}) <= b
<1>1. \E x \in {a, b} : \A y \in {a, b} : x <= y
  <2>1. CASE a <= b  BY <2>1
  <2>2. CASE b <= a  BY <2>2
  <2> QED  BY <2>1, <2>2
<1>2. Min({a, b}) \in {a, b} /\ \A y \in {a, b} : Min({a, b}) <= y
  BY <1>1 DEF Min
<1> QED  BY <1>2

LEMMA MostOfTwo ==
  ASSUME NEW a \in Nat, NEW b \in Int
  PROVE  Max({a, b}) \in Nat /\ a <= Max({a, b}) /\ b <= Max({a, b})
<1>1. \E x \in {a, b} : \A y \in {a, b} : x >= y
  <2>1. CASE a >= b  BY <2>1
  <2>2. CASE b >= a  BY <2>2
  <2> QED  BY <2>1, <2>2
<1>2. Max({a, b}) \in {a, b} /\ \A y \in {a, b} : Max({a, b}) >= y
  BY <1>1 DEF Max
<1> QED  BY <1>2

LEMMA LongestWindow == Max(Windows) \in Int
<1>1. \E x \in Windows : \A y \in Windows : x >= y
  BY LimitsAssumption
<1> QED  BY <1>1, LimitsAssumption DEF Max

LEMMA RateInitInvariant == ThirdPartyInit => RateInv
<1> SUFFICES ASSUME AccessInit, RateInit  PROVE  RateInv
  BY DEF ThirdPartyInit
<1>1. RateTypeOK
  BY LongestWindow DEF RateInit, RateTypeOK, NoHits
<1>2. GrantsRemembered
  BY DEF RateInit, GrantsRemembered, NoHits
<1>3. WindowBound
  <2> SUFFICES ASSUME NEW c \in Consumers, NEW t \in Times
               PROVE  TotalOf(granted[c], Span(t, least[c])) <= most[c]
    BY DEF WindowBound
  <2> DEFINE W == Span(t, least[c])
  <2>1. IsFiniteSet(W) /\ W \in SUBSET Times
    BY SpanFinite
  <2>2. granted[c] = NoHits /\ NoHits \in [Times -> Nat] /\ most[c] = 0
    BY DEF RateInit, NoHits
  <2>3. \A u \in Times : Column(NoHits)[u].amount = 0
    BY DEF Column, NoHits
  <2> HIDE DEF W
  <2>4. TotalOf(NoHits, W) = AmountSum(Column(NoHits), W)
    BY <2>1, <2>2, TotalIsSum
  <2>5. AmountSum(Column(NoHits), W) = 0
    BY <2>1, <2>3, SumOfZeros
  <2> QED  BY <2>2, <2>4, <2>5 DEF W
<1>4. \A r \in Requests : ReadyToCount(req[r])
  BY DEF AccessInit, ReadyToCount, Idle
<1> QED  BY <1>1, <1>2, <1>3, <1>4 DEF RateInv

\* A request comes to be counted from its authentication only, with the row of the
\* consumer and the clock as it stands.
LEMMA ReadyKeeps ==
  ASSUME AccessInv, RateInv, [ThirdPartyNext]_allVars
  PROVE  \A r \in Requests : ReadyToCount(req[r])'
<1> SUFFICES ASSUME NEW r \in Requests  PROVE  ReadyToCount(req[r])'
  OBVIOUS
<1>1. /\ now \in Nat /\ req \in [Requests -> RequestType] /\ req[r] \in RequestType
      /\ ReadyToCount(req[r])
  BY DEF AccessInv, AccessTypeOK, RateInv, RequestType
<1>2. ASSUME req'[r] = req[r]  PROVE  ReadyToCount(req[r])'
  BY <1>1, <1>2 DEF ReadyToCount
<1>3. ASSUME req'[r].step \notin {"count", "prune"}  PROVE  ReadyToCount(req[r])'
  BY <1>3 DEF ReadyToCount
<1>4. ASSUME NEW s \in Requests, UNCHANGED now,
             \/ Finish(s)
             \/ \E step \in RequestSteps \ {"count", "prune"} : \E why, row : Await(s, step, why, row)
             \/ \E q : req' = [req EXCEPT ![s] = q] /\ q.step \in {"lookup", "invalidate"}
      PROVE  ReadyToCount(req[r])'
  <2>1. CASE s # r
    <3>1. req'[r] = req[r]
      BY <1>1, <1>4, <2>1 DEF Finish, Await
    <3> QED  BY <1>2, <1>4, <3>1
  <2>2. CASE s = r
    <3>1. \A q : req' = [req EXCEPT ![s] = q] => req'[r] = q
      BY <1>1, <2>2
    <3>2. CASE Finish(s)
      <4>1. req'[r] = Idle
        BY <3>1, <3>2 DEF Finish
      <4> QED  BY <1>3, <4>1 DEF Idle
    <3>3. ASSUME NEW step \in RequestSteps \ {"count", "prune"}, NEW why, NEW row, Await(s, step, why, row)
          PROVE  ReadyToCount(req[r])'
      <4>1. req'[r].step = step
        BY <1>1, <2>2, <3>3 DEF Await, RequestType
      <4> QED  BY <1>3, <3>3, <4>1
    <3>4. ASSUME NEW q, req' = [req EXCEPT ![s] = q], q.step \in {"lookup", "invalidate"}
          PROVE  ReadyToCount(req[r])'
      BY <1>3, <3>1, <3>4
    <3> QED  BY <1>4, <3>2, <3>3, <3>4
  <2> QED  BY <2>1, <2>2
<1>5. ASSUME NEW s \in Requests, UNCHANGED now, NEW row \in Row, Proceed(s, row)
      PROVE  ReadyToCount(req[r])'
  <2>1. ASSUME NEW step \in {"count", "prune"}, Await(s, step, "none", row)
        PROVE  ReadyToCount(req[r])'
    <3>1. CASE s # r
      <4>1. req'[r] = req[r]
        BY <1>1, <2>1, <3>1 DEF Await
      <4> QED  BY <1>2, <4>1
    <3>2. CASE s = r
      <4>1. req'[r].stamp = now /\ req'[r].since = now /\ req'[r].row = row
        BY <1>1, <2>1, <3>2 DEF Await, RequestType
      <4> QED  BY <1>5, <4>1 DEF ReadyToCount
    <3> QED  BY <3>1, <3>2
  <2>2. CASE Await(s, "count", "none", row)
    BY <2>1, <2>2
  <2>3. CASE Await(s, "prune", "none", row)
    BY <2>1, <2>3
  <2>4. CASE \/ Finish(s) \/ Await(s, "access", "none", None)
             \/ Await(s, "lookup", "limit", None) \/ Await(s, "hook", "none", None)
    BY <1>4, <1>5, <2>4 DEF RequestSteps
  <2> QED  BY <1>5, <2>2, <2>3, <2>4 DEF Proceed
<1>6. CASE AccessStep
  <2>1. ASSUME NEW s \in Requests, NEW c \in Consumers,
               \/ \E m \in Merchants : BeginRequest(s, "page", c, m)
               \/ \E op \in {"list", "hook"} : BeginRequest(s, op, c, None)
               \/ ConsumerDetail(s, c)
        PROVE  ReadyToCount(req[r])'
    <3>2. ASSUME NEW m, NEW op, BeginRequest(s, op, c, m)  PROVE  ReadyToCount(req[r])'
      <4>1. [Idle EXCEPT !.step = "lookup", !.op = op, !.why = "auth",
                         !.c = c, !.m = m, !.since = now].step = "lookup"
        BY DEF Idle
      <4> QED  BY <1>4, <3>2, <4>1 DEF BeginRequest
    <3>3. CASE ConsumerDetail(s, c)
      <4>1. [Idle EXCEPT !.step = "lookup", !.op = "detail", !.why = "detail",
                         !.c = c, !.since = now].step = "lookup"
        BY DEF Idle
      <4> QED  BY <1>4, <3>3, <4>1 DEF ConsumerDetail
    <3> QED  BY <2>1, <3>2, <3>3
  <2>2. ASSUME NEW s \in Requests, NEW c \in Consumers, NEW row, UpdateConsumer(s, c, row)
        PROVE  ReadyToCount(req[r])'
    <3>1. [Idle EXCEPT !.step = "invalidate", !.op = "admin", !.c = c, !.since = now].step = "invalidate"
      BY DEF Idle
    <3> QED  BY <1>4, <2>2, <3>1 DEF UpdateConsumer
  <2>3. ASSUME NEW s \in Requests, LookupMiss(s) \/ FetchRow(s) \/ CheckAccess(s) \/ Invalidate(s) \/ Fail(s)
        PROVE  ReadyToCount(req[r])'
    BY <1>4, <2>3 DEF LookupMiss, FetchRow, CheckAccess, Invalidate, Fail, RequestSteps
  <2>4. ASSUME NEW s \in Requests, LookupHit(s)  PROVE  ReadyToCount(req[r])'
    <3>1. req[s].c \in Consumers
      BY <2>4 DEF LookupHit, AccessInv, RequestsSound, RequestSound, Idle
    <3>2. cache[req[s].c].row \in Row
      BY <2>4, <3>1 DEF LookupHit, Cached, AccessInv, AccessTypeOK, Copies
    <3> QED  BY <1>5, <2>4, <3>2 DEF LookupHit
  <2>5. ASSUME NEW s \in Requests, Store(s)  PROVE  ReadyToCount(req[r])'
    <3>1. req[s].row \in Row
      BY <2>5 DEF Store, AccessInv, RequestsSound, RequestSound, Idle
    <3> QED  BY <1>5, <2>5, <3>1 DEF Store
  <2>6. ASSUME NEW c \in Consumers,
               \/ Register(c) \/ Authenticate(c)
               \/ \E m \in Merchants : AssignMerchant(c, m) \/ RemoveMerchantAccess(c, m)
        PROVE  ReadyToCount(req[r])'
    BY <1>2, <2>6 DEF Register, Authenticate, AssignMerchant, RemoveMerchantAccess
  <2>7. CASE Tick  BY <1>2, <2>7 DEF Tick
  <2> QED  BY <1>6, <2>1, <2>2, <2>3, <2>4, <2>5, <2>6, <2>7
           DEF AccessStep, AccessNext, Suspend, Revoke, Activate, RotateSecret, ChangeLimit, ChangeWindow
<1>7. CASE RateStep \/ ExportStep \/ EndpointStep
  <2>1. PICK s \in Requests :
           /\ UNCHANGED now
           /\ \/ Finish(s) \/ Await(s, "serve", "none", None) \/ Await(s, "activate", "none", req[s].row)
              \/ \E e \in Endpoints : Await(s, "ping", "none", e)
    BY <1>7, ServingMoves DEF copyVars
  <2> QED  BY <1>4, <2>1 DEF RequestSteps
<1>8. CASE WriteStep \/ DeliveryStep \/ TaskStep \/ UNCHANGED allVars
  BY <1>2, <1>8, OutsideRests
<1> QED  BY <1>6, <1>7, <1>8 DEF ThirdPartyNext

\* Time that passes closes windows, and opens none that is full.
LEMMA RateRests ==
  ASSUME AccessInv, RateInv, UNCHANGED rateVars, now' = now \/ now' = now + 1
  PROVE  RateTypeOK' /\ GrantsRemembered' /\ WindowBound'
<1>1. now \in Nat /\ UNCHANGED <<hits, keyUntil, granted, most, least>>
  BY DEF rateVars, AccessInv, AccessTypeOK
<1>2. RateTypeOK'
  BY <1>1 DEF RateInv, RateTypeOK
<1>3. GrantsRemembered'
  <2> SUFFICES ASSUME NEW c \in Consumers, NEW u \in Times, granted[c][u] > 0
               PROVE  /\ u <= now' /\ u + least[c] <= keyUntil[c]
                      /\ now' < u + least[c] => granted[c][u] <= hits[c][u]
    BY <1>1 DEF GrantsRemembered
  <2>1. u \in Nat /\ least[c] \in Int
    BY TimesFinite DEF RateInv, RateTypeOK
  <2>2. /\ u <= now /\ u + least[c] <= keyUntil[c]
        /\ now < u + least[c] => granted[c][u] <= hits[c][u]
    BY DEF RateInv, GrantsRemembered
  <2> QED  BY <1>1, <2>1, <2>2
<1>4. WindowBound'
  BY <1>1 DEF RateInv, WindowBound
<1> QED  BY <1>2, <1>3, <1>4

\* A request at the sorted set brings a row, and a clock reading of the past that is
\* no older than one await.
LEMMA ReadyBrings ==
  ASSUME AccessInv, RateInv, NEW r \in Requests, req[r].step \in {"count", "prune"}
  PROVE  /\ req[r].c \in Consumers
         /\ req[r].row.limit \in Int /\ req[r].row.window \in Int
         /\ req[r].stamp \in Nat /\ req[r].stamp <= now /\ now <= req[r].stamp + MaxDelay
<1>1. req[r].c \in Consumers /\ req[r].since <= now /\ now <= req[r].since + MaxDelay
  BY DEF AccessInv, RequestsSound, RequestSound, Idle
<1>2. req[r].row \in Row /\ req[r].stamp = req[r].since
  BY DEF RateInv, ReadyToCount
<1>3. req[r].stamp \in Nat
  BY DEF AccessInv, AccessTypeOK, RequestType
<1> QED  BY <1>1, <1>2, <1>3, LimitsAssumption DEF Row

\* Entries that are pruned belong to windows that are closed.
LEMMA PrunedKeeps ==
  ASSUME AccessInv, RateInv, NEW c \in Consumers, NEW stamp \in Nat, stamp <= now,
         NEW window \in Int, NEW short \in Int, short <= window, short <= least[c]
  PROVE  /\ Pruned(c, stamp, window) \in [Times -> Nat]
         /\ \A u \in Times : now < u + short => granted[c][u] <= Pruned(c, stamp, window)[u]
<1> DEFINE kept == Pruned(c, stamp, window)
<1>1. now \in Nat /\ Times \subseteq Nat
  BY TimesFinite DEF AccessInv, AccessTypeOK
<1>2. /\ hits[c] \in [Times -> Nat] /\ granted[c] \in [Times -> Nat] /\ keyUntil[c] \in Int
      /\ least[c] \in Int
  BY DEF RateInv, RateTypeOK
<1>3. \A u \in Times : kept[u] =
        IF now < keyUntil[c] /\ u + window > stamp THEN hits[c][u] ELSE 0
  BY DEF Pruned
<1>4. kept \in [Times -> Nat]
  BY <1>2 DEF Pruned
<1>5. ASSUME NEW u \in Times, now < u + short  PROVE  granted[c][u] <= kept[u]
  <2> HIDE DEF kept
  <2>1. u \in Nat /\ granted[c][u] \in Nat /\ kept[u] \in Nat
    BY <1>1, <1>2, <1>4
  <2>2. CASE granted[c][u] = 0
    BY <2>1, <2>2
  <2>3. CASE granted[c][u] > 0
    <3>1. now < u + least[c] /\ u + window > stamp
      BY <1>1, <1>2, <1>5, <2>1
    <3>2. u + least[c] <= keyUntil[c] /\ granted[c][u] <= hits[c][u]
      BY <2>3, <3>1 DEF RateInv, GrantsRemembered
    <3> QED  BY <1>1, <1>2, <1>3, <2>1, <3>1, <3>2
  <2> QED  BY <2>1, <2>2, <2>3
<1> QED  BY <1>4, <1>5

LEMMA ShowStatusKeeps ==
  ASSUME AccessInv, RateInv, NEW r \in Requests, ShowStatus(r)
  PROVE  RateTypeOK' /\ GrantsRemembered' /\ WindowBound'
<1> DEFINE c == req[r].c
           window == req[r].row.window
           kept == Pruned(c, req[r].stamp, window)
           short == Min({least[c], window})
<1>1. /\ req[r].step = "prune" /\ hits' = [hits EXCEPT ![c] = kept]
      /\ least' = [least EXCEPT ![c] = short]
      /\ UNCHANGED <<now, keyUntil, granted, most>>
  BY DEF ShowStatus
<1>2. c \in Consumers /\ window \in Int /\ req[r].stamp \in Nat /\ req[r].stamp <= now
  BY <1>1, ReadyBrings
<1>3. now \in Nat /\ Times \subseteq Nat /\ RateTypeOK
  BY TimesFinite DEF AccessInv, AccessTypeOK, RateInv
<1>4. short \in Int /\ short <= least[c] /\ short <= window
  BY <1>2, <1>3, LeastOfTwo DEF RateTypeOK
<1>5. /\ kept \in [Times -> Nat]
      /\ \A u \in Times : now < u + short => granted[c][u] <= kept[u]
  BY <1>2, <1>4, PrunedKeeps
<1> HIDE DEF c, window, kept, short
<1>6. \A d \in Consumers : /\ hits'[d] = IF d = c THEN kept ELSE hits[d]
                           /\ least'[d] = IF d = c THEN short ELSE least[d]
  BY <1>1, <1>3 DEF RateTypeOK
<1>7. RateTypeOK'
  BY <1>1, <1>3, <1>4, <1>5 DEF RateTypeOK
<1>8. GrantsRemembered'
  <2> SUFFICES ASSUME NEW d \in Consumers, NEW u \in Times, granted[d][u] > 0
               PROVE  /\ u <= now /\ u + least'[d] <= keyUntil[d]
                      /\ now < u + least'[d] => granted[d][u] <= hits'[d][u]
    BY <1>1 DEF GrantsRemembered
  <2>1. /\ u <= now /\ u + least[d] <= keyUntil[d]
        /\ now < u + least[d] => granted[d][u] <= hits[d][u]
    BY DEF RateInv, GrantsRemembered
  <2>2. u \in Nat /\ least[d] \in Int /\ keyUntil[d] \in Int
    BY <1>3 DEF RateTypeOK
  <2>3. CASE d = c
    BY <1>4, <1>5, <1>6, <2>1, <2>2, <2>3
  <2>4. CASE d # c
    BY <1>6, <2>1, <2>4
  <2> QED  BY <2>3, <2>4
<1>9. WindowBound'
  <2> SUFFICES ASSUME NEW d \in Consumers, NEW t \in Times
               PROVE  TotalOf(granted[d], Span(t, least'[d])) <= most[d]
    BY <1>1 DEF WindowBound
  <2>1. TotalOf(granted[d], Span(t, least[d])) <= most[d]
    BY DEF RateInv, WindowBound
  <2>2. granted[d] \in [Times -> Nat] /\ least[d] \in Int /\ most[d] \in Nat
    BY <1>3 DEF RateTypeOK
  <2>3. least'[d] \in Int /\ least'[d] <= least[d]
    BY <1>4, <1>6, <2>2
  <2>4. TotalOf(granted[d], Span(t, least'[d])) <= TotalOf(granted[d], Span(t, least[d]))
    BY <2>2, <2>3, ShorterSpan
  <2>5. /\ TotalOf(granted[d], Span(t, least'[d])) \in Nat
        /\ TotalOf(granted[d], Span(t, least[d])) \in Nat
    BY <2>2, SpanFinite, TotalIsSum
  <2> QED  BY <2>1, <2>2, <2>4, <2>5
<1> QED  BY <1>7, <1>8, <1>9

LEMMA OneMore ==
  ASSUME NEW counts \in [Times -> Nat], NEW s
  PROVE  /\ [counts EXCEPT ![s] = @ + 1] \in [Times -> Nat]
         /\ \A u \in Times : [counts EXCEPT ![s] = @ + 1][u] = IF u = s THEN counts[u] + 1 ELSE counts[u]
<1> DEFINE more == [counts EXCEPT ![s] = @ + 1]
<1>1. DOMAIN more = Times /\ more = [u \in Times |-> more[u]]
  OBVIOUS
<1>2. ASSUME NEW u \in Times  PROVE  more[u] = IF u = s THEN counts[u] + 1 ELSE counts[u]
  OBVIOUS
<1>3. \A u \in Times : more[u] \in Nat
  BY <1>2
<1> HIDE DEF more
<1>4. more \in [Times -> Nat]
  BY <1>1, <1>3
<1> QED  BY <1>2, <1>4 DEF more

\* A request is let in when fewer entries than its limit are left, and every request
\* let in before it in a span that holds them both is among these.
LEMMA CheckRateLimitKeeps ==
  ASSUME AccessInv, RateInv, NEW r \in Requests, CheckRateLimit(r)
  PROVE  RateTypeOK' /\ GrantsRemembered' /\ WindowBound'
<1> DEFINE c == req[r].c
           stamp == req[r].stamp
           limit == req[r].row.limit
           window == req[r].row.window
           kept == Pruned(c, stamp, window)
           lets == WithinLimit(TotalOf(kept, Times), limit)
           high == Max({most[c], limit})
           short == Min({least[c], window})
<1>1. /\ req[r].step = "count"
      /\ hits' = [hits EXCEPT ![c] = [kept EXCEPT ![stamp] = @ + 1]]
      /\ keyUntil' = [keyUntil EXCEPT ![c] = now + window]
      /\ granted' = IF lets THEN [granted EXCEPT ![c] = [granted[c] EXCEPT ![stamp] = @ + 1]] ELSE granted
      /\ most' = [most EXCEPT ![c] = high] /\ least' = [least EXCEPT ![c] = short]
      /\ now' = now
  BY DEF CheckRateLimit
<1>2. /\ c \in Consumers /\ limit \in Int /\ window \in Int
      /\ stamp \in Nat /\ stamp <= now /\ now <= stamp + MaxDelay
  BY <1>1, ReadyBrings
<1>3. /\ now \in Nat /\ Times \subseteq Nat /\ RateTypeOK
      /\ granted[c] \in [Times -> Nat] /\ most[c] \in Nat /\ least[c] \in Int /\ MaxDelay \in Nat
  BY <1>2, TimesFinite, TimesAssumption DEF AccessInv, AccessTypeOK, RateInv, RateTypeOK
<1>4. short \in Int /\ short <= least[c] /\ short <= window
  BY <1>2, <1>3, LeastOfTwo
<1>5. high \in Nat /\ most[c] <= high /\ limit <= high
  BY <1>2, <1>3, MostOfTwo
<1>6. /\ kept \in [Times -> Nat]
      /\ \A u \in Times : now < u + short => granted[c][u] <= kept[u]
  BY <1>2, <1>4, PrunedKeeps
<1>7. lets => TotalOf(kept, Times) < limit
  BY DEF WithinLimit
<1> HIDE DEF c, stamp, limit, window, kept, lets, high, short
<1> DEFINE counted == [kept EXCEPT ![stamp] = @ + 1]
           more == [granted[c] EXCEPT ![stamp] = @ + 1]
<1>8. /\ counted \in [Times -> Nat]
      /\ \A u \in Times : counted[u] = IF u = stamp THEN kept[u] + 1 ELSE kept[u]
  BY <1>6, OneMore
<1>10. /\ more \in [Times -> Nat]
       /\ \A u \in Times : more[u] = IF u = stamp THEN granted[c][u] + 1 ELSE granted[c][u]
  BY <1>3, OneMore
<1>11. /\ hits' = [hits EXCEPT ![c] = counted]
       /\ granted' = IF lets THEN [granted EXCEPT ![c] = more] ELSE granted
  BY <1>1
<1> HIDE DEF counted, more
<1>12. /\ \A d \in Consumers : d # c => /\ hits'[d] = hits[d] /\ granted'[d] = granted[d]
                                        /\ keyUntil'[d] = keyUntil[d]
                                        /\ most'[d] = most[d] /\ least'[d] = least[d]
       /\ keyUntil'[c] = now + window /\ most'[c] = high /\ least'[c] = short
       /\ hits'[c] = counted /\ granted'[c] = IF lets THEN more ELSE granted[c]
  BY <1>1, <1>2, <1>3, <1>11 DEF RateTypeOK
<1>13. /\ granted'[c] \in [Times -> Nat]
       /\ \A u \in Times : granted'[c][u] = IF lets /\ u = stamp THEN granted[c][u] + 1 ELSE granted[c][u]
       /\ \A u \in Times : hits'[c][u] = IF u = stamp THEN kept[u] + 1 ELSE kept[u]
  BY <1>3, <1>8, <1>10, <1>12
<1>14. RateTypeOK'
  <2>1. now + window \in Int
    BY <1>2, <1>3
  <2> QED  BY <1>1, <1>2, <1>3, <1>4, <1>5, <1>8, <1>10, <1>11, <2>1 DEF RateTypeOK
<1>15. GrantsRemembered'
  <2> SUFFICES ASSUME NEW d \in Consumers, NEW u \in Times, granted'[d][u] > 0
               PROVE  /\ u <= now /\ u + least'[d] <= keyUntil'[d]
                      /\ now < u + least'[d] => granted'[d][u] <= hits'[d][u]
    BY <1>1 DEF GrantsRemembered
  <2>1. CASE d # c
    BY <1>12, <2>1 DEF RateInv, GrantsRemembered
  <2>2. CASE d = c
    <3>1. u \in Nat /\ granted[c][u] \in Nat /\ kept[u] \in Nat
      BY <1>3, <1>6
    <3>2. u <= now
      <4>1. CASE granted[c][u] > 0
        BY <1>2, <4>1 DEF RateInv, GrantsRemembered
      <4>2. CASE granted[c][u] = 0
        BY <1>2, <1>13, <2>2, <4>2
      <4> QED  BY <3>1, <4>1, <4>2
    <3>3. now < u + short => granted'[c][u] <= hits'[c][u]
      BY <1>6, <1>13, <3>1
    <3> QED  BY <1>2, <1>3, <1>4, <1>12, <2>2, <3>1, <3>2, <3>3
  <2> QED  BY <2>1, <2>2
<1>16. WindowBound'
  <2> SUFFICES ASSUME NEW d \in Consumers, NEW t \in Times
               PROVE  TotalOf(granted'[d], Span(t, least'[d])) <= most'[d]
    BY DEF WindowBound
  <2>1. TotalOf(granted[d], Span(t, least[d])) <= most[d]
    BY DEF RateInv, WindowBound
  <2>2. CASE d # c
    BY <1>12, <2>1, <2>2
  <2>3. CASE d = c
    <3> DEFINE W == Span(t, short)
    <3>1. IsFiniteSet(W) /\ W \in SUBSET Times
      BY SpanFinite
    <3>2. t \in Nat /\ \A u \in W : u \in Nat /\ u <= t /\ t + MaxDelay < u + short
      BY <1>3 DEF Span
    <3>3. TotalOf(granted[c], W) <= TotalOf(granted[c], Span(t, least[c]))
      BY <1>3, <1>4, ShorterSpan
    <3>4. TotalOf(granted[c], Span(t, least[c])) \in Nat
      BY <1>3, SpanFinite, TotalIsSum
    <3> HIDE DEF W
    <3>5. NaturalAmounts(Column(granted[c]), W) /\ NaturalAmounts(Column(kept), Times)
      BY <1>3, <1>6, <3>1 DEF NaturalAmounts, Column
    <3>6. /\ TotalOf(granted[c], W) = AmountSum(Column(granted[c]), W)
          /\ TotalOf(granted'[c], W) = AmountSum(Column(granted'[c]), W)
          /\ TotalOf(kept, Times) = AmountSum(Column(kept), Times)
          /\ TotalOf(granted[c], W) \in Nat /\ TotalOf(kept, Times) \in Nat
      BY <1>3, <1>6, <1>13, <3>1, TotalIsSum
    <3>7. CASE ~(lets /\ stamp \in W)
      <4>1. \A u \in W : Column(granted[c])[u].amount = Column(granted'[c])[u].amount
        BY <1>13, <3>1, <3>7 DEF Column
      <4>2. AmountSum(Column(granted[c]), W) = AmountSum(Column(granted'[c]), W)
        BY <3>1, <3>5, <4>1, SumOfSameAmounts
      <4> QED  BY <1>3, <1>5, <1>12, <2>1, <2>3, <3>3, <3>4, <3>6, <4>2 DEF W
    <3>8. CASE lets /\ stamp \in W
      <4>1. \A u \in W : granted[c][u] <= kept[u]
        BY <1>2, <1>3, <1>4, <1>6, <3>1, <3>2, <3>8
      <4>2. \A u \in W : Column(granted[c])[u].amount <= Column(kept)[u].amount
        BY <3>1, <4>1 DEF Column
      <4>3. AmountSum(Column(granted[c]), W) <= AmountSum(Column(kept), Times)
        BY <3>1, <3>5, <4>2, TimesFinite, SumOfFewer
      <4>4. \A u \in W : Column(granted'[c])[u].amount =
               IF u = stamp THEN Column(granted[c])[u].amount + 1 ELSE Column(granted[c])[u].amount
        BY <1>13, <3>1, <3>8 DEF Column
      <4>5. AmountSum(Column(granted'[c]), W) = AmountSum(Column(granted[c]), W) + 1
        BY <3>1, <3>5, <3>8, <4>4, SumWithOneMore
      <4>6. TotalOf(granted'[c], W) <= high
        BY <1>2, <1>5, <1>7, <3>6, <3>8, <4>3, <4>5
      <4> QED  BY <1>12, <2>3, <4>6 DEF W
    <3> QED  BY <3>7, <3>8
  <2> QED  BY <2>2, <2>3
<1> QED  BY <1>14, <1>15, <1>16

\* The clock moves by Tick alone, one step at a time.
LEMMA ClockMoves == AccessNext => now' = now \/ now' = now + 1
<1> SUFFICES ASSUME AccessNext PROVE now' = now \/ now' = now + 1
  OBVIOUS
<1>1. ASSUME NEW r \in Requests, NEW c \in Consumers,
             \/ \E op, m : BeginRequest(r, op, c, m)
             \/ Suspend(r, c) \/ Revoke(r, c) \/ Activate(r, c) \/ RotateSecret(r, c)
             \/ \E n \in Limits : ChangeLimit(r, c, n)
             \/ \E n \in Windows : ChangeWindow(r, c, n)
             \/ ConsumerDetail(r, c)
      PROVE  now' = now
  BY <1>1 DEF BeginRequest, Suspend, Revoke, Activate, RotateSecret, ChangeLimit, ChangeWindow,
     UpdateConsumer, ConsumerDetail
<1>2. ASSUME NEW r \in Requests, LookupHit(r) \/ LookupMiss(r) \/ FetchRow(r) \/ Store(r)
      PROVE  now' = now
  BY <1>2 DEF LookupHit, LookupMiss, FetchRow, Store
<1>3. ASSUME NEW r \in Requests, CheckAccess(r) \/ Invalidate(r) \/ Fail(r)
      PROVE  now' = now
  BY <1>3 DEF CheckAccess, Invalidate, Fail
<1>4. ASSUME NEW c \in Consumers,
             \/ Register(c) \/ Authenticate(c)
             \/ \E m \in Merchants : AssignMerchant(c, m) \/ RemoveMerchantAccess(c, m)
      PROVE  now' = now
  BY <1>4 DEF Register, Authenticate, AssignMerchant, RemoveMerchantAccess
<1>5. ASSUME Tick PROVE now' = now + 1
  BY <1>5 DEF Tick
<1> QED  BY <1>1, <1>2, <1>3, <1>4, <1>5 DEF AccessNext

LEMMA RateNextInvariant == AccessInv /\ RateInv /\ [ThirdPartyNext]_allVars => RateInv'
<1> SUFFICES ASSUME AccessInv, RateInv, [ThirdPartyNext]_allVars
             PROVE  RateTypeOK' /\ GrantsRemembered' /\ WindowBound'
  BY ReadyKeeps DEF RateInv
<1>1. CASE AccessStep
  <2>1. now' = now \/ now' = now + 1
    BY <1>1, ClockMoves DEF AccessStep
  <2> QED  BY <1>1, <2>1, RateRests DEF AccessStep
<1>2. CASE RateStep
  BY <1>2, CheckRateLimitKeeps, ShowStatusKeeps DEF RateStep, RateNext
<1>3. CASE ExportStep \/ EndpointStep
  BY <1>3, ServingMoves, RateRests DEF ExportStep, EndpointStep, copyVars
<1>4. CASE WriteStep \/ DeliveryStep \/ TaskStep \/ UNCHANGED allVars
  BY <1>4, OutsideRests, RateRests DEF WriteStep, DeliveryStep, TaskStep, allVars
<1> QED  BY <1>1, <1>2, <1>3, <1>4 DEF ThirdPartyNext

\* The inductive invariant of the rate limiter: the sorted set against what was let in.
THEOREM RateInvariantHolds == ThirdPartySpec => []RateInv
<1> QED  BY RateInitInvariant, RateNextInvariant, AccessInvariantHolds, PTL DEF ThirdPartySpec

\* check_rate_limit lets no consumer in more often, in any span of its shortest window
\* less the age of a clock reading, than its highest limit allows: for any limits and
\* windows, set at any time and read from copies as stale as they may be, and however
\* late a request is counted by the time it read.
THEOREM NoWindowOverrun == ThirdPartySpec => []WindowBound
<1>1. RateInv => WindowBound  BY DEF RateInv
<1> QED  BY <1>1, RateInvariantHolds, PTL

-----------------------------------------------------------------------------
(* What an export has shown when it comes to its end                       *)

WalkType ==
    [cursor : (Nat \X RowIds) \cup {None}, got : SUBSET (RowIds \X Nat),
     behind : SUBSET (RowIds \X Nat), over : BOOLEAN]

AllShown == {x \in RowIds : Shown(x)}

ExportTypeOK ==
    /\ table \in [RowIds -> [at : Nat, ver : Nat] \cup {None}]
    /\ pending \in [RowIds -> Nat \cup {None}]
    /\ walk \in [Consumers -> WalkType]
    /\ IsFiniteSet(AllShown)

\* ExportComplete of a walk under way: it accounts for every row it has passed.
PassedAccounted ==
    \A c \in Consumers, x \in RowIds :
        Shown(x) /\ Passed(walk[c], Key(x)) => <<x, table[x].ver>> \in walk[c].got \cup walk[c].behind

ExportInv == ExportTypeOK /\ PassedAccounted

Below(x, rows) == {y \in rows : After(Key(x), Key(y))}

\* (updated_at, id) is a strict total order of the rows that are shown.
LEMMA KeysOrdered ==
  ASSUME ExportTypeOK
  PROVE  /\ AllShown \subseteq RowIds /\ \A x \in AllShown : Key(x) \in Nat \X RowIds
         /\ \A x \in AllShown : ~After(Key(x), Key(x))
         /\ \A x, y \in AllShown : x = y \/ After(Key(x), Key(y)) \/ After(Key(y), Key(x))
         /\ \A x, y, z \in AllShown :
              After(Key(x), Key(y)) /\ After(Key(y), Key(z)) => After(Key(x), Key(z))
<1>1. \A x \in AllShown : x \in RowIds /\ x \in Nat /\ table[x].at \in Nat
  BY RowIdsAssumption DEF AllShown, Shown, ExportTypeOK
<1>2. \A x, y : After(Key(x), Key(y)) <=>
                   (table[x].at > table[y].at \/ (table[x].at = table[y].at /\ x > y))
  BY DEF After, Key
<1>3. AllShown \subseteq RowIds /\ \A x \in AllShown : Key(x) \in Nat \X RowIds
  BY <1>1 DEF Key
<1>4. \A x \in AllShown : ~After(Key(x), Key(x))
  BY <1>1, <1>2
<1>5. ASSUME NEW x \in AllShown, NEW y \in AllShown
      PROVE  x = y \/ After(Key(x), Key(y)) \/ After(Key(y), Key(x))
  <2> DEFINE u == table[x].at  v == table[y].at
  <2>1. x \in Nat /\ y \in Nat /\ u \in Nat /\ v \in Nat
    BY <1>1
  <2>2. x = y \/ (u > v \/ (u = v /\ x > y)) \/ (v > u \/ (v = u /\ y > x))
    <3> HIDE DEF u, v
    <3> QED  BY <2>1
  <2> QED  BY <1>2, <2>2
<1>6. ASSUME NEW x \in AllShown, NEW y \in AllShown, NEW z \in AllShown,
             After(Key(x), Key(y)), After(Key(y), Key(z))
      PROVE  After(Key(x), Key(z))
  <2> DEFINE u == table[x].at  v == table[y].at  w == table[z].at
  <2>1. x \in Nat /\ y \in Nat /\ z \in Nat /\ u \in Nat /\ v \in Nat /\ w \in Nat
    BY <1>1
  <2>2. (u > v \/ (u = v /\ x > y)) /\ (v > w \/ (v = w /\ y > z))
    BY <1>2, <1>6
  <2>3. u > w \/ (u = w /\ x > z)
    <3> HIDE DEF u, v, w
    <3> QED  BY <2>1, <2>2
  <2> QED  BY <1>2, <2>3
<1> QED  BY <1>3, <1>4, <1>5, <1>6

\* A row without any below it, and one with all others below it.
LEMMA FirstOfRows ==
  ASSUME ExportTypeOK, NEW rows \in SUBSET AllShown, NEW some \in SUBSET rows, some # {}
  PROVE  \E x \in some : Below(x, rows) \cap some = {}
<1> DEFINE Bad == {Below(x, rows) : x \in some}
<1>1. IsFiniteSet(rows) /\ Bad \in SUBSET (SUBSET rows) /\ Bad # {}
  <2>1. IsFiniteSet(rows)
    BY FS_Subset DEF ExportTypeOK
  <2>2. Bad \in SUBSET (SUBSET rows)
    BY DEF Below
  <2>3. Bad # {}
    OBVIOUS
  <2> QED  BY <2>1, <2>2, <2>3
<1>2. PICK T \in Bad : \A U \in Bad : U \subseteq T => U = T
  <2> HIDE DEF Bad
  <2> QED  BY <1>1, MinimalSubset
<1>3. PICK x \in some : T = Below(x, rows)
  BY <1>2
<1>4. ASSUME NEW y \in Below(x, rows) \cap some  PROVE  FALSE
  <2>1. y \in AllShown /\ x \in AllShown /\ After(Key(x), Key(y)) /\ y \in rows
    BY <1>4 DEF Below
  <2>2. Below(y, rows) \subseteq Below(x, rows)
    BY <2>1, KeysOrdered DEF Below
  <2>3. Below(y, rows) = Below(x, rows)
    BY <1>2, <1>3, <1>4, <2>2
  <2>4. y \notin Below(y, rows)
    BY <2>1, KeysOrdered DEF Below
  <2> QED  BY <1>4, <2>3, <2>4
<1> QED  BY <1>4

LEMMA LastRowIsLast ==
  ASSUME ExportTypeOK, NEW rows \in SUBSET AllShown, rows # {}
  PROVE  LastRow(rows) \in rows /\ \A y \in rows \ {LastRow(rows)} : After(Key(LastRow(rows)), Key(y))
<1> DEFINE IsLast(x, U) == x \in U /\ \A y \in U \ {x} : After(Key(x), Key(y))
           Bad == {U \in SUBSET rows : U # {} /\ ~ \E x \in U : IsLast(x, U)}
<1>1. ASSUME Bad # {}  PROVE  FALSE
  <2>1. IsFiniteSet(rows)
    BY FS_Subset DEF ExportTypeOK
  <2>2. PICK U \in Bad : \A V \in Bad : V \subseteq U => V = U
    <3>1. Bad \in SUBSET (SUBSET rows)
      OBVIOUS
    <3> HIDE DEF Bad
    <3> QED  BY <1>1, <2>1, <3>1, MinimalSubset
  <2>3. PICK x \in U : TRUE
    BY <2>2
  <2> DEFINE V == U \ {x}
  <2>4. V \in SUBSET rows /\ V # U /\ V \subseteq U /\ U = V \cup {x} /\ U \subseteq AllShown
    BY <2>2, <2>3
  <2>5. V \notin Bad /\ ~ \E z \in U : IsLast(z, U)
    BY <2>2, <2>4
  <2>6. CASE V = {}
    BY <2>3, <2>4, <2>5, <2>6
  <2>7. CASE V # {}
    <3>1. PICK m \in V : IsLast(m, V)
      BY <2>4, <2>5, <2>7
    <3> HIDE DEF V
    <3>2. x \in AllShown /\ m \in AllShown /\ m \in U /\ V \subseteq AllShown
      BY <2>3, <2>4, <3>1
    <3>3. CASE After(Key(x), Key(m))
      <4>1. \A y \in V : y = m \/ After(Key(m), Key(y))
        BY <3>1
      <4>2. \A y \in V : After(Key(x), Key(y))
        BY <3>2, <3>3, <4>1, KeysOrdered
      <4>3. IsLast(x, U)
        BY <2>3, <2>4, <4>2
      <4> QED  BY <2>3, <2>5, <4>3
    <3>4. CASE x = m \/ After(Key(m), Key(x))
      <4>1. IsLast(m, U)
        BY <2>4, <3>1, <3>2, <3>4
      <4> QED  BY <2>5, <3>2, <4>1
    <3> QED  BY <3>2, <3>3, <3>4, KeysOrdered
  <2> QED  BY <2>6, <2>7
<1>2. \E x \in rows : IsLast(x, rows)
  <2>1. rows \in SUBSET rows
    OBVIOUS
  <2> QED  BY <1>1, <2>1
<1> QED  BY <1>2 DEF LastRow

LEMMA Ranks ==
  ASSUME ExportTypeOK, NEW rows \in SUBSET AllShown
  PROVE  /\ \A x : IsFiniteSet(Below(x, rows)) /\ Cardinality(Below(x, rows)) \in Nat
         /\ \A x, y \in AllShown : After(Key(x), Key(y)) =>
               Cardinality(Below(y, rows)) <= Cardinality(Below(x, rows))
         /\ \A n : FirstRows(rows, n) = {x \in rows : Cardinality(Below(x, rows)) < n}
<1>1. ASSUME NEW x  PROVE  IsFiniteSet(Below(x, rows)) /\ Cardinality(Below(x, rows)) \in Nat
  BY FS_Subset, FS_CardinalityType DEF ExportTypeOK, Below
<1>2. ASSUME NEW x \in AllShown, NEW y \in AllShown, After(Key(x), Key(y))
      PROVE  Cardinality(Below(y, rows)) <= Cardinality(Below(x, rows))
  <2>1. Below(y, rows) \subseteq Below(x, rows)
    BY <1>2, KeysOrdered DEF Below
  <2> QED  BY <1>1, <2>1, FS_Subset
<1>3. \A n : FirstRows(rows, n) = {x \in rows : Cardinality(Below(x, rows)) < n}
  BY DEF FirstRows, Below
<1> QED  BY <1>1, <1>2, <1>3

\* A page has every row found that is not behind its cursor, and without a cursor all.
LEMMA PageMissesNone ==
  ASSUME ExportTypeOK, NEW found \in SUBSET AllShown
  PROVE  LET page == BuildBulkResponse(found) IN
         /\ page.data \subseteq found
         /\ page.next_cursor \in (Nat \X RowIds) \cup {None}
         /\ \A x \in found : x \in page.data
                \/ (page.next_cursor # None /\ After(Key(x), page.next_cursor))
<1> DEFINE rows == FirstRows(found, PageSize + 1)
           data == FirstRows(rows, PageSize)
           next == IF Cardinality(rows) > PageSize THEN Key(LastRow(data)) ELSE None
<1>1. BuildBulkResponse(found).data = data /\ BuildBulkResponse(found).next_cursor = next
  BY DEF BuildBulkResponse
<1>2. PageSize \in Nat /\ PageSize > 0
  BY RowIdsAssumption
<1>3. /\ \A x : x \in rows <=> x \in found /\ Cardinality(Below(x, found)) < PageSize + 1
      /\ \A x : x \in data <=> x \in rows /\ Cardinality(Below(x, rows)) < PageSize
      /\ rows \in SUBSET AllShown /\ IsFiniteSet(rows) /\ Cardinality(rows) \in Nat
  <2>1. rows = {x \in found : Cardinality(Below(x, found)) < PageSize + 1}
    BY Ranks
  <2>2. rows \in SUBSET AllShown
    BY <2>1
  <2>3. IsFiniteSet(rows) /\ Cardinality(rows) \in Nat
    BY <2>2, FS_Subset, FS_CardinalityType DEF ExportTypeOK
  <2> HIDE DEF rows
  <2>4. data = {x \in rows : Cardinality(Below(x, rows)) < PageSize}
    BY <2>2, Ranks
  <2> QED  BY <2>1, <2>2, <2>3, <2>4
<1> HIDE DEF rows, data
<1>4. CASE Cardinality(rows) <= PageSize
  <2>1. found \ rows = {}
    <3> SUFFICES ASSUME found \ rows # {}  PROVE  FALSE
      OBVIOUS
    <3>1. PICK x \in found \ rows : Below(x, found) \cap (found \ rows) = {}
      BY FirstOfRows
    <3>2. Below(x, found) \subseteq rows
      BY <3>1 DEF Below
    <3>3. Cardinality(Below(x, found)) <= Cardinality(rows)
      BY <1>3, <3>2, FS_Subset
    <3>4. Cardinality(Below(x, found)) \in Nat
      BY Ranks
    <3> QED  BY <1>2, <1>3, <1>4, <3>1, <3>3, <3>4
  <2>2. ASSUME NEW x \in found  PROVE  x \in data
    <3>1. x \in rows /\ x \in AllShown
      BY <2>1, <2>2
    <3>2. Below(x, rows) \subseteq rows /\ Below(x, rows) # rows
      BY <3>1, KeysOrdered DEF Below
    <3>3. Cardinality(Below(x, rows)) \in Nat
      BY <1>3, Ranks
    <3>4. Cardinality(Below(x, rows)) <= Cardinality(rows) /\ Cardinality(Below(x, rows)) # Cardinality(rows)
      BY <1>3, <3>2, FS_Subset
    <3> QED  BY <1>2, <1>3, <1>4, <3>1, <3>3, <3>4
  <2>3. next = None
    BY <1>2, <1>3, <1>4
  <2> QED  BY <1>1, <1>3, <2>2, <2>3
<1>5. CASE Cardinality(rows) > PageSize
  <2> DEFINE last == LastRow(data)
  <2>1. data \in SUBSET AllShown /\ data # {}
    <3>1. rows # {}
      BY <1>2, <1>5, FS_EmptySet
    <3>2. PICK x \in rows : Below(x, rows) \cap rows = {}
      BY <1>3, <3>1, FirstOfRows
    <3>3. Below(x, rows) = {}
      BY <3>2 DEF Below
    <3>4. Cardinality(Below(x, rows)) = 0
      BY <3>3, FS_EmptySet
    <3> QED  BY <1>2, <1>3, <3>4
  <2>2. last \in data /\ \A y \in data \ {last} : After(Key(last), Key(y))
    BY <2>1, LastRowIsLast
  <2> HIDE DEF last
  <2>3. Key(last) \in Nat \X RowIds /\ Key(last) # None
    BY <2>1, <2>2, KeysOrdered, NoCursorAssumption
  <2>4. next = Key(last)
    BY <1>5 DEF last
  <2>5. ASSUME NEW x \in found, ~After(Key(x), Key(last))  PROVE  x \in data
    <3>1. x \in AllShown /\ last \in AllShown /\ last \in rows
      BY <1>3, <2>1, <2>2
    <3>2. CASE x = last
      BY <2>2, <3>2
    <3>3. CASE After(Key(last), Key(x))
      <4>1. /\ Cardinality(Below(x, found)) <= Cardinality(Below(last, found))
            /\ Cardinality(Below(x, found)) \in Nat /\ Cardinality(Below(last, found)) \in Nat
        BY <3>1, <3>3, Ranks
      <4>2. /\ Cardinality(Below(x, rows)) <= Cardinality(Below(last, rows))
            /\ Cardinality(Below(x, rows)) \in Nat /\ Cardinality(Below(last, rows)) \in Nat
        BY <1>3, <3>1, <3>3, Ranks
      <4>3. Cardinality(Below(last, found)) < PageSize + 1 /\ Cardinality(Below(last, rows)) < PageSize
        BY <1>3, <2>2
      <4> QED  BY <1>2, <1>3, <4>1, <4>2, <4>3
    <3> QED  BY <2>5, <3>1, <3>2, <3>3, KeysOrdered
  <2> QED  BY <1>1, <1>3, <2>3, <2>4, <2>5
<1> QED  BY <1>2, <1>3, <1>4, <1>5

LEMMA ExportInitInvariant == BulkInit => ExportInv
<1> SUFFICES ASSUME BulkInit  PROVE  ExportInv
  OBVIOUS
<1>1. AllShown = {}
  BY DEF BulkInit, AllShown, Shown
<1>2. NewWalk \in WalkType
  BY DEF NewWalk, WalkType
<1>3. ExportTypeOK
  BY <1>1, <1>2, FS_EmptySet DEF BulkInit, ExportTypeOK
<1>4. PassedAccounted
  BY <1>1 DEF PassedAccounted, AllShown
<1> QED  BY <1>3, <1>4 DEF ExportInv

\* What appears behind a walk is noted, and what is ahead of it is not passed.
LEMMA AppearKeeps ==
  ASSUME ExportInv, NEW x \in RowIds, NEW at \in Nat, NEW ver \in Nat, Appear(x, at, ver),
         pending' \in [RowIds -> Nat \cup {None}]
  PROVE  ExportInv'
<1> DEFINE seen(c) == IF Passed(walk[c], <<at, x>>)
                      THEN [walk[c] EXCEPT !.behind = @ \cup {<<x, ver>>}] ELSE walk[c]
<1>1. /\ table' = [table EXCEPT ![x] = [at |-> at, ver |-> ver]]
      /\ walk' = [c \in Consumers |-> seen(c)]
  BY DEF Appear
<1>2. ASSUME NEW c \in Consumers
      PROVE  /\ seen(c) \in WalkType
             /\ seen(c).cursor = walk[c].cursor /\ seen(c).over = walk[c].over /\ seen(c).got = walk[c].got
             /\ walk[c].behind \subseteq seen(c).behind
             /\ Passed(walk[c], <<at, x>>) => <<x, ver>> \in seen(c).behind
  <2>1. walk[c] \in WalkType /\ <<x, ver>> \in RowIds \X Nat
    BY DEF ExportInv, ExportTypeOK
  <2> QED  BY <2>1 DEF WalkType
<1> HIDE DEF seen
<1>3. /\ \A y \in RowIds : table'[y] = IF y = x THEN [at |-> at, ver |-> ver] ELSE table[y]
      /\ table' \in [RowIds -> [at : Nat, ver : Nat] \cup {None}]
  BY <1>1 DEF ExportInv, ExportTypeOK
<1>4. ExportTypeOK'
  <2>1. AllShown' \subseteq AllShown \cup {x}
    BY <1>3 DEF AllShown, Shown
  <2>2. IsFiniteSet(AllShown \cup {x})
    BY FS_AddElement DEF ExportInv, ExportTypeOK
  <2>3. IsFiniteSet(AllShown')
    BY <2>1, <2>2, FS_Subset
  <2> QED  BY <1>1, <1>2, <1>3, <2>3 DEF ExportTypeOK
<1>5. PassedAccounted'
  <2> SUFFICES ASSUME NEW c \in Consumers, NEW y \in RowIds, Shown(y)', Passed(walk[c], Key(y))'
               PROVE  <<y, table'[y].ver>> \in walk'[c].got \cup walk'[c].behind
    BY DEF PassedAccounted
  <2>1. walk'[c] = seen(c)
    BY <1>1
  <2>2. Passed(walk[c], Key(y)')
    BY <1>2, <2>1 DEF Passed, After
  <2>3. CASE y = x
    <3>1. Key(y)' = <<at, x>> /\ table'[y].ver = ver
      BY <1>3, <2>3 DEF Key
    <3> QED  BY <1>2, <2>1, <2>2, <2>3, <3>1
  <2>4. CASE y # x
    <3>1. table'[y] = table[y] /\ Key(y)' = Key(y) /\ Shown(y)
      BY <1>3, <2>4 DEF Key, Shown
    <3>2. <<y, table[y].ver>> \in walk[c].got \cup walk[c].behind
      BY <2>2, <3>1 DEF ExportInv, PassedAccounted
    <3> QED  BY <1>2, <2>1, <3>1, <3>2
  <2> QED  BY <2>3, <2>4
<1> QED  BY <1>4, <1>5 DEF ExportInv

LEMMA WritesKeep ==
  ASSUME AccessInv, ExportInv, WritesNext
  PROVE  ExportInv'
<1> PICK x \in RowIds :
      StampRow(x) \/ AppearRow(x) \/ RefundPayment(x) \/ MarkPublished(x) \/ DeleteCustomerRow(x)
  BY DEF WritesNext
<1>1. /\ table \in [RowIds -> [at : Nat, ver : Nat] \cup {None}]
      /\ pending \in [RowIds -> Nat \cup {None}] /\ now \in Nat
      /\ Shown(x) => table[x].at \in Nat /\ table[x].ver \in Nat /\ table[x].ver + 1 \in Nat
  BY DEF ExportInv, ExportTypeOK, AccessInv, AccessTypeOK, Shown
<1>2. CASE StampRow(x)
  <2>1. pending' \in [RowIds -> Nat \cup {None}] /\ UNCHANGED <<table, walk>>
    BY <1>1, <1>2 DEF StampRow
  <2> QED  BY <2>1 DEF ExportInv, ExportTypeOK, AllShown, PassedAccounted, Shown, Passed, Key, After
<1>3. CASE AppearRow(x)
  <2>1. /\ Appear(x, pending[x], IF Shown(x) THEN table[x].ver + 1 ELSE 1)
        /\ pending[x] \in Nat /\ (IF Shown(x) THEN table[x].ver + 1 ELSE 1) \in Nat
        /\ pending' \in [RowIds -> Nat \cup {None}]
    BY <1>1, <1>3 DEF AppearRow
  <2> QED  BY <2>1, AppearKeeps
<1>4. CASE RefundPayment(x) \/ MarkPublished(x)
  <2>1. /\ Appear(x, table[x].at, table[x].ver + 1) /\ Shown(x)
        /\ pending' \in [RowIds -> Nat \cup {None}]
    BY <1>1, <1>4 DEF RefundPayment, MarkPublished, ChangeUnstamped
  <2> QED  BY <1>1, <2>1, AppearKeeps
<1>5. CASE DeleteCustomerRow(x)
  <2>1. table' = [table EXCEPT ![x] = Gone] /\ UNCHANGED <<pending, walk>>
    BY <1>5 DEF DeleteCustomerRow
  <2>2. /\ table' \in [RowIds -> [at : Nat, ver : Nat] \cup {None}]
        /\ \A y \in RowIds : Shown(y)' => Shown(y) /\ table'[y] = table[y]
    BY <1>1, <2>1 DEF Gone, Shown
  <2>3. IsFiniteSet(AllShown')
    BY <2>2, FS_Subset DEF AllShown, ExportInv, ExportTypeOK
  <2> QED  BY <2>1, <2>2, <2>3 DEF ExportInv, ExportTypeOK, PassedAccounted, Passed, Key, After
<1> QED  BY <1>2, <1>3, <1>4, <1>5

\* A page takes the walk past the rows it brings, and past no other.
LEMMA ExportPageKeeps ==
  ASSUME AccessInv, ExportInv, NEW r \in Requests, ExportPage(r)
  PROVE  ExportInv'
<1> DEFINE c == req[r].c
           found == Found(walk[c])
           page == BuildBulkResponse(found)
           brought == {<<x, table[x].ver>> : x \in page.data}
           gone == [walk[c] EXCEPT !.cursor = page.next_cursor, !.got = @ \cup brought,
                                   !.over = page.next_cursor = None]
<1>1. /\ ~walk[c].over /\ walk' = [walk EXCEPT ![c] = gone]
      /\ UNCHANGED <<table, pending>>
  BY DEF ExportPage
<1>2. c \in Consumers
  BY DEF ExportPage, AccessInv, RequestsSound, RequestSound, Idle
<1>3. found \in SUBSET AllShown
  BY DEF Found, AllShown
<1>4. /\ page.data \subseteq AllShown
      /\ page.next_cursor \in (Nat \X RowIds) \cup {None}
      /\ \A x \in found : x \in page.data
             \/ (page.next_cursor # None /\ After(Key(x), page.next_cursor))
  <2> HIDE DEF found
  <2> QED  BY <1>3, PageMissesNone DEF ExportInv
<1> HIDE DEF page
<1>5. walk[c] \in WalkType /\ brought \in SUBSET (RowIds \X Nat)
  <2>1. \A x \in AllShown : x \in RowIds /\ table[x].ver \in Nat
    BY DEF AllShown, Shown, ExportInv, ExportTypeOK
  <2> QED  BY <1>2, <1>4, <2>1 DEF ExportInv, ExportTypeOK
<1>6. \A x \in page.data : <<x, table[x].ver>> \in brought
  OBVIOUS
<1> HIDE DEF brought
<1>7. /\ gone \in WalkType /\ gone.cursor = page.next_cursor /\ gone.over = (page.next_cursor = None)
      /\ gone.got = walk[c].got \cup brought /\ gone.behind = walk[c].behind
  BY <1>4, <1>5 DEF WalkType
<1> HIDE DEF gone
<1>8. \A d \in Consumers : walk'[d] = IF d = c THEN gone ELSE walk[d]
  BY <1>1 DEF ExportInv, ExportTypeOK
<1>9. ExportTypeOK'
  BY <1>1, <1>7 DEF ExportInv, ExportTypeOK, AllShown, Shown
<1>10. PassedAccounted'
  <2> SUFFICES ASSUME NEW d \in Consumers, NEW x \in RowIds, Shown(x), Passed(walk'[d], Key(x))
               PROVE  <<x, table[x].ver>> \in walk'[d].got \cup walk'[d].behind
    BY <1>1 DEF PassedAccounted, Shown, Key
  <2>1. CASE d # c
    BY <1>8, <2>1 DEF ExportInv, PassedAccounted
  <2>2. CASE d = c /\ Passed(walk[c], Key(x))
    BY <1>7, <1>8, <2>2 DEF ExportInv, PassedAccounted
  <2>3. CASE d = c /\ ~Passed(walk[c], Key(x))
    <3>1. x \in found
      BY <2>3 DEF Passed, Found
    <3>2. ~(page.next_cursor # None /\ After(Key(x), page.next_cursor))
      BY <1>7, <1>8, <2>3 DEF Passed
    <3>3. <<x, table[x].ver>> \in brought
      BY <1>4, <1>6, <3>1, <3>2
    <3> QED  BY <1>7, <1>8, <2>3, <3>3
  <2> QED  BY <2>1, <2>2, <2>3
<1> QED  BY <1>9, <1>10 DEF ExportInv

LEMMA ExportNextInvariant == AccessInv /\ ExportInv /\ [ThirdPartyNext]_allVars => ExportInv'
<1> SUFFICES ASSUME AccessInv, ExportInv, [ThirdPartyNext]_allVars  PROVE  ExportInv'
  OBVIOUS
<1>1. ASSUME UNCHANGED bulkVars  PROVE  ExportInv'
  BY <1>1 DEF bulkVars, ExportInv, ExportTypeOK, AllShown, PassedAccounted, Shown, Passed, Key, After
<1>2. CASE ExportStep
  <2>1. ASSUME NEW r \in Requests, RefuseExport(r) \/ GetAssignedMerchants(r)  PROVE  ExportInv'
    BY <1>1, <2>1 DEF RefuseExport, GetAssignedMerchants
  <2> QED  BY <1>2, <2>1, ExportPageKeeps
           DEF ExportStep, ExportNext, GetPayments, GetCustomers, GetRefunds, GetEvents
<1>3. CASE WriteStep  BY <1>3, WritesKeep DEF WriteStep
<1>4. CASE \/ AccessStep \/ RateStep \/ EndpointStep \/ DeliveryStep \/ TaskStep \/ UNCHANGED allVars
  BY <1>1, <1>4 DEF AccessStep, RateStep, EndpointStep, DeliveryStep, TaskStep, allVars
<1> QED  BY <1>2, <1>3, <1>4 DEF ThirdPartyNext

\* The inductive invariant of the bulk export: what a walk under way has passed.
THEOREM ExportInvariantHolds == ThirdPartySpec => []ExportInv
<1>1. ThirdPartyInit => ExportInv
  BY ExportInitInvariant DEF ThirdPartyInit
<1> QED  BY <1>1, ExportNextInvariant, AccessInvariantHolds, PTL DEF ThirdPartySpec

\* A client that follows next_cursor to its end has every row of the table in its
\* latest version, whatever is written meanwhile, but for versions that appeared
\* behind its cursor; for any size of table and page.
THEOREM ExportMissesNoneAhead == ThirdPartySpec => []ExportComplete
<1>1. ExportInv => ExportComplete
  BY DEF ExportInv, PassedAccounted, Passed, ExportComplete
<1> QED  BY <1>1, ExportInvariantHolds, PTL

-----------------------------------------------------------------------------
(* The webhook consumer: what it has behind it                             *)

TopicInv == TopicTypeOK /\ GivenUpCounted /\ OffsetsCover /\ SkippedOnlyWithoutOffset /\ AnswerKept
TaskInv ==
    /\ TaskTypeOK /\ RowsExist /\ DeadLetterOrDelivered
    /\ \A w \in Workers : TaskSound(worker[w])

LEMMA HookInitInvariant == WebhookInit => HookInv
<1> SUFFICES ASSUME WebhookInit  PROVE  HookInv
  OBVIOUS
<1> USE DEF WebhookInit
<1>0. EndpointsTyped
  <2>1. \A c \in Consumers : OpenEndpoint(c) \in
           [owner : Consumers, scope : Merchants \cup {None}, wants : BOOLEAN, active : BOOLEAN]
    BY DEF OpenEndpoint
  <2> QED  BY <2>1 DEF EndpointsTyped
<1>1. Down \in HookType /\ Down.step = "down" /\ Down.ev = 0
  BY DEF Down, Resting, HookType
<1>2. Free \in TaskType /\ Free.step = "free"
  BY DEF Free, TaskType, TaskSteps
<1>3. TopicTypeOK  BY <1>1 DEF TopicTypeOK
<1>4. GivenUpCounted /\ OffsetsCover /\ SkippedOnlyWithoutOffset /\ AnswerKept
  BY <1>1, FS_EmptySet DEF GivenUpCounted, OffsetsCover, SkippedOnlyWithoutOffset, AnswerKept
<1>5. TaskTypeOK  BY <1>2 DEF TaskTypeOK
<1>6. RowsExist /\ DeadLetterOrDelivered
  BY DEF RowsExist, DeadLetterOrDelivered
<1>7. \A w \in Workers : TaskSound(worker[w])
  BY <1>2 DEF TaskSound
<1> QED  BY <1>0, <1>3, <1>4, <1>5, <1>6, <1>7 DEF HookInv

\* The loop goes on to another endpoint, or is done with the message in hand.
LEMMA TurnKeeps ==
  ASSUME TopicInv, NEW todo \in SUBSET Fetched, Turn(todo),
         hook.step \in {"targets", "check", "post", "insert"},
         UNCHANGED <<published, position, committed, dropped, jumped>>,
         raised' \in {raised, raised + 1}
  PROVE  TopicInv'
<1> USE DEF TopicInv, TopicTypeOK
<1>0. GivenUpCounted' /\ raised' \in Nat
  BY FS_CardinalityType DEF GivenUpCounted
<1>1. CASE todo = {}
  <2>1. hook' = Resting /\ handled' = handled \cup {hook.ev}
    BY <1>1 DEF Turn
  <2>2. Resting \in HookType /\ Resting.step = "ready" /\ Resting.ev = 0
    BY DEF Resting, HookType
  <2>3. TopicTypeOK'  BY <1>0, <2>1, <2>2
  <2>4. OffsetsCover' /\ SkippedOnlyWithoutOffset' /\ AnswerKept'
    BY <1>0, <2>1, <2>2 DEF GivenUpCounted, OffsetsCover, SkippedOnlyWithoutOffset, AnswerKept
  <2> QED  BY <1>0, <2>3, <2>4
<1>2. CASE todo # {}
  <2>1. PICK f \in todo :
          hook' = [hook EXCEPT !.todo = todo \ {f}, !.e = f,
                               !.step = IF f.scope # None THEN "post" ELSE "check"]
    BY <1>2 DEF Turn
  <2>2. handled' = handled
    BY <1>2 DEF Turn
  <2>3. /\ hook' \in HookType /\ hook'.step \in {"post", "check"} /\ hook'.ev = hook.ev
        /\ hook'.e \in Fetched
    BY <2>1 DEF HookType
  <2>4. TopicTypeOK'  BY <1>0, <2>3
  <2>5. OffsetsCover' /\ SkippedOnlyWithoutOffset' /\ AnswerKept'
    BY <1>0, <2>2, <2>3 DEF GivenUpCounted, OffsetsCover, SkippedOnlyWithoutOffset, AnswerKept
  <2> QED  BY <1>0, <2>4, <2>5
<1> QED  BY <1>1, <1>2

LEMMA JoinKeeps ==
  ASSUME TopicInv, Join
  PROVE  TopicInv'
<1> USE DEF TopicInv, TopicTypeOK
<1>1. /\ hook' = Resting
      /\ position' = IF committed = None THEN published ELSE committed
      /\ jumped' = IF committed = None THEN jumped \cup (1..published) ELSE jumped
      /\ UNCHANGED <<published, committed, handled, dropped, raised, acked>>
  BY DEF Join
<1>2. Resting \in HookType /\ Resting.step = "ready" /\ Resting.ev = 0
  BY DEF Resting, HookType
<1>3. TopicTypeOK'  BY <1>1, <1>2
<1>4. GivenUpCounted' /\ OffsetsCover' /\ AnswerKept'
  BY <1>1, <1>2 DEF GivenUpCounted, OffsetsCover, AnswerKept
<1>5. SkippedOnlyWithoutOffset'
  BY <1>1, <1>2 DEF GivenUpCounted, OffsetsCover, SkippedOnlyWithoutOffset
<1> QED  BY <1>3, <1>4, <1>5

\* The timer commits between two messages, when none is in hand.
LEMMA AutoCommitKeeps ==
  ASSUME TopicInv, AutoCommit
  PROVE  TopicInv'
<1> USE DEF TopicInv, TopicTypeOK
<1>1. /\ hook.step = "ready" /\ committed' = position
      /\ UNCHANGED <<published, position, hook, acked, handled, dropped, raised, jumped>>
  BY DEF AutoCommit
<1>2. OffsetsCover'
  BY <1>1 DEF OffsetsCover, SkippedOnlyWithoutOffset
<1> QED  BY <1>1, <1>2 DEF GivenUpCounted, SkippedOnlyWithoutOffset, AnswerKept

LEMMA TakeMessageKeeps ==
  ASSUME TopicInv, TakeMessage
  PROVE  TopicInv'
<1> USE DEF TopicInv, TopicTypeOK
<1>1. /\ hook.step = "ready" /\ position' = position + 1
      /\ hook' = [hook EXCEPT !.step = "targets", !.ev = position + 1]
      /\ UNCHANGED <<published, committed, acked, handled, dropped, raised, jumped>>
  BY DEF TakeMessage
<1>2. hook' \in HookType /\ hook'.step = "targets" /\ hook'.ev = position + 1
  <2>1. hook \in HookType /\ position + 1 \in Nat
    OBVIOUS
  <2> HIDE DEF TopicInv, TopicTypeOK
  <2> QED  BY <1>1, <2>1 DEF HookType
<1>3. SkippedOnlyWithoutOffset'
  BY <1>1, <1>2 DEF SkippedOnlyWithoutOffset
<1>4. TopicTypeOK'
  BY <1>1, <1>2
<1> QED  BY <1>1, <1>2, <1>3, <1>4 DEF GivenUpCounted, OffsetsCover, AnswerKept

LEMMA PostWebhookKeeps ==
  ASSUME TopicInv, PostWebhook
  PROVE  TopicInv'
<1> USE DEF TopicInv, TopicTypeOK
<1>1. PICK ok \in BOOLEAN :
         /\ hook' = [hook EXCEPT !.step = "insert", !.ok = ok]
         /\ acked' = IF ok THEN acked \cup {<<hook.ev, hook.e.id>>} ELSE acked
  BY DEF PostWebhook
<1>2. hook.step = "post" /\ UNCHANGED <<published, position, committed, handled, dropped, raised, jumped>>
  BY DEF PostWebhook
<1>3. /\ hook' \in HookType /\ hook'.step = "insert" /\ hook'.ev = hook.ev /\ hook'.e = hook.e
      /\ hook'.ok = ok
  BY <1>1 DEF HookType
<1>4. AnswerKept'
  BY <1>1, <1>3 DEF AnswerKept
<1>5. GivenUpCounted' /\ OffsetsCover' /\ SkippedOnlyWithoutOffset'
  BY <1>2, <1>3 DEF GivenUpCounted, OffsetsCover, SkippedOnlyWithoutOffset
<1>6. TopicTypeOK'
  BY <1>2, <1>3
<1> QED  BY <1>4, <1>5, <1>6

\* An exception outside the inner try gives the message up, and says so: one message
\* for one failure, unless the thread has no pool.
LEMMA HookRaisesKeeps ==
  ASSUME TopicInv, HookRaises
  PROVE  TopicInv'
<1>1. /\ UNCHANGED <<published, position, committed, acked, jumped>>
      /\ raised' = raised + 1 \/ (raised' = raised /\ ~ThreadHasPool)
  BY DEF HookRaises
<1>2. CASE hook.step \in {"targets", "check"} /\ hook' = Resting
           /\ dropped' = dropped \cup {hook.ev} /\ handled' = handled
  <2>1. Resting \in HookType /\ Resting.step = "ready" /\ Resting.ev = 0
    BY DEF Resting, HookType
  <2>2. GivenUpCounted'
    <3>1. IsFiniteSet(dropped) /\ Cardinality(dropped) \in Nat /\ raised \in Nat
      BY FS_CardinalityType DEF TopicInv, GivenUpCounted, TopicTypeOK
    <3>2. /\ IsFiniteSet(dropped')
          /\ Cardinality(dropped') \in {Cardinality(dropped), Cardinality(dropped) + 1}
      BY <1>2, <3>1, FS_AddElement
    <3> QED  BY <1>1, <3>1, <3>2 DEF TopicInv, GivenUpCounted
  <2>3. TopicTypeOK'
    BY <1>1, <1>2, <2>1 DEF TopicInv, TopicTypeOK
  <2>4. OffsetsCover' /\ SkippedOnlyWithoutOffset' /\ AnswerKept'
    BY <1>1, <1>2, <2>1, <2>2
    DEF TopicInv, TopicTypeOK, GivenUpCounted, OffsetsCover, SkippedOnlyWithoutOffset, AnswerKept
  <2> QED  BY <2>2, <2>3, <2>4 DEF TopicInv
<1>3. CASE hook.step \in {"post", "insert"} /\ Turn(hook.todo) /\ dropped' = dropped
  <2>1. hook.todo \in SUBSET Fetched
    BY DEF TopicInv, TopicTypeOK, HookType
  <2> QED  BY <1>1, <1>3, <2>1, TurnKeeps
<1> QED  BY <1>2, <1>3 DEF HookRaises

LEMMA HookStopsKeeps ==
  ASSUME TopicInv, HookStops
  PROVE  TopicInv'
<1> USE DEF TopicInv, TopicTypeOK
<1>1. /\ hook' = Down
      /\ UNCHANGED <<published, position, committed, acked, handled, dropped, raised, jumped>>
  BY DEF HookStops
<1>2. Down \in HookType /\ Down.step = "down" /\ Down.ev = 0
  BY DEF Down, Resting, HookType
<1> QED  BY <1>1, <1>2 DEF GivenUpCounted, OffsetsCover, SkippedOnlyWithoutOffset, AnswerKept

LEMMA LoopKeeps ==
  ASSUME TopicInv, EndpointsTyped, FindTargets \/ CheckEndpointAccess \/ InsertDelivery
  PROVE  TopicInv'
<1>1. hook \in HookType /\ hook.todo \in SUBSET Fetched
  BY DEF TopicInv, TopicTypeOK, HookType
<1>0. Targets \in SUBSET Fetched
  <2>1. \A e \in Endpoints : Fits(e) =>
           endpoint[e].owner \in Consumers /\ endpoint[e].scope \in Merchants \cup {None}
    BY DEF EndpointsTyped, Fits
  <2> QED  BY <2>1 DEF Targets, Fetched
<1>2. CASE FindTargets
  BY <1>0, <1>2, TurnKeeps DEF FindTargets
<1>3. CASE CheckEndpointAccess
  <2>1. CASE Turn(hook.todo)
    BY <1>1, <1>3, <2>1, TurnKeeps DEF CheckEndpointAccess
  <2>2. CASE hook' = [hook EXCEPT !.step = "post"] /\ handled' = handled
    <3>1. /\ UNCHANGED <<published, position, committed, acked, dropped, raised, jumped>>
          /\ hook.step = "check"
      BY <1>3 DEF CheckEndpointAccess
    <3>2. hook' \in HookType /\ hook'.step = "post" /\ hook'.ev = hook.ev /\ hook'.e = hook.e
      BY <1>1, <2>2 DEF HookType
    <3> QED  BY <2>2, <3>1, <3>2
             DEF TopicInv, TopicTypeOK, GivenUpCounted, OffsetsCover, SkippedOnlyWithoutOffset, AnswerKept
  <2> QED  BY <1>3, <2>1, <2>2 DEF CheckEndpointAccess
<1>4. CASE InsertDelivery
  BY <1>1, <1>4, TurnKeeps DEF InsertDelivery
<1> QED  BY <1>2, <1>3, <1>4

-----------------------------------------------------------------------------
(* The tasks: what they know of the rows they work on                      *)

\* What no step takes back: a row stays, its message and endpoint stay, and so do
\* the answers; a letter goes only when its message was acknowledged.
Lasting ==
    /\ \A d \in Deliveries : delivery[d] # None =>
          delivery'[d] # None /\ delivery'[d].ev = delivery[d].ev /\ delivery'[d].e = delivery[d].e
    /\ acked \subseteq acked'
    /\ \A d \in Deliveries : delivery[d] # None /\ HasLetter(d) => HasLetter(d)' \/ Told(d)'

\* Under such steps, what a task knows it goes on knowing.
LEMMA KnowledgeLasts ==
  ASSUME TaskInv, Lasting, NEW w \in Workers, worker'[w] = worker[w]
  PROVE  TaskSound(worker[w])'
<1>1. TaskSound(worker[w])
  BY DEF TaskInv
<1>2. CASE worker[w].step = "free"  BY <1>2 DEF TaskSound
<1>3. CASE worker[w].step # "free"
  <2> DEFINE d == worker[w].d
  <2>1. d \in Deliveries /\ delivery[d] # None /\ worker'[w].d = d
    BY <1>1, <1>3 DEF TaskSound
  <2>2. delivery'[d] # None /\ (Told(d) => <<delivery'[d].ev, delivery'[d].e>> \in acked')
    BY <2>1 DEF Lasting, Told
  <2>3. HasLetter(d) => (\E l \in letters' : l[1] = d) \/ <<delivery'[d].ev, delivery'[d].e>> \in acked'
    BY <2>1 DEF Lasting, HasLetter, Told
  <2> QED  BY <1>1, <1>3, <2>1, <2>2, <2>3 DEF TaskSound, Told, HasLetter
<1> QED  BY <1>2, <1>3

\* The least free key is free: every set of numbers that is not empty has a least.
LEMMA NextRowFree ==
  ASSUME FreeRows # {}
  PROVE  NextRow \in FreeRows
<1>1. FreeRows \subseteq Nat
  BY RetriesAssumption DEF FreeRows
<1>2. PICK d \in FreeRows : \A f \in FreeRows : ~ (<<f, d>> \in OpToRel(<, Nat))
  BY <1>1, NatLessThanWellFounded, WFMin
<1>3. \A f \in FreeRows : d <= f
  <2> SUFFICES ASSUME NEW f \in FreeRows  PROVE  d <= f
    OBVIOUS
  <2>1. d \in Nat /\ f \in Nat /\ ~ (f < d)
    BY <1>1, <1>2 DEF OpToRel
  <2> QED  BY <2>1
<1> QED  BY <1>2, <1>3 DEF NextRow

\* The consumer and the requests leave rows, letters and tasks alone, or add an answer.
LEMMA AnswersOnly ==
  ASSUME TaskInv, UNCHANGED <<delivery, letters, buried, retryQueue, worker>>, acked \subseteq acked'
  PROVE  TaskInv'
<1>1. Lasting
  BY DEF Lasting, HasLetter
<1>2. \A w \in Workers : TaskSound(worker[w])'
  BY <1>1, KnowledgeLasts
<1>3. TaskTypeOK' /\ RowsExist'
  BY DEF TaskInv, TaskTypeOK, RowsExist
<1>4. DeadLetterOrDelivered'
  BY DEF TaskInv, DeadLetterOrDelivered
<1> QED  BY <1>2, <1>3, <1>4 DEF TaskInv

\* A first attempt is logged under a key of its own, as what it was.
LEMMA InsertKeepsTasks ==
  ASSUME TopicInv, TaskInv, InsertDelivery
  PROVE  TaskInv'
<1>1. /\ hook.step = "insert" /\ FreeRows # {}
      /\ UNCHANGED <<acked, letters, buried, retryQueue, worker>>
  BY DEF InsertDelivery, taskVars
<1>2. CASE delivery' = delivery
  BY <1>1, <1>2, AnswersOnly
<1>3. CASE delivery' # delivery
  <2> DEFINE new == [ev |-> hook.ev, e |-> hook.e.id, attempts |-> 1,
                     status |-> IF hook.ok THEN "delivered" ELSE "failed"]
  <2>1. delivery' = [delivery EXCEPT ![NextRow] = new]
    BY <1>3 DEF InsertDelivery
  <2>2. hook.ev \in Nat /\ hook.e.id \in Endpoints
    BY <1>1 DEF TopicInv, TopicTypeOK, HookType, Fetched
  <2>3. /\ new \in Delivery /\ new # None
        /\ new.ev = hook.ev /\ new.e = hook.e.id
        /\ new.status = "delivered" => hook.ok
        /\ new.status # "dlq"
    BY <2>2, NoDeliveryAssumption DEF Delivery
  <2> HIDE DEF new
  <2>4. NextRow \in Deliveries /\ delivery[NextRow] = None
    BY <1>1, NextRowFree DEF FreeRows
  <2>5. /\ \A d \in Deliveries : d # NextRow => delivery'[d] = delivery[d]
        /\ delivery'[NextRow] = new
        /\ delivery' \in [Deliveries -> Delivery \cup {None}]
    BY <2>1, <2>3, <2>4 DEF TaskInv, TaskTypeOK
  <2>6. Lasting
    BY <1>1, <2>4, <2>5 DEF Lasting, HasLetter
  <2>7. TaskTypeOK' /\ RowsExist'
    BY <1>1, <2>3, <2>4, <2>5 DEF TaskInv, TaskTypeOK, RowsExist
  <2>8. DeadLetterOrDelivered'
    <3>1. ASSUME NEW d \in Deliveries, d # NextRow, delivery'[d] # None
          PROVE  /\ delivery'[d].status = "delivered" => <<delivery'[d].ev, delivery'[d].e>> \in acked'
                 /\ delivery'[d].status = "dlq" =>
                      <<delivery'[d].ev, delivery'[d].e>> \in acked' \/ \E l \in letters' : l[1] = d
      BY <1>1, <2>5, <3>1 DEF TaskInv, DeadLetterOrDelivered
    <3>2. new.status = "delivered" => <<new.ev, new.e>> \in acked'
      BY <1>1, <2>3 DEF TopicInv, AnswerKept
    <3> QED  BY <2>3, <2>5, <3>1, <3>2 DEF DeadLetterOrDelivered
  <2>9. \A w \in Workers : TaskSound(worker[w])'
    BY <1>1, <2>6, KnowledgeLasts
  <2> QED  BY <2>7, <2>8, <2>9 DEF TaskInv
<1> QED  BY <1>2, <1>3

LEMMA HookNextKeepsTasks ==
  ASSUME TopicInv, TaskInv, Publish \/ HookNext
  PROVE  TaskInv'
<1>1. CASE InsertDelivery  BY <1>1, InsertKeepsTasks
<1>2. CASE PostWebhook
  <2>1. UNCHANGED <<delivery, letters, buried, retryQueue, worker>> /\ acked \subseteq acked'
    BY <1>2 DEF PostWebhook, taskVars
  <2> QED  BY <2>1, AnswersOnly
<1>3. CASE \/ Publish \/ Join \/ AutoCommit \/ TakeMessage \/ FindTargets \/ CheckEndpointAccess
           \/ HookRaises \/ HookStops
  <2>1. UNCHANGED <<delivery, letters, buried, retryQueue, worker, acked>>
    BY <1>3 DEF Publish, Join, AutoCommit, TakeMessage, FindTargets, CheckEndpointAccess,
                HookRaises, HookStops, taskVars
  <2> QED  BY <2>1, AnswersOnly
<1> QED  BY <1>1, <1>2, <1>3 DEF HookNext

\* One task moves, or a queue does; rows and letters stay as they are.
LEMMA TaskMoves ==
  ASSUME TaskInv, NEW w \in Workers,
         UNCHANGED <<delivery, letters, buried>>, acked \subseteq acked',
         retryQueue' \in [Deliveries -> Nat],
         \A d \in Deliveries : retryQueue'[d] > 0 => delivery[d] # None,
         worker' \in [Workers -> TaskType],
         \A v \in Workers : v # w => worker'[v] = worker[v],
         TaskSound(worker[w])'
  PROVE  TaskInv'
<1>1. Lasting
  BY DEF Lasting, HasLetter
<1>2. \A v \in Workers : TaskSound(worker[v])'
  BY <1>1, KnowledgeLasts
<1>3. TaskTypeOK' /\ RowsExist'
  BY DEF TaskInv, TaskTypeOK, RowsExist
<1>4. DeadLetterOrDelivered'
  BY DEF TaskInv, DeadLetterOrDelivered
<1> QED  BY <1>2, <1>3, <1>4 DEF TaskInv

LEMMA FreeSound == Free \in TaskType /\ Free.step = "free" /\ Free.d = 0
  BY DEF Free, TaskType, TaskSteps

\* A task ends, is lost, or was about a letter that is gone.
LEMMA FreesKeeps ==
  ASSUME TaskInv, NEW w \in Workers, Frees(w),
         UNCHANGED <<delivery, letters, buried, retryQueue>>, acked \subseteq acked'
  PROVE  TaskInv'
<1>1. /\ worker' \in [Workers -> TaskType] /\ worker'[w] = Free
      /\ \A v \in Workers : v # w => worker'[v] = worker[v]
  BY FreeSound DEF Frees, TaskInv, TaskTypeOK
<1>2. TaskSound(worker[w])'
  BY <1>1, FreeSound DEF TaskSound
<1> QED  BY <1>1, <1>2, TaskMoves DEF TaskInv, TaskTypeOK, RowsExist

\* What Goes makes of a task: its step changes, and what it carries does not.
LEMMA GoesOn ==
  ASSUME TaskInv, NEW w \in Workers, NEW step \in TaskSteps, Goes(w, step)
  PROVE  /\ worker' \in [Workers -> TaskType]
         /\ worker'[w].step = step /\ worker'[w].d = worker[w].d /\ worker'[w].ok = worker[w].ok
         /\ \A v \in Workers : v # w => worker'[v] = worker[v]
  BY DEF Goes, TaskInv, TaskTypeOK, TaskType

LEMMA BusyRow ==
  ASSUME TaskInv, NEW w \in Workers, worker[w].step # "free"
  PROVE  worker[w].d \in Deliveries /\ delivery[worker[w].d] # None
  BY DEF TaskInv, TaskSound

LEMMA QueuesKeep ==
  ASSUME TaskInv, (\E d \in Deliveries : Enqueue(d)) \/ (\E l \in letters : RetryLetter(l))
  PROVE  TaskInv'
<1>1. CASE \E l \in letters : RetryLetter(l)
  <2>1. UNCHANGED <<delivery, letters, buried, retryQueue, worker, acked>>
    BY <1>1 DEF RetryLetter
  <2> QED  BY <2>1, AnswersOnly
<1>2. ASSUME NEW d \in Deliveries, Enqueue(d)  PROVE  TaskInv'
  <2>1. /\ delivery[d] # None /\ retryQueue' = [retryQueue EXCEPT ![d] = @ + 1]
        /\ UNCHANGED <<delivery, letters, buried, worker, acked>>
    BY <1>2 DEF Enqueue
  <2>2. /\ retryQueue' \in [Deliveries -> Nat]
        /\ \A f \in Deliveries : retryQueue'[f] > 0 => delivery[f] # None
    BY <2>1 DEF TaskInv, TaskTypeOK, RowsExist
  <2>3. Lasting
    BY <2>1 DEF Lasting, HasLetter
  <2>4. \A w \in Workers : TaskSound(worker[w])'
    BY <2>1, <2>3, KnowledgeLasts
  <2>5. TaskTypeOK' /\ RowsExist' /\ DeadLetterOrDelivered'
    BY <2>1, <2>2 DEF TaskInv, TaskTypeOK, RowsExist, DeadLetterOrDelivered
  <2> QED  BY <2>4, <2>5 DEF TaskInv
<1> QED  BY <1>1, <1>2

LEMMA StartRetryKeeps ==
  ASSUME TaskInv, NEW w \in Workers, NEW d \in Deliveries, StartRetry(w, d)
  PROVE  TaskInv'
<1> DEFINE attempt == delivery[d].attempts + 1
           t == [Free EXCEPT !.d = d, !.n = attempt,
                             !.step = IF attempt > MaxRetries THEN "bury" ELSE "endpoint"]
<1>1. /\ retryQueue[d] > 0 /\ retryQueue' = [retryQueue EXCEPT ![d] = @ - 1]
      /\ worker' = worker \/ worker' = [worker EXCEPT ![w] = t]
      /\ UNCHANGED <<delivery, letters, buried, acked>>
  BY DEF StartRetry, Takes
<1>2. delivery[d] # None /\ d \in Nat
  BY <1>1, RetriesAssumption DEF TaskInv, RowsExist
<1>3. delivery[d].attempts \in Nat
  BY <1>2 DEF TaskInv, TaskTypeOK, Delivery
<1>4. attempt \in Nat
  BY <1>3
<1> HIDE DEF attempt
<1>5. {"bury", "endpoint"} \subseteq TaskSteps
  BY DEF TaskSteps
<1>6. t \in TaskType /\ t.step \in {"bury", "endpoint"} /\ t.d = d
  BY <1>2, <1>4, <1>5, FreeSound DEF TaskType
<1> HIDE DEF t
<1>7. /\ worker' \in [Workers -> TaskType] /\ worker'[w] \in {worker[w], t}
      /\ \A v \in Workers : v # w => worker'[v] = worker[v]
  BY <1>1, <1>6 DEF TaskInv, TaskTypeOK
<1>8. /\ retryQueue' \in [Deliveries -> Nat]
      /\ \A f \in Deliveries : retryQueue'[f] > 0 => delivery[f] # None
  BY <1>1, <1>2 DEF TaskInv, TaskTypeOK, RowsExist
<1>9. TaskSound(worker[w])'
  <2>1. CASE worker'[w] = t
    BY <1>1, <1>2, <1>6, <2>1 DEF TaskSound
  <2>2. CASE worker'[w] = worker[w]
    BY <1>1, <2>2 DEF TaskInv, TaskSound, Told, HasLetter
  <2> QED  BY <1>7, <2>1, <2>2
<1> QED  BY <1>1, <1>7, <1>8, <1>9, TaskMoves

LEMMA StartLetterKeeps ==
  ASSUME TaskInv, NEW w \in Workers, NEW l \in letterQueue, StartLetter(w, l)
  PROVE  TaskInv'
<1>1. UNCHANGED <<delivery, letters, buried, retryQueue, acked>>
  BY DEF StartLetter
<1>2. CASE worker' = worker
  BY <1>1, <1>2, AnswersOnly
<1>3. CASE Frees(w)
  BY <1>1, <1>3, FreesKeeps
<1>4. CASE l \in letters /\ worker' # worker
  <2> DEFINE t == [Free EXCEPT !.d = l[1], !.n = l[2], !.step = "letter"]
  <2>1. worker' = [worker EXCEPT ![w] = t]
    BY <1>4 DEF StartLetter, Takes
  <2>2. l[1] \in Deliveries /\ l[1] \in Nat /\ l[2] \in Nat /\ delivery[l[1]] # None
    BY <1>4, RetriesAssumption DEF TaskInv, TaskTypeOK, RowsExist
  <2>3. "letter" \in TaskSteps  BY DEF TaskSteps
  <2>4. t \in TaskType /\ t.step = "letter" /\ t.d = l[1]
    BY <2>2, <2>3, FreeSound DEF TaskType
  <2> HIDE DEF t
  <2>5. /\ worker' \in [Workers -> TaskType] /\ worker'[w] = t
        /\ \A v \in Workers : v # w => worker'[v] = worker[v]
    BY <2>1, <2>4 DEF TaskInv, TaskTypeOK
  <2>6. TaskSound(worker[w])'
    BY <1>1, <2>2, <2>4, <2>5 DEF TaskSound
  <2> QED  BY <1>1, <2>5, <2>6, TaskMoves DEF TaskInv, TaskTypeOK, RowsExist
<1> QED  BY <1>2, <1>3, <1>4 DEF StartLetter, Takes, Frees

LEMMA ReadEndpointKeeps ==
  ASSUME TaskInv, NEW w \in Workers, ReadEndpoint(w)
  PROVE  TaskInv'
<1>1. PICK step \in {"bury", "post"} : Goes(w, step)
  BY DEF ReadEndpoint
<1>2. worker[w].step = "endpoint" /\ UNCHANGED <<delivery, letters, buried, retryQueue, acked>>
  BY DEF ReadEndpoint
<1>3. step \in TaskSteps  BY <1>1 DEF TaskSteps
<1>4. TaskSound(worker[w])'
  BY <1>1, <1>2, <1>3, GoesOn, BusyRow DEF TaskSound
<1> QED  BY <1>1, <1>2, <1>3, <1>4, GoesOn, TaskMoves DEF TaskInv, TaskTypeOK, RowsExist

\* The answer is on record the moment it is given.
LEMMA DirectDispatchKeeps ==
  ASSUME TaskInv, NEW w \in Workers, DirectDispatch(w)
  PROVE  TaskInv'
<1> DEFINE d == worker[w].d
<1>1. PICK ok \in BOOLEAN :
         /\ worker' = [worker EXCEPT ![w].step = "record", ![w].ok = ok]
         /\ acked' = IF ok THEN acked \cup {<<delivery[d].ev, delivery[d].e>>} ELSE acked
  BY DEF DirectDispatch
<1>2. worker[w].step = "post" /\ UNCHANGED <<delivery, letters, buried, retryQueue>>
  BY DEF DirectDispatch
<1>3. d \in Deliveries /\ delivery[d] # None
  BY <1>2, BusyRow
<1>4. "record" \in TaskSteps  BY DEF TaskSteps
<1>5. /\ worker' \in [Workers -> TaskType]
      /\ worker'[w].step = "record" /\ worker'[w].d = d /\ worker'[w].ok = ok
      /\ \A v \in Workers : v # w => worker'[v] = worker[v]
  BY <1>1, <1>4 DEF TaskInv, TaskTypeOK, TaskType
<1>6. TaskSound(worker[w])'
  BY <1>1, <1>2, <1>3, <1>5 DEF TaskSound, Told
<1> QED  BY <1>1, <1>2, <1>5, <1>6, TaskMoves DEF TaskInv, TaskTypeOK, RowsExist

LEMMA RequeueKeeps ==
  ASSUME TaskInv, NEW w \in Workers, Requeue(w)
  PROVE  TaskInv'
<1> DEFINE d == worker[w].d
<1>1. /\ Frees(w) /\ retryQueue' = [retryQueue EXCEPT ![d] = @ + 1]
      /\ UNCHANGED <<delivery, letters, buried, acked>>
  BY DEF Requeue
<1>2. d \in Deliveries /\ delivery[d] # None
  BY BusyRow DEF Requeue
<1>3. /\ worker' \in [Workers -> TaskType] /\ worker'[w] = Free
      /\ \A v \in Workers : v # w => worker'[v] = worker[v]
  BY <1>1, FreeSound DEF Frees, TaskInv, TaskTypeOK
<1>4. TaskSound(worker[w])'
  BY <1>3, FreeSound DEF TaskSound
<1> HIDE DEF d
<1>5. /\ retryQueue' \in [Deliveries -> Nat]
      /\ \A f \in Deliveries : retryQueue'[f] > 0 => delivery[f] # None
  BY <1>1, <1>2 DEF TaskInv, TaskTypeOK, RowsExist
<1> QED  BY <1>1, <1>3, <1>4, <1>5, TaskMoves

\* A row's status or attempts change: the row, its message and its endpoint stay.
LEMMA RowChanges ==
  ASSUME TaskInv, NEW d \in Deliveries, delivery[d] # None,
         NEW status \in {"failed", "delivered", "dlq"}, NEW attempts \in Nat,
         delivery' = [delivery EXCEPT ![d].status = status, ![d].attempts = attempts],
         UNCHANGED <<letters, buried, retryQueue, acked>>,
         status = "delivered" => Told(d),
         status = "dlq" => Told(d) \/ HasLetter(d)
  PROVE  /\ Lasting
         /\ delivery' \in [Deliveries -> Delivery \cup {None}]
         /\ RowsExist' /\ DeadLetterOrDelivered'
<1> DEFINE row == [delivery[d] EXCEPT !.status = status, !.attempts = attempts]
<1>1. delivery[d] \in Delivery
  BY DEF TaskInv, TaskTypeOK
<1>2. /\ row \in Delivery /\ row # None
      /\ row.ev = delivery[d].ev /\ row.e = delivery[d].e /\ row.status = status
  BY <1>1, NoDeliveryAssumption DEF Delivery
<1>3. /\ delivery'[d] = row
      /\ \A f \in Deliveries : f # d => delivery'[f] = delivery[f]
      /\ delivery' \in [Deliveries -> Delivery \cup {None}]
  <2>1. delivery' = [delivery EXCEPT ![d] = row]
    BY DEF TaskInv, TaskTypeOK
  <2> HIDE DEF row
  <2> QED  BY <1>2, <2>1 DEF TaskInv, TaskTypeOK
<1> HIDE DEF row
<1>4. Lasting
  BY <1>2, <1>3 DEF Lasting, HasLetter
<1>5. RowsExist'
  BY <1>2, <1>3 DEF TaskInv, TaskTypeOK, RowsExist
<1>6. DeadLetterOrDelivered'
  <2>1. ASSUME NEW f \in Deliveries, f # d, delivery'[f] # None
        PROVE  /\ delivery'[f].status = "delivered" => <<delivery'[f].ev, delivery'[f].e>> \in acked'
               /\ delivery'[f].status = "dlq" =>
                    <<delivery'[f].ev, delivery'[f].e>> \in acked' \/ \E l \in letters' : l[1] = f
    BY <1>3, <2>1 DEF TaskInv, DeadLetterOrDelivered
  <2>2. /\ status = "delivered" => <<row.ev, row.e>> \in acked'
        /\ status = "dlq" => <<row.ev, row.e>> \in acked' \/ \E l \in letters' : l[1] = d
    BY <1>2 DEF Told, HasLetter
  <2> QED  BY <1>2, <1>3, <2>1, <2>2 DEF DeadLetterOrDelivered
<1> QED  BY <1>3, <1>4, <1>5, <1>6

\* "delivered" is written by a task that was answered, and the status stays otherwise.
LEMMA RecordRetryKeeps ==
  ASSUME TaskInv, NEW w \in Workers, RecordRetry(w)
  PROVE  TaskInv'
<1> DEFINE d == worker[w].d
           status == IF worker[w].ok THEN "delivered" ELSE delivery[d].status
<1>1. /\ worker[w].step = "record"
      /\ delivery' = [delivery EXCEPT ![d].attempts = worker[w].n,
                                      ![d].status = IF worker[w].ok THEN "delivered" ELSE @]
      /\ IF worker[w].ok THEN Frees(w) ELSE Goes(w, "requeue")
      /\ UNCHANGED <<letters, buried, retryQueue, acked>>
  BY DEF RecordRetry
<1>2. /\ d \in Deliveries /\ delivery[d] # None /\ worker[w].n \in Nat
      /\ delivery[d] \in Delivery /\ (worker[w].ok => Told(d))
  BY <1>1, BusyRow DEF TaskInv, TaskTypeOK, TaskType, TaskSound
<1>3. status \in {"failed", "delivered", "dlq"}
  BY <1>2 DEF Delivery
<1>4. delivery' = [delivery EXCEPT ![d].status = status, ![d].attempts = worker[w].n]
  BY <1>1, <1>2 DEF TaskInv, TaskTypeOK, Delivery
<1>5. /\ status = "delivered" => Told(d)
      /\ status = "dlq" => Told(d) \/ HasLetter(d)
  BY <1>2 DEF TaskInv, DeadLetterOrDelivered, Told, HasLetter
<1> HIDE DEF d, status
<1>6. /\ Lasting /\ delivery' \in [Deliveries -> Delivery \cup {None}]
      /\ RowsExist' /\ DeadLetterOrDelivered'
  BY <1>1, <1>2, <1>3, <1>4, <1>5, RowChanges
<1>7. /\ worker' \in [Workers -> TaskType]
      /\ worker'[w].step = "free" \/ (worker'[w].step = "requeue" /\ worker'[w].d = d)
      /\ \A v \in Workers : v # w => worker'[v] = worker[v]
  BY <1>1, FreeSound, GoesOn DEF Frees, TaskInv, TaskTypeOK, TaskSteps, d
<1>8. TaskSound(worker[w])'
  BY <1>2, <1>6, <1>7 DEF TaskSound, Lasting
<1>9. \A v \in Workers : TaskSound(worker[v])'
  BY <1>6, <1>7, <1>8, KnowledgeLasts
<1> QED  BY <1>1, <1>6, <1>7, <1>9 DEF TaskInv, TaskTypeOK

\* "dlq" is written by a task that has put the letter there.
LEMMA BuryMarkKeeps ==
  ASSUME TaskInv, NEW w \in Workers, BuryMark(w)
  PROVE  TaskInv'
<1> DEFINE d == worker[w].d
<1>1. /\ worker[w].step = "mark" /\ delivery' = [delivery EXCEPT ![d].status = "dlq"]
      /\ Frees(w) /\ UNCHANGED <<letters, buried, retryQueue, acked>>
  BY DEF BuryMark
<1>2. /\ d \in Deliveries /\ delivery[d] # None
      /\ delivery[d] \in Delivery /\ (Told(d) \/ HasLetter(d))
  BY <1>1, BusyRow DEF TaskInv, TaskTypeOK, TaskSound
<1>3. delivery[d].attempts \in Nat
  BY <1>2 DEF Delivery
<1>4. delivery' = [delivery EXCEPT ![d].status = "dlq", ![d].attempts = delivery[d].attempts]
  BY <1>1, <1>2 DEF TaskInv, TaskTypeOK, Delivery
<1> HIDE DEF d
<1>5. /\ Lasting /\ delivery' \in [Deliveries -> Delivery \cup {None}]
      /\ RowsExist' /\ DeadLetterOrDelivered'
  BY <1>1, <1>2, <1>3, <1>4, RowChanges
<1>6. /\ worker' \in [Workers -> TaskType] /\ worker'[w] = Free
      /\ \A v \in Workers : v # w => worker'[v] = worker[v]
  BY <1>1, FreeSound DEF Frees, TaskInv, TaskTypeOK
<1>7. TaskSound(worker[w])'
  BY <1>6, FreeSound DEF TaskSound
<1>8. \A v \in Workers : TaskSound(worker[v])'
  BY <1>5, <1>6, <1>7, KnowledgeLasts
<1> QED  BY <1>1, <1>5, <1>6, <1>8 DEF TaskInv, TaskTypeOK

LEMMA BuryInsertKeeps ==
  ASSUME TaskInv, NEW w \in Workers, BuryInsert(w)
  PROVE  TaskInv'
<1> DEFINE d == worker[w].d
<1>1. /\ worker[w].step = "bury" /\ buried' = [buried EXCEPT ![d] = @ + 1]
      /\ letters' = letters \cup {<<d, buried[d] + 1>>}
      /\ Goes(w, "mark") /\ UNCHANGED <<delivery, retryQueue, acked>>
  BY DEF BuryInsert
<1>2. d \in Deliveries /\ delivery[d] # None
  BY <1>1, BusyRow
<1>3. buried[d] + 1 \in Nat
  BY <1>2 DEF TaskInv, TaskTypeOK
<1>4. Lasting
  BY <1>1 DEF Lasting, HasLetter
<1>5. /\ worker' \in [Workers -> TaskType] /\ worker'[w].step = "mark" /\ worker'[w].d = d
      /\ \A v \in Workers : v # w => worker'[v] = worker[v]
  BY <1>1, GoesOn DEF TaskSteps
<1> HIDE DEF d
<1>6. \E l \in letters' : l[1] = d
  <2>1. <<d, buried[d] + 1>> \in letters' /\ <<d, buried[d] + 1>>[1] = d
    BY <1>1
  <2> QED  BY <2>1
<1>7. TaskSound(worker[w])'
  BY <1>1, <1>2, <1>5, <1>6 DEF TaskSound, HasLetter
<1>8. \A v \in Workers : TaskSound(worker[v])'
  BY <1>4, <1>5, <1>7, KnowledgeLasts
<1>9. TaskTypeOK' /\ RowsExist'
  BY <1>1, <1>2, <1>3, <1>5 DEF TaskInv, TaskTypeOK, RowsExist
<1>10. DeadLetterOrDelivered'
  BY <1>1 DEF TaskInv, DeadLetterOrDelivered
<1> QED  BY <1>8, <1>9, <1>10 DEF TaskInv

LEMMA DispatchLetterKeeps ==
  ASSUME TaskInv, NEW w \in Workers, DispatchLetter(w)
  PROVE  TaskInv'
<1> DEFINE d == worker[w].d
<1>1. worker[w].step = "letter" /\ UNCHANGED <<delivery, letters, buried, retryQueue>>
  BY DEF DispatchLetter
<1>2. d \in Deliveries /\ delivery[d] # None
  BY <1>1, BusyRow
<1>3. acked \subseteq acked' /\ (Frees(w) \/ (Goes(w, "delete") /\ <<delivery[d].ev, delivery[d].e>> \in acked'))
  BY DEF DispatchLetter
<1>4. CASE Frees(w)
  BY <1>1, <1>3, <1>4, FreesKeeps
<1>5. CASE Goes(w, "delete") /\ <<delivery[d].ev, delivery[d].e>> \in acked'
  <2>1. /\ worker' \in [Workers -> TaskType] /\ worker'[w].step = "delete" /\ worker'[w].d = d
        /\ \A v \in Workers : v # w => worker'[v] = worker[v]
    BY <1>5, GoesOn DEF TaskSteps
  <2>2. TaskSound(worker[w])'
    BY <1>1, <1>2, <1>5, <2>1 DEF TaskSound, Told
  <2> QED  BY <1>1, <1>3, <2>1, <2>2, TaskMoves DEF TaskInv, TaskTypeOK, RowsExist
<1> QED  BY <1>3, <1>4, <1>5

\* A letter goes when its message was acknowledged.
LEMMA DeleteLetterKeeps ==
  ASSUME TaskInv, NEW w \in Workers, DeleteLetter(w)
  PROVE  TaskInv'
<1> DEFINE d == worker[w].d
<1>1. /\ worker[w].step = "delete" /\ letters' = letters \ {<<d, worker[w].n>>}
      /\ Frees(w) /\ UNCHANGED <<delivery, buried, retryQueue, acked>>
  BY DEF DeleteLetter
<1>2. d \in Deliveries /\ delivery[d] # None /\ Told(d)
  BY <1>1, BusyRow DEF TaskInv, TaskSound
<1> HIDE DEF d
<1>3. \A f \in Deliveries : HasLetter(f) => HasLetter(f)' \/ f = d
  <2> SUFFICES ASSUME NEW f \in Deliveries, f # d, HasLetter(f)  PROVE  \E l \in letters' : l[1] = f
    BY DEF HasLetter
  <2> QED  BY <1>1 DEF HasLetter
<1>4. Lasting
  BY <1>1, <1>2, <1>3 DEF Lasting, Told
<1>5. /\ worker' \in [Workers -> TaskType] /\ worker'[w] = Free
      /\ \A v \in Workers : v # w => worker'[v] = worker[v]
  BY <1>1, FreeSound DEF Frees, TaskInv, TaskTypeOK
<1>6. TaskSound(worker[w])'
  BY <1>5, FreeSound DEF TaskSound
<1>7. \A v \in Workers : TaskSound(worker[v])'
  BY <1>4, <1>5, <1>6, KnowledgeLasts
<1>8. TaskTypeOK' /\ RowsExist'
  BY <1>1, <1>5 DEF TaskInv, TaskTypeOK, RowsExist
<1>9. DeadLetterOrDelivered'
  BY <1>1, <1>2, <1>3 DEF TaskInv, DeadLetterOrDelivered, HasLetter, Told
<1> QED  BY <1>7, <1>8, <1>9 DEF TaskInv

LEMMA TaskNextKeeps ==
  ASSUME TaskInv, TaskNext
  PROVE  TaskInv'
<1>1. ASSUME NEW w \in Workers, Work(w)  PROVE  TaskInv'
  BY <1>1, StartRetryKeeps, StartLetterKeeps, ReadEndpointKeeps, DirectDispatchKeeps,
     RecordRetryKeeps, RequeueKeeps, BuryInsertKeeps, BuryMarkKeeps, DispatchLetterKeeps,
     DeleteLetterKeeps
  DEF Work
<1>2. ASSUME NEW w \in Workers, TaskDies(w)  PROVE  TaskInv'
  <2>1. Frees(w) /\ UNCHANGED <<delivery, letters, buried, retryQueue, acked>>
    BY <1>2 DEF TaskDies
  <2> QED  BY <2>1, FreesKeeps
<1> QED  BY <1>1, <1>2, QueuesKeep DEF TaskNext

-----------------------------------------------------------------------------

\* No task takes an answer back.
LEMMA TasksOnlyAcknowledge == TaskNext => acked \subseteq acked'
<1>1. ASSUME NEW w \in Workers, Work(w)  PROVE  acked \subseteq acked'
  BY <1>1 DEF Work, StartRetry, StartLetter, ReadEndpoint, DirectDispatch, RecordRetry, Requeue,
     BuryInsert, BuryMark, DispatchLetter, DeleteLetter
<1> QED  BY <1>1 DEF TaskNext, Enqueue, RetryLetter, TaskDies

\* An endpoint belongs to the consumer whose request made it.
LEMMA EndpointsKeep ==
  ASSUME AccessInv, EndpointsTyped, [ThirdPartyNext]_allVars
  PROVE  EndpointsTyped'
<1>1. CASE endpoint' = endpoint
  BY <1>1 DEF EndpointsTyped
<1>2. ASSUME NEW r \in Requests, NEW e \in Endpoints, CreateEndpoint(r, e)  PROVE  EndpointsTyped'
  <2>1. req[r].c \in Consumers
    BY <1>2 DEF CreateEndpoint, HookRequest, AccessInv, RequestsSound, RequestSound, Idle
  <2>2. PICK scope \in Merchants \cup {None} :
          endpoint' = [endpoint EXCEPT ![e] = [OpenEndpoint(req[r].c) EXCEPT !.scope = scope, !.active = FALSE]]
    BY <1>2 DEF CreateEndpoint
  <2> DEFINE row == OpenEndpoint(req[r].c)
  <2>3. row \in [owner : Consumers, scope : Merchants \cup {None}, wants : BOOLEAN, active : BOOLEAN]
    BY <2>1 DEF OpenEndpoint
  <2> HIDE DEF row
  <2>4. [row EXCEPT !.scope = scope, !.active = FALSE]
           \in [owner : Consumers, scope : Merchants \cup {None}, wants : BOOLEAN, active : BOOLEAN]
    BY <2>3
  <2> QED  BY <2>2, <2>4 DEF EndpointsTyped, row
<1>3. ASSUME NEW r \in Requests, ActivateEndpoint(r)  PROVE  EndpointsTyped'
  BY <1>3 DEF ActivateEndpoint, EndpointsTyped
<1>4. ASSUME NEW r \in Requests, NEW e \in Endpoints, UpdateEndpoint(r, e)  PROVE  EndpointsTyped'
  <2>1. /\ endpoint[e] \in [owner : Consumers, scope : Merchants \cup {None}, wants : BOOLEAN, active : BOOLEAN]
        /\ endpoint' = [endpoint EXCEPT ![e].wants = ~@]
    BY <1>4 DEF UpdateEndpoint, EndpointsTyped
  <2>2. [endpoint[e] EXCEPT !.wants = ~@]
           \in [owner : Consumers, scope : Merchants \cup {None}, wants : BOOLEAN, active : BOOLEAN]
    BY <2>1
  <2> QED  BY <2>1, <2>2 DEF EndpointsTyped
<1>5. ASSUME NEW r \in Requests, NEW e \in Endpoints, DeleteEndpoint(r, e)  PROVE  EndpointsTyped'
  BY <1>5 DEF DeleteEndpoint, EndpointsTyped
<1>6. CASE EndpointStep
  <2>1. ASSUME NEW r \in Requests, Ping(r) \/ \E e \in Endpoints : VerifyEndpoint(r, e)
        PROVE  endpoint' = endpoint
    BY <2>1 DEF Ping, VerifyEndpoint, hookVars
  <2> QED  BY <1>1, <1>2, <1>3, <1>4, <1>5, <1>6, <2>1 DEF EndpointStep
<1>7. CASE DeliveryStep
  BY <1>1, <1>7 DEF DeliveryStep, Publish, HookNext, Join, AutoCommit, TakeMessage, FindTargets,
     CheckEndpointAccess, PostWebhook, InsertDelivery, HookRaises, HookStops
<1>8. CASE TaskStep
  BY <1>1, <1>8, TasksKeepAside DEF TaskStep, Aside
<1>9. CASE \/ AccessStep \/ RateStep \/ ExportStep \/ WriteStep \/ UNCHANGED allVars
  BY <1>1, <1>9 DEF AccessStep, RateStep, ExportStep, WriteStep, allVars, hookVars
<1> QED  BY <1>6, <1>7, <1>8, <1>9 DEF ThirdPartyNext

LEMMA HookNextInvariant == AccessInv /\ HookInv /\ [ThirdPartyNext]_allVars => HookInv'
<1> SUFFICES ASSUME EndpointsTyped, TopicInv, TaskInv, [ThirdPartyNext]_allVars
             PROVE  TopicInv' /\ TaskInv'
  BY EndpointsKeep DEF HookInv, TopicInv, TaskInv
<1>1. ASSUME UNCHANGED topicVars, UNCHANGED acked  PROVE  TopicInv'
  BY <1>1 DEF TopicInv, TopicTypeOK, GivenUpCounted, OffsetsCover, SkippedOnlyWithoutOffset, AnswerKept, topicVars
<1>2. ASSUME UNCHANGED <<delivery, acked>>, UNCHANGED taskVars  PROVE  TaskInv'
  BY <1>2, AnswersOnly DEF taskVars
<1>3. CASE DeliveryStep
  <2>1. CASE Publish
    <3>1. TopicInv'
      <4>1. /\ published' = published + 1
            /\ UNCHANGED <<position, committed, hook, acked, handled, dropped, raised, jumped>>
        BY <2>1 DEF Publish
      <4> QED  BY <4>1 DEF TopicInv, TopicTypeOK, GivenUpCounted, OffsetsCover,
                           SkippedOnlyWithoutOffset, AnswerKept
    <3> QED  BY <2>1, <3>1, HookNextKeepsTasks
  <2>2. CASE HookNext
    <3>1. TopicInv'
      BY <2>2, JoinKeeps, AutoCommitKeeps, TakeMessageKeeps, PostWebhookKeeps, HookRaisesKeeps,
         HookStopsKeeps, LoopKeeps
      DEF HookNext
    <3> QED  BY <2>2, <3>1, HookNextKeepsTasks
  <2> QED  BY <1>3, <2>1, <2>2 DEF DeliveryStep
<1>4. CASE TaskStep
  <2>1. TopicInv'
    <3>1. UNCHANGED topicVars
      BY <1>4, TasksKeepAside DEF TaskStep, Aside
    <3>2. acked \subseteq acked'
      BY <1>4, TasksOnlyAcknowledge DEF TaskStep
    <3> QED  BY <3>1, <3>2 DEF TopicInv, TopicTypeOK, GivenUpCounted, OffsetsCover,
                               SkippedOnlyWithoutOffset, AnswerKept, topicVars
  <2> QED  BY <1>4, <2>1, TaskNextKeeps DEF TaskStep
<1>5. CASE EndpointStep
  <2>1. UNCHANGED <<delivery, acked>> /\ UNCHANGED topicVars /\ UNCHANGED taskVars
    BY <1>5 DEF EndpointStep, Ping, ActivateEndpoint, CreateEndpoint, VerifyEndpoint, UpdateEndpoint,
                DeleteEndpoint, hookVars, topicVars, taskVars
  <2> QED  BY <1>1, <1>2, <2>1
<1>6. CASE \/ AccessStep \/ RateStep \/ ExportStep \/ WriteStep \/ UNCHANGED allVars
  <2>1. UNCHANGED hookVars
    BY <1>6 DEF AccessStep, RateStep, ExportStep, WriteStep, allVars
  <2> QED  BY <1>1, <1>2, <2>1 DEF hookVars, topicVars, taskVars
<1> QED  BY <1>3, <1>4, <1>5, <1>6 DEF ThirdPartyNext

\* The inductive invariant of the webhook consumer, the log and the tasks.
THEOREM HookInvariantHolds == ThirdPartySpec => []HookInv
<1>1. ThirdPartyInit => HookInv
  BY HookInitInvariant DEF ThirdPartyInit
<1> QED  BY <1>1, HookNextInvariant, AccessInvariantHolds, PTL DEF ThirdPartySpec

\* With an offset committed, the webhook consumer passes by no message, however often
\* it stops and whatever raises: each was handled, or given up at an exception.  Were
\* the thread to have a pool of its own loop, it would give up no more messages than
\* the database failed it; in this repository it has none, and gives up every one.
THEOREM SkipsNeedNoOffset == ThirdPartySpec => []SkippedOnlyWithoutOffset
<1>1. HookInv => SkippedOnlyWithoutOffset  BY DEF HookInv
<1> QED  BY <1>1, HookInvariantHolds, PTL

\* What tp_webhook_events says of a delivery is so, with any number of tasks on it.
THEOREM LogTellsTheTruth == ThirdPartySpec => []DeadLetterOrDelivered
<1>1. HookInv => DeadLetterOrDelivered  BY DEF HookInv
<1> QED  BY <1>1, HookInvariantHolds, PTL
=============================================================================
