---------------------------- MODULE ConsumerAccess ----------------------------
(***************************************************************************)
(* Third-party consumers of the connect service: their rows in the core    *)
(* database, the copies of them in Redis, tokens, access to merchants, and *)
(* the requests that read all four.                                        *)
(*                                                                         *)
(* A request is a coroutine cut at its awaits; requests interleave at      *)
(* will.  A copy is read, missed, fetched and stored in three awaits, and  *)
(* an update deletes it one await after the UPDATE commits.                *)
(***************************************************************************)
EXTENDS Integers, Budgets

CONSTANTS
    Consumers, Merchants,
    Requests,       \* coroutines of the connect service that serve requests
    Limits,         \* rate_limit_requests: the values an administrator sets
    DefaultLimit,   \* RATE_LIMIT_DEFAULT_REQUESTS
    Windows,        \* rate_limit_window_seconds: the values an administrator sets
    DefaultWindow,  \* RATE_LIMIT_DEFAULT_WINDOW_SECONDS
    TTL,            \* CONSUMER_CACHE_TTL
    TokenLife,      \* JWT_EXPIRY_SECONDS
    MaxDelay,       \* bound: how long one await may take
    None

\* Neither is checked when it is set, but for the width of an INTEGER: one window
\* is the longest.
ASSUME LimitsAssumption ==
    /\ Limits \subseteq Int /\ DefaultLimit \in Limits
    /\ Windows \subseteq Int /\ DefaultWindow \in Windows
    /\ \E n \in Windows : \A o \in Windows : o <= n
ASSUME TimesAssumption == {TTL, TokenLife, MaxDelay} \subseteq Nat \ {0}

VARIABLES
    now,            \* the clock of the connect service and of Redis
    consumers,      \* third_party_consumers: [status, limit, window], or None
    access,         \* consumer_merchant_access
    cache,          \* consumer:<id> in Redis: [row, until, late], or None
    token,          \* when the consumer's latest token expires, 0 before the first
    req,            \* the request each coroutine serves
    offSince,       \* history: when the consumer's row last stopped being active
    missed          \* history: consumers whose copy an update failed to delete

accessVars == <<now, consumers, access, cache, token, req, offSince, missed>>

Statuses == {"active", "suspended", "revoked"}
Row == [status : Statuses, limit : Limits, window : Windows]
NewRow == [status |-> "active", limit |-> DefaultLimit, window |-> DefaultWindow]

\* No row is the absent row.
ASSUME NoRowAssumption == None \notin Row

Idle == [step |-> "idle", op |-> "none", why |-> "none", c |-> None, m |-> None,
         row |-> None, stamp |-> 0, since |-> 0]

AccessInit ==
    /\ now = 0
    /\ consumers \in [Consumers -> {None, NewRow}]
    /\ access \in SUBSET {<<c, m>> : c \in {d \in Consumers : consumers[d] # None}, m \in Merchants}
    /\ cache = [c \in Consumers |-> None]
    /\ token = [c \in Consumers |-> IF consumers[c] = None THEN 0 ELSE TokenLife]
    /\ req = [r \in Requests |-> Idle]
    /\ offSince = [c \in Consumers |-> 0]
    /\ missed = {}

\* A new await begins: its step, what it is for, and what is carried over it.
Await(r, step, why, row) ==
    req' = [req EXCEPT ![r] = [req[r] EXCEPT !.step = step, !.why = why, !.row = row,
                !.since = now,
                !.stamp = IF step = "count" \/ step = "prune" THEN now ELSE req[r].stamp]]
Finish(r) == req' = [req EXCEPT ![r] = Idle]

-----------------------------------------------------------------------------
(* verify_third_party_access and get_cached_consumer                       *)

\* validate_token runs before the first await.  One client walks one export.
BeginRequest(r, op, c, m) ==
    /\ req[r] = Idle /\ Spend(op)
    /\ now < token[c]
    /\ op = "page" => \A q \in Requests : ~(req[q].op = "page" /\ req[q].c = c)
    /\ (m = None) <=> (op # "page")
    /\ req' = [req EXCEPT ![r] = [Idle EXCEPT !.step = "lookup", !.op = op, !.why = "auth",
                                              !.c = c, !.m = m, !.since = now]]
    /\ UNCHANGED <<now, consumers, access, cache, token, offSince, missed>>

\* What the three callers do with the row, up to their next await.
Proceed(r, row) ==
    \/ /\ req[r].why = "auth" /\ row.status # "active"
       /\ Finish(r)
    \/ /\ req[r].why = "auth" /\ row.status = "active" /\ req[r].op = "page"
       /\ Await(r, "access", "none", None)
    \/ /\ req[r].why = "auth" /\ row.status = "active" /\ req[r].op = "list"
       /\ Await(r, "lookup", "limit", None)
    \/ /\ req[r].why = "auth" /\ row.status = "active" /\ req[r].op = "hook"
       /\ Await(r, "hook", "none", None)
    \/ /\ req[r].why = "limit"
       /\ Await(r, "count", "none", row)
    \/ /\ req[r].why = "detail"
       /\ Await(r, "prune", "none", row)

Cached(c) == cache[c] # None /\ now < cache[c].until

LookupHit(r) ==
    /\ req[r].step = "lookup" /\ Cached(req[r].c)
    /\ Proceed(r, cache[req[r].c].row)
    /\ NoCost /\ UNCHANGED <<now, consumers, access, cache, token, offSince, missed>>

LookupMiss(r) ==
    /\ req[r].step = "lookup" /\ ~Cached(req[r].c)
    /\ Await(r, "fetch", req[r].why, None)
    /\ NoCost /\ UNCHANGED <<now, consumers, access, cache, token, offSince, missed>>

FetchRow(r) ==
    /\ req[r].step = "fetch"
    /\ Await(r, "store", req[r].why, consumers[req[r].c])
    /\ NoCost /\ UNCHANGED <<now, consumers, access, cache, token, offSince, missed>>

\* Mutant: SET without an expiry.
Store_NoExpiry(r) ==
    LET c == req[r].c IN
    /\ req[r].step = "store"
    /\ cache' = [cache EXCEPT ![c] = [row |-> req[r].row, until |-> now + 10 * TTL,
                                      late |-> req[r].row # consumers[c]]]
    /\ Proceed(r, req[r].row)
    /\ NoCost /\ UNCHANGED <<now, consumers, access, token, offSince, missed>>

\* "late" is history: the row changed while this copy of it was on its way.
Store(r) ==
    LET c == req[r].c IN
    /\ req[r].step = "store"
    /\ cache' = [cache EXCEPT ![c] = [row |-> req[r].row, until |-> now + TTL,
                                      late |-> req[r].row # consumers[c]]]
    /\ Proceed(r, req[r].row)
    /\ NoCost /\ UNCHANGED <<now, consumers, access, token, offSince, missed>>

\* Read from the primary each time, never cached.
CheckAccess(r) ==
    /\ req[r].step = "access"
    /\ IF <<req[r].c, req[r].m>> \in access THEN Await(r, "lookup", "limit", None) ELSE Finish(r)
    /\ NoCost /\ UNCHANGED <<now, consumers, access, cache, token, offSince, missed>>

-----------------------------------------------------------------------------
(* Administration                                                          *)

Register(c) ==
    /\ consumers[c] = None /\ Spend("grant")
    /\ consumers' = [consumers EXCEPT ![c] = NewRow]
    /\ UNCHANGED <<now, access, cache, token, req, offSince, missed>>

\* Mutant: the update leaves the copy in Redis to expire.
UpdateConsumer_NoInvalidate(r, c, row) ==
    /\ req[r] = Idle /\ Spend("admin")
    /\ consumers[c] # None
    /\ consumers' = [consumers EXCEPT ![c] = row]
    /\ offSince' = IF consumers[c].status = "active" /\ row.status # "active"
                   THEN [offSince EXCEPT ![c] = now] ELSE offSince
    /\ UNCHANGED <<now, access, cache, token, req, missed>>

\* The UPDATE commits, then the request goes to Redis.
UpdateConsumer(r, c, row) ==
    /\ req[r] = Idle /\ Spend("admin")
    /\ consumers[c] # None
    /\ consumers' = [consumers EXCEPT ![c] = row]
    /\ offSince' = IF consumers[c].status = "active" /\ row.status # "active"
                   THEN [offSince EXCEPT ![c] = now] ELSE offSince
    /\ req' = [req EXCEPT ![r] = [Idle EXCEPT !.step = "invalidate", !.op = "admin",
                                              !.c = c, !.since = now]]
    /\ UNCHANGED <<now, access, cache, token, missed>>

Suspend(r, c) == UpdateConsumer(r, c, [consumers[c] EXCEPT !.status = "suspended"])
Revoke(r, c) == UpdateConsumer(r, c, [consumers[c] EXCEPT !.status = "revoked"])
Activate(r, c) == UpdateConsumer(r, c, [consumers[c] EXCEPT !.status = "active"])
ChangeLimit(r, c, n) == UpdateConsumer(r, c, [consumers[c] EXCEPT !.limit = n])
ChangeWindow(r, c, n) == UpdateConsumer(r, c, [consumers[c] EXCEPT !.window = n])
RotateSecret(r, c) == UpdateConsumer(r, c, consumers[c])

Invalidate(r) ==
    /\ req[r].step = "invalidate"
    /\ cache' = [cache EXCEPT ![req[r].c] = None]
    /\ missed' = missed \ {req[r].c}
    /\ Finish(r)
    /\ NoCost /\ UNCHANGED <<now, consumers, access, token, offSince>>

AssignMerchant(c, m) ==
    /\ consumers[c] # None /\ <<c, m>> \notin access /\ Spend("grant")
    /\ access' = access \cup {<<c, m>>}
    /\ UNCHANGED <<now, consumers, cache, token, req, offSince, missed>>

RemoveMerchantAccess(c, m) ==
    /\ <<c, m>> \in access /\ Spend("grant")
    /\ access' = access \ {<<c, m>>}
    /\ UNCHANGED <<now, consumers, cache, token, req, offSince, missed>>

\* The detail page reads two tables, then asks the rate limiter for its view.
ConsumerDetail(r, c) ==
    /\ req[r] = Idle /\ consumers[c] # None /\ Spend("grant")
    /\ req' = [req EXCEPT ![r] = [Idle EXCEPT !.step = "lookup", !.op = "detail", !.why = "detail",
                                              !.c = c, !.since = now]]
    /\ UNCHANGED <<now, consumers, access, cache, token, offSince, missed>>

\* One query on the primary, then the token is signed without an await.
Authenticate(c) ==
    /\ consumers[c] # None /\ consumers[c].status = "active"
    /\ token[c] # now + TokenLife /\ Spend("grant")
    /\ token' = [token EXCEPT ![c] = now + TokenLife]
    /\ UNCHANGED <<now, consumers, access, cache, req, offSince, missed>>

-----------------------------------------------------------------------------
(* An await raises, or its client goes away; time passes                   *)

Fail(r) ==
    /\ req[r] # Idle /\ Spend("crash")
    /\ missed' = IF req[r].step = "invalidate" THEN missed \cup {req[r].c} ELSE missed
    /\ Finish(r)
    /\ UNCHANGED <<now, consumers, access, cache, token, offSince>>

Tick ==
    /\ Spend("tick")
    /\ \A r \in Requests : req[r] # Idle => now < req[r].since + MaxDelay
    /\ now' = now + 1
    /\ UNCHANGED <<consumers, access, cache, token, req, offSince, missed>>

AccessNext ==
    \/ \E r \in Requests, c \in Consumers :
        \/ \E m \in Merchants : BeginRequest(r, "page", c, m)
        \/ \E op \in {"list", "hook"} : BeginRequest(r, op, c, None)
        \/ Suspend(r, c) \/ Revoke(r, c) \/ Activate(r, c) \/ RotateSecret(r, c)
        \/ \E n \in Limits : ChangeLimit(r, c, n)
        \/ \E n \in Windows : ChangeWindow(r, c, n)
        \/ ConsumerDetail(r, c)
    \/ \E r \in Requests :
        \/ LookupHit(r) \/ LookupMiss(r) \/ FetchRow(r) \/ Store(r)
        \/ CheckAccess(r) \/ Invalidate(r) \/ Fail(r)
    \/ \E c \in Consumers :
        \/ Register(c) \/ Authenticate(c)
        \/ \E m \in Merchants : AssignMerchant(c, m) \/ RemoveMerchantAccess(c, m)
    \/ Tick
=============================================================================
