------------------------------ MODULE RateLimiter ------------------------------
(***************************************************************************)
(* The sliding window of a consumer: a sorted set in Redis with one entry  *)
(* per request, scored with the time the request read before its pipeline  *)
(* (prune, count, add, expire) ran.  The entry is added whether the        *)
(* request is let in or not.  Limit and window are those of the copy of    *)
(* the consumer's row that the request was given.                          *)
(***************************************************************************)
EXTENDS ConsumerAccess, FiniteSetsExt

CONSTANT Horizon        \* bound: no behaviour lasts longer

ASSUME HorizonAssumption == Horizon \in Nat

VARIABLES
    hits,           \* rate_limit:<id>: how many entries have each score
    keyUntil,       \* when the sorted set expires
    granted,        \* history: requests let in, by their clock readings
    most,           \* history: the highest limit a request was counted against
    least           \* history: the shortest window the set was pruned with

rateVars == <<hits, keyUntil, granted, most, least>>

Times == 0..Horizon
NoHits == [t \in Times |-> 0]

RateInit ==
    /\ hits = [c \in Consumers |-> NoHits]
    /\ keyUntil = [c \in Consumers |-> 0]
    /\ granted = [c \in Consumers |-> NoHits]
    /\ most = [c \in Consumers |-> 0]
    /\ least = [c \in Consumers |-> Max(Windows)]

\* zremrangebyscore(0, stamp - window) of what has not expired.
Pruned(c, stamp, window) ==
    [t \in Times |-> IF now < keyUntil[c] /\ t + window > stamp THEN hits[c][t] ELSE 0]

TotalOf(counts, S) == MapThenSumSet(LAMBDA t : counts[t], S)

\* Mutant: "greater than" for "at least".
WithinLimit_OffByOne(count, max_requests) == count <= max_requests

WithinLimit(count, max_requests) == count < max_requests

CheckRateLimit(r) ==
    LET c == req[r].c
        stamp == req[r].stamp
        row == req[r].row
        kept == Pruned(c, stamp, row.window)
        allowed == WithinLimit(TotalOf(kept, Times), row.limit)
    IN
    /\ req[r].step = "count"
    /\ hits' = [hits EXCEPT ![c] = [kept EXCEPT ![stamp] = @ + 1]]
    /\ keyUntil' = [keyUntil EXCEPT ![c] = now + row.window]
    /\ IF allowed THEN Await(r, "serve", "none", None) ELSE Finish(r)
    /\ granted' = IF allowed THEN [granted EXCEPT ![c][stamp] = @ + 1] ELSE granted
    /\ most' = [most EXCEPT ![c] = Max({@, row.limit})]
    /\ least' = [least EXCEPT ![c] = Min({@, row.window})]
    /\ NoCost /\ UNCHANGED <<now, consumers, access, cache, token, offSince, missed>>

\* get_rate_limit_status prunes as well, and counts nothing.
ShowStatus(r) ==
    LET c == req[r].c
        row == req[r].row
    IN
    /\ req[r].step = "prune"
    /\ hits' = [hits EXCEPT ![c] = Pruned(c, req[r].stamp, row.window)]
    /\ least' = [least EXCEPT ![c] = Min({@, row.window})]
    /\ Finish(r)
    /\ NoCost
    /\ UNCHANGED <<now, consumers, access, cache, token, offSince, missed, keyUntil, granted, most>>

RateNext == \E r \in Requests : CheckRateLimit(r) \/ ShowStatus(r)
=============================================================================
