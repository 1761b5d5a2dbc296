------------------------------- MODULE ThirdParty -------------------------------
(***************************************************************************)
(* The third-party side of the connect service as a whole: authentication, *)
(* rate limit and export behind one request, endpoints behind the same     *)
(* authentication, and webhook deliveries that look at the same consumers  *)
(* and the same access rows while an administrator changes them.           *)
(***************************************************************************)
EXTENDS BulkExport, WebhookTasks

allVars == <<accessVars, rateVars, bulkVars, hookVars, left>>

\* What nothing in the mix looks at has one initial value only (a bound).
UntouchedInit ==
    /\ left.write = 0 => resource = "payments"
    /\ left.publish = 0 => \A e \in Endpoints : endpoint[e] = None
    /\ left.publish = 0 /\ left.page = 0 => access = {}

ThirdPartyInit == BudgetInit /\ AccessInit /\ RateInit /\ BulkInit /\ WebhookInit /\ UntouchedInit

\* A client that has come to the end of its export asks for no further page.
AccessStep ==
    /\ AccessNext
    /\ \A r \in Requests : (req[r] = Idle /\ req'[r].op = "page") => ~walk[req'[r].c].over
    /\ UNCHANGED rateVars /\ UNCHANGED bulkVars /\ UNCHANGED hookVars

RateStep == RateNext /\ UNCHANGED bulkVars /\ UNCHANGED hookVars

ExportStep == ExportNext /\ UNCHANGED rateVars /\ UNCHANGED hookVars

WriteStep == WritesNext /\ UNCHANGED accessVars /\ UNCHANGED rateVars /\ UNCHANGED hookVars

EndpointStep ==
    /\ \E r \in Requests :
        \/ Ping(r) \/ ActivateEndpoint(r)
        \/ \E e \in Endpoints :
             CreateEndpoint(r, e) \/ VerifyEndpoint(r, e) \/ UpdateEndpoint(r, e) \/ DeleteEndpoint(r, e)
    /\ UNCHANGED rateVars /\ UNCHANGED bulkVars

\* In a mix with messages only (a bound).
DeliveryStep == left.publish + published > 0 /\ (Publish \/ HookNext) /\ UNCHANGED rateVars /\ UNCHANGED bulkVars

TaskStep == TaskNext /\ UNCHANGED rateVars /\ UNCHANGED bulkVars

ThirdPartyNext ==
    \/ AccessStep \/ RateStep \/ ExportStep \/ WriteStep
    \/ EndpointStep \/ DeliveryStep \/ TaskStep

ThirdPartySpec == ThirdPartyInit /\ [][ThirdPartyNext]_allVars

-----------------------------------------------------------------------------
(* Consumers and their copies                                              *)

Admits(r) == req[r].why = "auth" /\ req'[r].step \in {"access", "lookup", "hook"} /\ req'[r].why # "auth"

\* A consumer that was suspended or revoked is let in for the cache's TTL and one
\* slow await at most, whatever fills and deletions of its copy race or fail.
AdmittedWithinTtl ==
    [][\A r \in Requests : Admits(r) =>
          \/ consumers[req[r].c].status = "active"
          \/ now < offSince[req[r].c] + TTL + MaxDelay]_allVars

\* A copy that differs from the row has a reason: it was on its way when the row
\* changed, or the update has yet to delete it, or could not.
StaleOnlyByRace ==
    \A c \in Consumers :
        Cached(c) /\ cache[c].row # consumers[c] =>
            \/ cache[c].late
            \/ c \in missed
            \/ \E r \in Requests : req[r].step = "invalidate" /\ req[r].c = c

-----------------------------------------------------------------------------
(* Rate limit and export                                                   *)

\* A span of time that ends at t: as long as a window less the age that a reading
\* of the clock may have when it is counted.
Span(t, window) == {u \in Times : u <= t /\ t + MaxDelay < u + window}

\* In no span of the shortest window that was ever applied are more requests let in
\* than the highest limit allows, however late they come to be counted and whatever
\* updates and stale copies make of limit and window in between.
WindowBound ==
    \A c \in Consumers, t \in Times : TotalOf(granted[c], Span(t, least[c])) <= most[c]

\* A finished export has every version the table shows, but for those that
\* appeared behind its cursor: stamped early and committed late, or changed
\* without a new stamp.
ExportComplete ==
    \A c \in Consumers : walk[c].over =>
        \A x \in RowIds : Shown(x) => <<x, table[x].ver>> \in walk[c].got \cup walk[c].behind

-----------------------------------------------------------------------------
(* Webhooks                                                                *)

\* Once the group has an offset no message goes by unhandled, however often the
\* consumer stops: those behind it were handled, given up at an exception, or
\* published before a start without an offset.  A thread with a pool of its own gives
\* up no more of them than its database failed it.
SkippedOnlyWithoutOffset ==
    hook.step # "down" =>
        /\ \A n \in 1..position : n \in handled \cup dropped \cup jumped \cup {hook.ev}
        /\ ThreadHasPool => Cardinality(dropped) <= raised

\* "Register webhook -> fire event -> delivery logged": behind the consumer there is a
\* row of the log for every message and endpoint that fits it.
FiredEventsLogged ==
    hook.step = "ready" =>
        \A n \in (1..position) \ jumped, e \in Endpoints :
            Fits(e) /\ <<endpoint[e].owner, TheMerchant>> \in access =>
                \E d \in Deliveries : delivery[d] # None /\ delivery[d].ev = n /\ delivery[d].e = e

\* What the log says of a delivery is so: "delivered" was acknowledged, and behind
\* "dlq" is a dead letter, unless the endpoint did acknowledge the message.
DeadLetterOrDelivered ==
    \A d \in Deliveries : delivery[d] # None =>
        LET told == <<delivery[d].ev, delivery[d].e>> \in acked IN
        /\ delivery[d].status = "delivered" => told
        /\ delivery[d].status = "dlq" => told \/ \E l \in letters : l[1] = d

=============================================================================
