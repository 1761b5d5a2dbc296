------------------------------ MODULE WebhookTasks ------------------------------
(***************************************************************************)
(* The Celery tasks of the connect service.  A task leaves the broker when *)
(* a process takes it, so it is lost with the process.  Each task runs on  *)
(* an event loop of its own, and the pool that a process keeps was made on *)
(* the loop of its first one: every later task of the process raises.      *)
(* Nothing in the repository queues the first retry of a delivery: Enqueue *)
(* is an operator at Celery's command line, who knows the task by name.    *)
(***************************************************************************)
EXTENDS Webhooks

Aside == Elsewhere /\ UNCHANGED <<req, endpoint>> /\ UNCHANGED topicVars

Enqueue(d) ==
    /\ delivery[d] # None /\ delivery[d].status = "failed" /\ Spend("enqueue")
    /\ retryQueue' = [retryQueue EXCEPT ![d] = @ + 1]
    /\ Aside /\ UNCHANGED <<delivery, acked, letters, buried, letterQueue, worker, pooled>>

RetryLetter(l) ==
    /\ l \in letters \ letterQueue /\ Spend("enqueue")
    /\ letterQueue' = letterQueue \cup {l}
    /\ Aside /\ UNCHANGED <<delivery, acked, letters, buried, retryQueue, worker, pooled>>

-----------------------------------------------------------------------------
(* _retry_delivery                                                         *)

Goes(w, step) == worker' = [worker EXCEPT ![w].step = step]
Frees(w) == worker' = [worker EXCEPT ![w] = Free]

\* The first task makes the pool and goes on; a later one raises where it asks it.
Takes(w, task) ==
    /\ worker' = IF w \in pooled THEN worker ELSE [worker EXCEPT ![w] = task]
    /\ pooled' = pooled \cup {w}

StartRetry(w, d) ==
    LET attempt == delivery[d].attempts + 1 IN
    /\ worker[w] = Free /\ retryQueue[d] > 0
    /\ retryQueue' = [retryQueue EXCEPT ![d] = @ - 1]
    /\ Takes(w, [Free EXCEPT !.d = d, !.n = attempt,
                   !.step = IF attempt > MaxRetries THEN "bury" ELSE "endpoint"])
    /\ NoCost /\ Aside /\ UNCHANGED <<delivery, acked, letters, buried, letterQueue>>

ReadEndpoint(w) ==
    LET e == endpoint[delivery[worker[w].d].e] IN
    /\ worker[w].step = "endpoint"
    /\ Goes(w, IF e = None \/ ~e.active THEN "bury" ELSE "post")
    /\ NoCost /\ Aside /\ UNCHANGED <<delivery, acked, letters, buried, retryQueue, letterQueue, pooled>>

DirectDispatch(w) ==
    LET d == worker[w].d IN
    /\ worker[w].step = "post"
    /\ \E ok \in BOOLEAN :
         /\ worker' = [worker EXCEPT ![w].step = "record", ![w].ok = ok]
         /\ acked' = IF ok THEN acked \cup {<<delivery[d].ev, delivery[d].e>>} ELSE acked
    /\ NoCost /\ Aside /\ UNCHANGED <<delivery, letters, buried, retryQueue, letterQueue, pooled>>

\* The status is written on success only; the attempt is the one read at the start.
RecordRetry(w) ==
    LET d == worker[w].d IN
    /\ worker[w].step = "record"
    /\ delivery' = [delivery EXCEPT ![d].attempts = worker[w].n,
                                    ![d].status = IF worker[w].ok THEN "delivered" ELSE @]
    /\ IF worker[w].ok THEN Frees(w) ELSE Goes(w, "requeue")
    /\ NoCost /\ Aside /\ UNCHANGED <<acked, letters, buried, retryQueue, letterQueue, pooled>>

Requeue(w) ==
    /\ worker[w].step = "requeue"
    /\ retryQueue' = [retryQueue EXCEPT ![worker[w].d] = @ + 1]
    /\ Frees(w)
    /\ NoCost /\ Aside /\ UNCHANGED <<delivery, acked, letters, buried, letterQueue, pooled>>

-----------------------------------------------------------------------------
(* move_to_dlq: two statements, each its own transaction                   *)

BuryInsert(w) ==
    LET d == worker[w].d IN
    /\ worker[w].step = "bury" /\ buried[d] < MaxLetters
    /\ buried' = [buried EXCEPT ![d] = @ + 1]
    /\ letters' = letters \cup {<<d, buried[d] + 1>>}
    /\ Goes(w, "mark")
    /\ NoCost /\ Aside /\ UNCHANGED <<delivery, acked, retryQueue, letterQueue, pooled>>

BuryMark(w) ==
    /\ worker[w].step = "mark"
    /\ delivery' = [delivery EXCEPT ![worker[w].d].status = "dlq"]
    /\ Frees(w)
    /\ NoCost /\ Aside /\ UNCHANGED <<acked, letters, buried, retryQueue, letterQueue, pooled>>

-----------------------------------------------------------------------------
(* _dlq_retry                                                              *)

StartLetter(w, l) ==
    /\ worker[w] = Free /\ l \in letterQueue
    /\ letterQueue' = letterQueue \ {l}
    /\ Takes(w, IF l \in letters THEN [Free EXCEPT !.d = l[1], !.n = l[2], !.step = "letter"] ELSE Free)
    /\ NoCost /\ Aside /\ UNCHANGED <<delivery, acked, letters, buried, retryQueue>>

\* Mutant: the letter is deleted before the endpoint has answered.
DispatchLetter_DeletesFirst(w) ==
    LET d == worker[w].d
        e == endpoint[delivery[d].e]
    IN
    /\ worker[w].step = "letter"
    /\ letters' = letters \ {<<d, worker[w].n>>}
    /\ IF e = None \/ ~e.active THEN Frees(w) /\ acked' = acked
       ELSE \E ok \in BOOLEAN :
              /\ acked' = IF ok THEN acked \cup {<<delivery[d].ev, delivery[d].e>>} ELSE acked
              /\ IF ok THEN Goes(w, "delete") ELSE Frees(w)
    /\ NoCost /\ Aside /\ UNCHANGED <<delivery, buried, retryQueue, letterQueue, pooled>>

DispatchLetter(w) ==
    LET d == worker[w].d
        e == endpoint[delivery[d].e]
    IN
    /\ worker[w].step = "letter"
    /\ IF e = None \/ ~e.active THEN Frees(w) /\ acked' = acked
       ELSE \E ok \in BOOLEAN :
              /\ acked' = IF ok THEN acked \cup {<<delivery[d].ev, delivery[d].e>>} ELSE acked
              /\ IF ok THEN Goes(w, "delete") ELSE Frees(w)
    /\ NoCost /\ Aside /\ UNCHANGED <<delivery, letters, buried, retryQueue, letterQueue, pooled>>

DeleteLetter(w) ==
    /\ worker[w].step = "delete"
    /\ letters' = letters \ {<<worker[w].d, worker[w].n>>}
    /\ Frees(w)
    /\ NoCost /\ Aside /\ UNCHANGED <<delivery, acked, buried, retryQueue, letterQueue, pooled>>

\* A statement raises, or the process is killed and another takes its place, idle or
\* not: Celery does not run the task again.
TaskDies(w) ==
    /\ Spend("crash")
    /\ \/ worker[w] # Free /\ pooled' = pooled
       \/ w \in pooled /\ pooled' = pooled \ {w}
    /\ Frees(w)
    /\ Aside /\ UNCHANGED <<delivery, acked, letters, buried, retryQueue, letterQueue>>

Work(w) ==
    \/ \E d \in Deliveries : StartRetry(w, d)
    \/ \E l \in letterQueue : StartLetter(w, l)
    \/ ReadEndpoint(w) \/ DirectDispatch(w) \/ RecordRetry(w) \/ Requeue(w)
    \/ BuryInsert(w) \/ BuryMark(w) \/ DispatchLetter(w) \/ DeleteLetter(w)

TaskNext ==
    \/ \E d \in Deliveries : Enqueue(d)
    \/ \E l \in letters : RetryLetter(l)
    \/ \E w \in Workers : Work(w) \/ TaskDies(w)
=============================================================================
