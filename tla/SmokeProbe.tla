------------------------------- MODULE SmokeProbe -------------------------------
(***************************************************************************)
(* The platform monitor's smoke test.  A run creates a merchant of its     *)
(* own, takes a payment through its life, waits for the outbox and for the *)
(* read database, reports, and then deletes in both databases what it knows*)
(* of.  Around it: the gateway serving its requests, at once or late, the  *)
(* outbox publisher, and the DB-sync consumer.                             *)
(***************************************************************************)
EXTENDS Budgets, FiniteSets

CONSTANTS
    Runs,       \* smoke tests, each with its merchant
    None

VARIABLES
    is_running,     \* the monitor's toggle
    triggered,      \* calls of _job_e2e that have not begun
    latest,         \* the run whose report is shown
    step,           \* step[p]: where run p is
    known,          \* the runs that know their merchant's id and schema
    published, synced,  \* the runs that saw their event published, their merchant synced
    cleanup,        \* cleanup[p]: "pending", "skipped", "ok" or "warning"
    unanswered,     \* requests that may be served later
    merchants, schemas,     \* core database: merchants that have a row, a schema
    outbox,         \* outbox[p]: the statuses its events are in
    sent,           \* the runs whose merchant.created is on the topic
    sync,           \* sync[p]: "waiting", "ensured", "applied" or "lost", for merchant.created
    readSchemas, mirror     \* read database: schemas, rows of public.merchants

monitorVars == <<is_running, triggered, latest>>
runVars == <<step, known, published, synced, cleanup, unanswered>>
coreVars == <<merchants, schemas, outbox, sent>>
readVars == <<sync, readSchemas, mirror>>
probeVars == <<monitorVars, runVars, coreVars, readVars>>

Calls == {"create", "customer", "payment", "authorize", "capture"}

After == [create |-> "fetch", fetch |-> "customer", customer |-> "payment",
         payment |-> "authorize", authorize |-> "capture", capture |-> "pollEvent",
         pollEvent |-> "pollRead",
         dropCore |-> "deleteEvents", deleteEvents |-> "deleteMerchant",
         deleteMerchant |-> "dropRead", dropRead |-> "deleteMirror", deleteMirror |-> "over"]

ProbeInit ==
    /\ is_running = TRUE
    /\ triggered = 0
    /\ latest = None
    /\ step = [p \in Runs |-> "idle"]
    /\ known = {} /\ published = {} /\ synced = {}
    /\ cleanup = [p \in Runs |-> "pending"]
    /\ unanswered = {}
    /\ merchants = {} /\ schemas = {}
    /\ outbox = [p \in Runs |-> {}]
    /\ sent = {}
    /\ sync = [p \in Runs |-> "waiting"]
    /\ readSchemas = {} /\ mirror = {}

-----------------------------------------------------------------------------
(* The monitor                                                             *)

\* The hourly job, or the button.
manual_e2e_run ==
    /\ Spend("run")
    /\ triggered' = triggered + 1
    /\ UNCHANGED <<is_running, latest, runVars, coreVars, readVars>>

\* Switched on again, it starts a test of its own.
toggle_monitoring ==
    /\ Spend("toggle")
    /\ is_running' = ~is_running
    /\ triggered' = IF is_running THEN triggered ELSE triggered + 1
    /\ UNCHANGED <<latest, runVars, coreVars, readVars>>

\* A job that begins while the monitor is off does nothing, the button's too.
\* Which of the unused names the run gets makes no difference; Runs has enough (a bound).
_job_e2e ==
    /\ triggered > 0
    /\ triggered' = triggered - 1
    /\ \/ ~is_running /\ UNCHANGED step
       \/ /\ is_running /\ \E p \in Runs : step[p] = "idle"
          /\ step' = [step EXCEPT ![CHOOSE p \in Runs : step[p] = "idle"] = "create"]
    /\ NoCost
    /\ UNCHANGED <<is_running, latest, known, published, synced, cleanup, unanswered, coreVars, readVars>>

-----------------------------------------------------------------------------
(* The gateway                                                             *)

\* payment-core commits a request's rows and its event.
Serve(p, call) ==
    /\ \/ /\ call = "create"
          /\ merchants' = merchants \cup {p}
          /\ schemas' = schemas \cup {p}
       \/ /\ call # "create"
          /\ p \in schemas /\ p \in merchants
          /\ UNCHANGED <<merchants, schemas>>
    /\ outbox' = [outbox EXCEPT ![p] = @ \cup {"pending"}]
    /\ UNCHANGED sent

ServeLate ==
    /\ \E q \in unanswered : Serve(q[1], q[2]) /\ unanswered' = unanswered \ {q}
    /\ NoCost
    /\ UNCHANGED <<monitorVars, step, known, published, synced, cleanup, readVars>>

\* The publisher's transaction: it locks what is pending, sends it and marks it.
\* The first batch with events of a merchant holds its merchant.created.
Holding(s) == {p \in Runs : s \in outbox[p]}
Mark(from, to) ==
    outbox' = [p \in Runs |-> IF from \in outbox[p] THEN (outbox[p] \ {from}) \cup {to} ELSE outbox[p]]

FetchBatch ==
    /\ Holding("locked") = {} /\ Holding("pending") # {}
    /\ Mark("pending", "locked")
    /\ Spend("batch")
    /\ UNCHANGED <<monitorVars, runVars, merchants, schemas, sent, readVars>>

SendBatch ==
    /\ ~(Holding("locked") \subseteq sent)
    /\ sent' = sent \cup Holding("locked")
    /\ NoCost
    /\ UNCHANGED <<monitorVars, runVars, merchants, schemas, outbox, readVars>>

CommitBatch ==
    /\ Holding("locked") # {} /\ Holding("locked") \subseteq sent
    /\ Mark("locked", "published")
    /\ NoCost
    /\ UNCHANGED <<monitorVars, runVars, merchants, schemas, sent, readVars>>

RollBack ==
    /\ Holding("locked") # {}
    /\ Spend("crash")
    /\ Mark("locked", "pending")
    /\ UNCHANGED <<monitorVars, runVars, merchants, schemas, sent, readVars>>

\* The consumer takes merchant.created once: the schema, then the row, or neither
\* when it fails.  The later events write in that schema.
SyncSchema(p) ==
    /\ sync[p] = "waiting" /\ p \in sent
    /\ sync' = [sync EXCEPT ![p] = "ensured"]
    /\ readSchemas' = readSchemas \cup {p}
    /\ NoCost
    /\ UNCHANGED <<monitorVars, runVars, coreVars, mirror>>

SyncMerchant(p) ==
    /\ sync[p] = "ensured"
    /\ sync' = [sync EXCEPT ![p] = "applied"]
    /\ mirror' = mirror \cup {p}
    /\ NoCost
    /\ UNCHANGED <<monitorVars, runVars, coreVars, readSchemas>>

LoseMessage(p) ==
    /\ sync[p] \in {"waiting", "ensured"} /\ p \in sent
    /\ Spend("crash")
    /\ sync' = [sync EXCEPT ![p] = "lost"]
    /\ UNCHANGED <<monitorVars, runVars, coreVars, readSchemas, mirror>>

-----------------------------------------------------------------------------
(* run_e2e_smoke                                                           *)

To(p, s) == step' = [step EXCEPT ![p] = s]

\* The report is made, and the cleanup of what is known put off by three seconds.
_build_e2e(p) ==
    /\ latest' = p
    /\ \/ p \in known /\ To(p, "dropCore") /\ UNCHANGED cleanup
       \/ p \notin known /\ To(p, "over") /\ cleanup' = [cleanup EXCEPT ![p] = "skipped"]
    /\ UNCHANGED <<is_running, triggered>>

Proceed(p) == To(p, After[step[p]]) /\ UNCHANGED <<monitorVars, cleanup>>

Answered(p) ==
    /\ step[p] \in Calls
    /\ Serve(p, step[p])
    /\ Proceed(p)
    /\ NoCost
    /\ UNCHANGED <<known, published, synced, unanswered, readVars>>

\* The test goes on when only the authorization or the capture is refused; without
\* the one the other is refused as well.
Refused(p) ==
    /\ step[p] \in Calls
    /\ Spend("refuse")
    /\ \/ /\ step[p] \in {"authorize", "capture"}
          /\ To(p, "pollEvent")
          /\ UNCHANGED <<monitorVars, cleanup>>
       \/ step[p] \notin {"authorize", "capture"} /\ _build_e2e(p)
    /\ UNCHANGED <<known, published, synced, unanswered, coreVars, readVars>>

Unanswered(p) ==
    /\ step[p] \in Calls
    /\ Spend("drop")
    /\ unanswered' = unanswered \cup {<<p, step[p]>>}
    /\ _build_e2e(p)
    /\ UNCHANGED <<known, published, synced, coreVars, readVars>>

\* The id and the schema's name are not in the answer, but read from the database.
FetchMerchant(p) ==
    /\ step[p] = "fetch"
    /\ \/ NoCost /\ known' = known \cup {p} /\ Proceed(p)
       \/ Spend("fail") /\ _build_e2e(p) /\ UNCHANGED known
    /\ UNCHANGED <<published, synced, unanswered, coreVars, readVars>>

\* Mutant: the poll goes on until it finds the event.
_poll_event_NoGiveUp(p) ==
    /\ step[p] = "pollEvent"
    /\ "published" \in outbox[p]
    /\ published' = published \cup {p}
    /\ NoCost
    /\ Proceed(p)
    /\ UNCHANGED <<known, synced, unanswered, coreVars, readVars>>

\* Twelve looks at the outbox, or an error.
_poll_event(p) ==
    /\ step[p] = "pollEvent"
    /\ \/ "published" \in outbox[p] /\ published' = published \cup {p}
       \/ UNCHANGED published
    /\ NoCost
    /\ Proceed(p)
    /\ UNCHANGED <<known, synced, unanswered, coreVars, readVars>>

\* Fifteen looks at the mirror, or an error.
_poll_read_db_sync(p) ==
    /\ step[p] = "pollRead"
    /\ \/ p \in mirror /\ synced' = synced \cup {p}
       \/ UNCHANGED synced
    /\ NoCost
    /\ _build_e2e(p)
    /\ UNCHANGED <<known, published, unanswered, coreVars, readVars>>

-----------------------------------------------------------------------------
(* _cleanup_smoke: each statement commits by itself, and errors are noted  *)

\* The next statement; after the last one the verdict, unless there were errors.
Done(p) ==
    /\ To(p, After[step[p]])
    /\ cleanup' = IF After[step[p]] = "over" /\ cleanup[p] = "pending"
                  THEN [cleanup EXCEPT ![p] = "ok"] ELSE cleanup
    /\ NoCost
    /\ UNCHANGED <<monitorVars, known, published, synced, unanswered, sent, sync>>

DropSchema(p) ==
    /\ \/ step[p] = "dropCore" /\ schemas' = schemas \ {p} /\ UNCHANGED readSchemas
       \/ step[p] = "dropRead" /\ readSchemas' = readSchemas \ {p} /\ UNCHANGED schemas
    /\ Done(p)
    /\ UNCHANGED <<merchants, outbox, mirror>>

\* The publisher's transaction holds the rows it has locked.
DeleteEvents(p) ==
    /\ step[p] = "deleteEvents"
    /\ "locked" \notin outbox[p]
    /\ outbox' = [outbox EXCEPT ![p] = {}]
    /\ Done(p)
    /\ UNCHANGED <<merchants, schemas, readSchemas, mirror>>

\* In the core database no event may refer to the merchant any more.
DeleteMerchant(p) ==
    /\ \/ /\ step[p] = "deleteMerchant" /\ outbox[p] = {}
          /\ merchants' = merchants \ {p}
          /\ UNCHANGED mirror
       \/ /\ step[p] = "deleteMirror"
          /\ mirror' = mirror \ {p}
          /\ UNCHANGED merchants
    /\ Done(p)
    /\ UNCHANGED <<schemas, outbox, readSchemas>>

Statements == {"dropCore", "deleteEvents", "deleteMerchant", "dropRead", "deleteMirror"}

Fails(p) ==
    \/ Spend("fail")
    \/ step[p] = "deleteMerchant" /\ outbox[p] # {} /\ NoCost

\* Mutant: the error is passed over.
StatementFails_Silently(p) ==
    /\ step[p] \in Statements /\ Fails(p)
    /\ To(p, After[step[p]])
    /\ cleanup' = [cleanup EXCEPT ![p] = IF After[step[p]] = "over" THEN "ok" ELSE @]
    /\ UNCHANGED <<monitorVars, known, published, synced, unanswered, coreVars, readVars>>

StatementFails(p) ==
    /\ step[p] \in Statements /\ Fails(p)
    /\ To(p, After[step[p]])
    /\ cleanup' = [cleanup EXCEPT ![p] = "warning"]
    /\ UNCHANGED <<monitorVars, known, published, synced, unanswered, coreVars, readVars>>

\* Without a connection the database's statements are left out.
ConnectionFails(p) ==
    /\ step[p] \in {"dropCore", "dropRead"}
    /\ Spend("fail")
    /\ To(p, IF step[p] = "dropCore" THEN "dropRead" ELSE "over")
    /\ cleanup' = [cleanup EXCEPT ![p] = "warning"]
    /\ UNCHANGED <<monitorVars, known, published, synced, unanswered, coreVars, readVars>>

-----------------------------------------------------------------------------

Probing(p) ==
    \/ Answered(p) \/ Refused(p) \/ Unanswered(p) \/ FetchMerchant(p)
    \/ _poll_event(p) \/ _poll_read_db_sync(p)
    \/ DropSchema(p) \/ DeleteEvents(p) \/ DeleteMerchant(p)
    \/ StatementFails(p) \/ ConnectionFails(p)

Publishing == SendBatch \/ CommitBatch

ProbeNext ==
    \/ manual_e2e_run \/ toggle_monitoring \/ _job_e2e
    \/ ServeLate \/ FetchBatch \/ Publishing \/ RollBack
    \/ \E p \in Runs : Probing(p) \/ SyncSchema(p) \/ SyncMerchant(p) \/ LoseMessage(p)
=============================================================================
