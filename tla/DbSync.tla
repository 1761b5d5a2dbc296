--------------------------------- MODULE DbSync ---------------------------------
(***************************************************************************)
(* start_db_sync_consumer of connect-service: the coroutine that reads the *)
(* topic, claims each message in processed_events, applies it to the read  *)
(* database and commits its offset.  Every await is a step, and the        *)
(* process may die between any two.  An exception outside the inner try    *)
(* block stops the consumer object, which aiokafka never starts again.     *)
(* The handlers of sync_service are single statements or transactions: one *)
(* step each, here a line in the log `applied`.                            *)
(***************************************************************************)
EXTENDS Integers, Sequences, FiniteSets

CONSTANTS
    Merchants,      \* tenants, one partition each
    Events,         \* event ids
    MaxRestarts,    \* bound: crashes, and exceptions that reach the outer handler
    MaxErrors,      \* bound: errors in the handlers and offset commits
    None

VARIABLES
    topic,      \* topic[m]: the messages of the merchant, in offset order (read only)
    cause,      \* cause[e]: 0 for a merchant.created.v1 (read only)
    position,   \* position[m]: how many of them getone has returned
    committed,  \* committed[m]: the offset of db-sync-group
    step,       \* where the coroutine is, "stuck" in the outer loop
    msg,        \* the message in hand
    at,         \* the partition it came from
    claimed,    \* processed_events
    applied,    \* the events sync_event has applied, in order
    dead,       \* consumer_dead_letter
    schema,     \* schema[m]: "none", "partial" or "ready" in the read database
    restarts, errors

readDb == <<claimed, applied, dead, schema>>
syncVars == <<position, committed, step, msg, at, claimed, applied, dead, schema, restarts, errors>>

Steps ==
    {"poll", "claim", "ensure", "tables", "sync", "commit", "dead_letter", "ack", "stuck"}

SyncInit ==
    /\ position = [m \in Merchants |-> 0]
    /\ committed = [m \in Merchants |-> 0]
    /\ step = "poll"
    /\ msg = None
    /\ at = None
    /\ claimed = {}
    /\ applied = <<>>
    /\ dead = {}
    /\ schema = [m \in Merchants |-> "none"]
    /\ restarts = 0
    /\ errors = 0

-----------------------------------------------------------------------------

\* getone: the next message of any partition.
Poll(m) ==
    /\ step = "poll"
    /\ position[m] < Len(topic[m])
    /\ position' = [position EXCEPT ![m] = position[m] + 1]
    /\ msg' = topic[m][position[m] + 1]
    /\ at' = m
    /\ step' = "claim"
    /\ UNCHANGED <<committed, readDb, restarts, errors>>

\* A merchant's first event is its merchant.created.v1, which needs the schema.
Onboards(e) == cause[e] = 0
FirstStep(e) == IF Onboards(e) THEN "ensure" ELSE "sync"

\* Mutant: every message is taken, claimed before or not.
Claim_Always ==
    /\ step = "claim"
    /\ claimed' = claimed \cup {msg}
    /\ step' = FirstStep(msg)
    /\ UNCHANGED <<position, committed, msg, at, applied, dead, schema, restarts, errors>>

\* Mutant: without ON CONFLICT DO NOTHING, a second delivery raises.
Claim_DuplicateRaises ==
    /\ step = "claim"
    /\ \/ /\ msg \notin claimed
          /\ claimed' = claimed \cup {msg}
          /\ step' = FirstStep(msg)
       \/ /\ msg \in claimed
          /\ step' = "dead_letter"
          /\ UNCHANGED claimed
    /\ UNCHANGED <<position, committed, msg, at, applied, dead, schema, restarts, errors>>

\* INSERT INTO processed_events ... ON CONFLICT DO NOTHING: a second delivery
\* only has its offset committed.
Claim ==
    /\ step = "claim"
    /\ \/ /\ msg \notin claimed
          /\ claimed' = claimed \cup {msg}
          /\ step' = FirstStep(msg)
       \/ /\ msg \in claimed
          /\ step' = "ack"
          /\ UNCHANGED claimed
    /\ UNCHANGED <<position, committed, msg, at, applied, dead, schema, restarts, errors>>

\* ensure_merchant_schema returns when the schema exists, whole or not; otherwise
\* it is created at once, and its tables by statements that commit one by one.
EnsureSchema ==
    /\ step = "ensure"
    /\ \/ /\ schema[at] = "none"
          /\ schema' = [schema EXCEPT ![at] = "partial"]
          /\ step' = "tables"
       \/ /\ schema[at] # "none"
          /\ step' = "sync"
          /\ UNCHANGED schema
    /\ UNCHANGED <<position, committed, msg, at, claimed, applied, dead, restarts, errors>>

CreateTables ==
    /\ step = "tables"
    /\ schema' = [schema EXCEPT ![at] = "ready"]
    /\ step' = "sync"
    /\ UNCHANGED <<position, committed, msg, at, claimed, applied, dead, restarts, errors>>

\* Mutant: an event that finds no table is kept until there is one.
SyncEvent_WaitsForTables ==
    /\ step = "sync"
    /\ Onboards(msg) \/ schema[at] = "ready"
    /\ applied' = Append(applied, msg)
    /\ step' = "commit"
    /\ UNCHANGED <<position, committed, msg, at, claimed, dead, schema, restarts, errors>>

\* Mutant: what a handler wrote before it raised stays.
SyncEvent_NotAtomic ==
    /\ step = "sync"
    /\ applied' = Append(applied, msg)
    /\ \/ step' = "commit"
       \/ /\ ~Onboards(msg)
          /\ schema[at] # "ready"
          /\ step' = "dead_letter"
    /\ UNCHANGED <<position, committed, msg, at, claimed, dead, schema, restarts, errors>>

\* sync_event.  merchant.created goes to public.merchants; so does
\* merchant.updated, and payment.settled has no handler; the others go to a table
\* of the merchant's schema, and raise where it is missing.
SyncEvent ==
    /\ step = "sync"
    /\ \/ /\ applied' = Append(applied, msg)
          /\ step' = "commit"
       \/ /\ ~Onboards(msg)
          /\ schema[at] # "ready"
          /\ step' = "dead_letter"
          /\ UNCHANGED applied
    /\ UNCHANGED <<position, committed, msg, at, claimed, dead, schema, restarts, errors>>

\* An exception inside the try block, the commit of the offset included.
StepFails ==
    /\ step \in {"ensure", "tables", "sync", "commit"}
    /\ errors < MaxErrors
    /\ errors' = errors + 1
    /\ step' = "dead_letter"
    /\ UNCHANGED <<position, committed, msg, at, readDb, restarts>>

\* Mutant: a failed event is passed over.
DeadLetter_Drops ==
    /\ step = "dead_letter"
    /\ step' = "ack"
    /\ UNCHANGED <<position, committed, msg, at, readDb, restarts, errors>>

\* Mutant: the dead letter is filed under the tenant.
DeadLetter_WrongKey ==
    /\ step = "dead_letter"
    /\ dead' = dead \cup {at}
    /\ step' = "ack"
    /\ UNCHANGED <<position, committed, msg, at, claimed, applied, schema, restarts, errors>>

DeadLetter ==
    /\ step = "dead_letter"
    /\ dead' = dead \cup {msg}
    /\ step' = "ack"
    /\ UNCHANGED <<position, committed, msg, at, claimed, applied, schema, restarts, errors>>

\* consumer.commit(): everything getone has returned.
CommitOffset ==
    /\ step \in {"commit", "ack"}
    /\ committed' = position
    /\ step' = "poll"
    /\ msg' = None
    /\ at' = None
    /\ UNCHANGED <<position, readDb, restarts, errors>>

\* A statement or commit that raised may have been carried out all the same.
Unanswered ==
    \/ /\ step = "claim"
       /\ claimed' = claimed \cup {msg}
       /\ UNCHANGED <<committed, dead>>
    \/ /\ step = "dead_letter"
       /\ dead' = dead \cup {msg}
       /\ UNCHANGED <<committed, claimed>>
    \/ /\ step = "ack"
       /\ committed' = position
       /\ UNCHANGED <<claimed, dead>>

\* An exception of getone, the claim, the dead letter or the commits beside them: the
\* consumer is stopped, and from then on every start() of the outer loop raises.
Stop ==
    /\ step \in {"poll", "claim", "dead_letter", "ack"}
    /\ restarts < MaxRestarts
    /\ restarts' = restarts + 1
    /\ Unanswered \/ UNCHANGED <<committed, claimed, dead>>
    /\ position' = committed'
    /\ step' = "stuck"
    /\ msg' = None
    /\ at' = None
    /\ UNCHANGED <<applied, schema, errors>>

\* Nothing in the repository does this: somebody restarts the whole process.
Redeploy ==
    /\ step = "stuck"
    /\ step' = "poll"
    /\ UNCHANGED <<position, committed, msg, at, readDb, restarts, errors>>

\* Mutant: the consumer resumes behind the last message it was given.
Restart_KeepsPosition ==
    /\ step # "stuck"
    /\ restarts < MaxRestarts
    /\ restarts' = restarts + 1
    /\ committed' = position
    /\ step' = "poll"
    /\ msg' = None
    /\ at' = None
    /\ UNCHANGED <<position, readDb, errors>>

\* The process dies and is started again: a new consumer reads from the committed
\* offsets, without the message the old one had in hand.
Restart ==
    /\ step # "stuck"
    /\ restarts < MaxRestarts
    /\ restarts' = restarts + 1
    /\ position' = committed
    /\ step' = "poll"
    /\ msg' = None
    /\ at' = None
    /\ UNCHANGED <<committed, readDb, errors>>

-----------------------------------------------------------------------------

Advance ==
    \/ \E m \in Merchants : Poll(m)
    \/ Claim \/ EnsureSchema \/ CreateTables \/ SyncEvent \/ DeadLetter \/ CommitOffset

SyncNext == Advance \/ StepFails \/ Restart \/ Stop \/ Redeploy
=============================================================================
