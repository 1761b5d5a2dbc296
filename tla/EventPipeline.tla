------------------------------ MODULE EventPipeline ------------------------------
(***************************************************************************)
(* The way of an event: request transaction, outbox row, topic, DB-sync    *)
(* consumer, read database.  Outbox and DbSync run side by side and share  *)
(* the topic, which the first writes and the second reads.                 *)
(***************************************************************************)
EXTENDS OutboxProperties

CONSTANTS
    MaxRestarts,    \* bound: crashes of the consumer, and exceptions that stop it
    MaxErrors       \* bound: errors in its handlers and offset commits

ASSUME NoMessageAssumption == None \notin Events
ASSUME RestartsAssumption == MaxRestarts \in Nat /\ MaxErrors \in Nat

VARIABLES position, committed, step, msg, at, claimed, applied, dead, schema, restarts, errors

Sync == INSTANCE DbSync

syncVars == <<position, committed, step, msg, at, claimed, applied, dead, schema, restarts, errors>>
pipelineVars == <<outboxVars, syncVars>>

PipelineInit == OutboxInit /\ Sync!SyncInit

PipelineNext ==
    \/ OutboxNext /\ UNCHANGED syncVars
    \/ Sync!SyncNext /\ UNCHANGED outboxVars

PipelineSpec == PipelineInit /\ [][PipelineNext]_pipelineVars

\* Processes that die are started again, and not for ever (MaxFailures, MaxRestarts,
\* MaxErrors).  Nobody has to Redeploy a consumer that is stuck.
PipelineFairness ==
    /\ \A k \in Publishers :
        /\ WF_pipelineVars(Fetch(k) /\ UNCHANGED syncVars)
        /\ WF_pipelineVars(Deliver(k) /\ UNCHANGED syncVars)
        /\ WF_pipelineVars(MarkPublished(k) /\ UNCHANGED syncVars)
    /\ WF_pipelineVars(Sync!Advance /\ UNCHANGED outboxVars)

PipelineFairSpec == PipelineSpec /\ PipelineFairness

-----------------------------------------------------------------------------

Applied == {applied[i] : i \in DOMAIN applied}
BeingHandled(e) == msg = e /\ step \in {"ensure", "tables", "sync"}

PipelineTypeOK ==
    /\ OutboxTypeOK
    /\ position \in [Merchants -> Nat]
    /\ committed \in [Merchants -> Nat]
    /\ step \in Sync!Steps
    /\ msg \in Events \cup {None}
    /\ at \in Merchants \cup {None}
    /\ claimed \subseteq Events
    /\ applied \in Seq(Events)
    /\ dead \subseteq Events
    /\ schema \in [Merchants -> {"none", "partial", "ready"}]
    /\ restarts \in 0..MaxRestarts
    /\ errors \in 0..MaxErrors

\* The read database applies an event at most once, although failed publisher
\* runs duplicate messages and restarts read them again.
AppliedOnce == \A i, j \in DOMAIN applied : applied[i] = applied[j] => i = j

\* No message below the group's offset has gone by unclaimed.
NothingSkipped ==
    \A m \in Merchants :
        /\ committed[m] <= position[m] /\ position[m] <= Len(topic[m])
        /\ \A i \in 1..committed[m] : topic[m][i] \in claimed

\* Claims that led to nothing: not in the read database, not among the dead letters.
Vanished == {e \in claimed : e \notin Applied /\ e \notin dead /\ e # msg}

\* A crash or a stop of the consumer costs at most the one event it had in hand.
OneLossPerRestart == Cardinality(Vanished) <= restarts

\* With a working schema an event is dead-lettered only for an error of its own:
\* none comes to the read database before its merchant's tables.
DeadLettersExplained ==
    Cardinality({e \in dead : schema[merchant[e]] = "ready"}) <= errors

\* An event that was applied is also a dead letter only where the commit of its offset
\* failed, inside the same try block: sending the dead letters through the handlers
\* again would apply no more events twice than there were errors.
AppliedAndFiled == Cardinality(Applied \cap dead) <= errors

fateOf(e) ==
    IF e \in Applied THEN "applied"
    ELSE IF e \in claimed /\ ~BeingHandled(e) THEN "dropped"
    ELSE IF Visible(e) THEN "committed" ELSE "unborn"

Feed == INSTANCE EventFeed WITH
    Events <- Events, fate <- [e \in Events |-> fateOf(e)], cause <- cause

\* With one publisher run at a time, each committed event is decided once, and
\* after its cause: consumers see every tenant's history in causal order.
ImplementsFeed == Feed!FeedSpec

\* Whatever overlaps, each committed event is decided once.
ImplementsAnyOrderFeed == Feed!AnyOrderSpec

\* Every committed event reaches the consumer and is decided, whatever dies on the
\* way, if somebody restarts the consumer as often as an exception stops it.
CommittedAreDecided ==
    []<>(step # "stuck") => \A e \in Events : row[e] = "pending" ~> Feed!Decided(e)

\* ARCHITECTURE.md calls the read side eventually consistent: "Read system may lag by
\* 2-5 seconds."  Every committed event reaches the consumer and is decided.
ReadSideCatchesUp == \A e \in Events : row[e] = "pending" ~> Feed!Decided(e)

=============================================================================
