-------------------------------- MODULE Clients --------------------------------
(***************************************************************************)
(* The two programs of the repository that use the gateway through its own *)
(* API, the seed endpoint and the monitor's smoke test, each with the      *)
(* requests that went unanswered and are served behind its back.           *)
(***************************************************************************)
EXTENDS SeedClient

CONSTANT Runs           \* smoke tests

VARIABLES
    is_running, triggered, latest, step, recognised, published, synced, cleanup, unanswered,
    merchants, schemas, outbox, sent, sync, readSchemas, mirror

Probe == INSTANCE SmokeProbe WITH known <- recognised

probeVars == <<is_running, triggered, latest, step, recognised, published, synced, cleanup,
               unanswered, merchants, schemas, outbox, sent, sync, readSchemas, mirror>>
clientsVars == <<seedVars, probeVars, left>>

ClientsInit == BudgetInit /\ SeedInit /\ Probe!ProbeInit

SeedStep == SeedNext /\ UNCHANGED probeVars

ProbeStep == Probe!ProbeNext /\ UNCHANGED seedVars

ClientsNext == SeedStep \/ ProbeStep

\* Every wait of the two has a timeout, so that each of them goes on; the
\* publisher brings a batch it has locked to an end.
ClientsSpec ==
    /\ ClientsInit /\ [][ClientsNext]_clientsVars
    /\ WF_clientsVars(Seeding /\ UNCHANGED probeVars)
    /\ \A p \in Runs : WF_clientsVars(Probe!Probing(p) /\ UNCHANGED seedVars)
    /\ WF_clientsVars(Probe!Publishing /\ UNCHANGED seedVars)

-----------------------------------------------------------------------------

Existing ==
    Cardinality({c \in SeedCustomers : customer[c] # "absent"})
        + Cardinality({p \in SeedPayments : status[p] # "none"})
        + Cardinality({r \in SeedRefunds : refund[r].state # "none"})

Counted ==
    Cardinality(told["customer"]) + Cardinality(told["payment"]) + Cardinality(told["refund"])

\* What a seeding counts is there, its payments in the state they were counted under,
\* whatever was sent twice; and all else there is was there before, or comes from a
\* request that got no answer.  Of the refunds it counts as processed only that they
\* were created is sure; but if every request was answered it counts all that are.
SeedAccounted ==
    /\ \A c \in told["customer"] : customer[c] = "live"
    /\ \A p \in told["payment"] : status[p] # "none"
    /\ \A op \in DOMAIN Target : \A p \in told[op] : status[p] = Target[op]
    /\ \A r \in told["refund"] : refund[r].state # "none"
    /\ told["process"] \subseteq told["refund"]
    /\ lost = 0 => \A r \in SeedRefunds : refund[r].state = "processed" => r \in told["process"]
    /\ Existing <= 2 * had + Counted + lost

\* A seeding comes to an end: done, given up for time, or broken off.
SeedEnds == phase # "idle" ~> phase \in {"done", "aborted"}

\* A cleanup reported as ok left nothing of the merchant in the core database, and
\* nothing in the read database unless the report said that it had not come so far.
CleanReportTrue ==
    \A p \in Runs : cleanup[p] = "ok" =>
        /\ p \notin merchants \cup schemas
        /\ outbox[p] = {}
        /\ p \in synced => p \notin readSchemas \cup mirror

\* Tests that have begun come to a verdict on their cleanup, though the events they
\* wait for may never come and the publisher may hold the rows they delete.
ProbeEnds ==
    (\E p \in Runs : step[p] # "idle") ~>
        \A p \in Runs : step[p] = "idle" \/ (step[p] = "over" /\ cleanup[p] # "pending")

=============================================================================
