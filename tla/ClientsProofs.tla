------------------------------- MODULE ClientsProofs -------------------------------
(***************************************************************************)
(* What the smoke test's report is worth, for any number of tests at a     *)
(* time, with the publisher, the consumer and late requests around them;   *)
(* and what a seeding's results are worth, whatever its requests came to.  *)
(***************************************************************************)
EXTENDS Clients, FiniteSetTheorems, WellFoundedInduction, TLAPS

-----------------------------------------------------------------------------
(* Why a clean report is true                                              *)

Before == {"idle", "create", "fetch"}
Testing == {"customer", "payment", "authorize", "capture", "pollEvent", "pollRead"}
Cleaning == {"dropCore", "deleteEvents", "deleteMerchant", "dropRead", "deleteMirror"}

ProbeTypeOK ==
    /\ step \in [Runs -> Before \cup Testing \cup Cleaning \cup {"over"}]
    /\ cleanup \in [Runs -> {"pending", "skipped", "ok", "warning"}]
    /\ outbox \in [Runs -> SUBSET {"pending", "locked", "published"}]
    /\ sync \in [Runs -> {"waiting", "ensured", "applied", "lost"}]
    /\ unanswered \subseteq Runs \X Probe!Calls

\* A run knows its merchant from the fetch on, or never: one whose creation may be
\* served late has given up, and does not get to know it.
KnowsItsMerchant(p) ==
    /\ step[p] \in Before => p \notin recognised
    /\ step[p] \in Testing \cup Cleaning => p \in recognised
    /\ step[p] = "over" /\ cleanup[p] # "skipped" => p \in recognised
    /\ <<p, "create">> \in unanswered => p \notin recognised /\ step[p] = "over"

\* What the consumer brings, it brings once; a test that saw it will delete it.
SyncedOnce(p) == p \in mirror \cup synced => sync[p] = "applied"

\* What the statements that are behind a run have deleted stays deleted: no late
\* request finds the schema, no batch the events, and merchant.created is consumed.
StaysDeleted(p) ==
    /\ step[p] \in {"deleteEvents", "deleteMerchant", "dropRead", "deleteMirror", "over"} =>
          p \notin schemas
    /\ step[p] \in {"deleteMerchant", "dropRead", "deleteMirror", "over"} => outbox[p] = {}
    /\ step[p] \in {"dropRead", "deleteMirror", "over"} => p \notin merchants
    /\ step[p] \in {"deleteMirror", "over"} /\ p \in synced => p \notin readSchemas
    /\ step[p] = "over" /\ p \in synced => p \notin mirror

RunSound(p) ==
    /\ KnowsItsMerchant(p) /\ SyncedOnce(p)
    /\ cleanup[p] = "ok" => step[p] = "over"
    /\ cleanup[p] \in {"pending", "ok"} => StaysDeleted(p)

ProbeInv == ProbeTypeOK /\ \A p \in Runs : RunSound(p)

-----------------------------------------------------------------------------

LEMMA ProbeInitInvariant == Probe!ProbeInit => ProbeInv
  BY DEF Probe!ProbeInit, ProbeInv, ProbeTypeOK, RunSound, KnowsItsMerchant, SyncedOnce,
         StaysDeleted, Before, Testing, Cleaning

\* What a step must leave of a run to disturb nothing that is known of it.
Untouched(q) ==
    /\ step'[q] = step[q] /\ cleanup'[q] = cleanup[q] /\ sync'[q] = sync[q]
    /\ q \in recognised' <=> q \in recognised
    /\ q \in synced' <=> q \in synced
    /\ q \in mirror' => q \in mirror
    /\ q \in readSchemas' => q \in readSchemas
    /\ q \in schemas' => q \in schemas
    /\ q \in merchants' => q \in merchants
    /\ outbox[q] = {} => outbox'[q] = {}
    /\ <<q, "create">> \in unanswered' => <<q, "create">> \in unanswered

LEMMA UntouchedSound ==
  ASSUME NEW q \in Runs, RunSound(q), Untouched(q)
  PROVE  RunSound(q)'
  BY DEF Untouched, RunSound, KnowsItsMerchant, SyncedOnce, StaysDeleted

\* Where a run goes next.
LEMMA AfterStep ==
  /\ Probe!After["create"] = "fetch" /\ Probe!After["fetch"] = "customer"
  /\ Probe!After["customer"] = "payment" /\ Probe!After["payment"] = "authorize"
  /\ Probe!After["authorize"] = "capture" /\ Probe!After["capture"] = "pollEvent"
  /\ Probe!After["pollEvent"] = "pollRead"
  /\ Probe!After["dropCore"] = "deleteEvents" /\ Probe!After["deleteEvents"] = "deleteMerchant"
  /\ Probe!After["deleteMerchant"] = "dropRead" /\ Probe!After["dropRead"] = "deleteMirror"
  /\ Probe!After["deleteMirror"] = "over"
  BY DEF Probe!After

-----------------------------------------------------------------------------
(* The monitor, the gateway, the publisher and the consumer                *)

LEMMA MonitorKeeps ==
  ASSUME ProbeInv, Probe!manual_e2e_run \/ Probe!toggle_monitoring \/ Probe!_job_e2e
  PROVE  ProbeInv'
<1>1. /\ UNCHANGED <<recognised, published, synced, cleanup, unanswered>>
      /\ UNCHANGED <<merchants, schemas, outbox, sent, sync, readSchemas, mirror>>
  BY DEF Probe!manual_e2e_run, Probe!toggle_monitoring, Probe!_job_e2e, Probe!runVars,
         Probe!coreVars, Probe!readVars
<1>2. CASE UNCHANGED step
  BY <1>1, <1>2 DEF ProbeInv, ProbeTypeOK, RunSound, KnowsItsMerchant, SyncedOnce, StaysDeleted
<1>3. CASE step' # step
  <2>1. PICK p \in Runs : step[p] = "idle" /\ step' = [step EXCEPT ![p] = "create"]
    <3>1. /\ \E p \in Runs : step[p] = "idle"
          /\ step' = [step EXCEPT ![CHOOSE p \in Runs : step[p] = "idle"] = "create"]
      BY <1>3 DEF Probe!manual_e2e_run, Probe!toggle_monitoring, Probe!_job_e2e, Probe!runVars
    <3> QED  BY <3>1
  <2>2. ProbeTypeOK'
    BY <1>1, <2>1 DEF ProbeInv, ProbeTypeOK, Before
  <2>3. step'[p] = "create" /\ \A q \in Runs : q # p => step'[q] = step[q]
    BY <2>1 DEF ProbeInv, ProbeTypeOK
  <2>4. RunSound(p)'
    BY <1>1, <2>1, <2>3 DEF ProbeInv, RunSound, KnowsItsMerchant, SyncedOnce, StaysDeleted,
                            Before, Testing, Cleaning
  <2>5. \A q \in Runs : q # p => RunSound(q)'
    BY <1>1, <2>3, UntouchedSound DEF Untouched, ProbeInv
  <2> QED  BY <2>2, <2>4, <2>5 DEF ProbeInv
<1> QED  BY <1>2, <1>3

\* A request served late: the creation finds a run that has given up, all others need
\* the schema.
LEMMA ServeLateKeeps ==
  ASSUME ProbeInv, Probe!ServeLate
  PROVE  ProbeInv'
<1>1. PICK u \in unanswered : Probe!Serve(u[1], u[2]) /\ unanswered' = unanswered \ {u}
  BY DEF Probe!ServeLate
<1>2. PICK p \in Runs, call \in Probe!Calls : u = <<p, call>>
  BY DEF ProbeInv, ProbeTypeOK
<1>3. /\ outbox' = [outbox EXCEPT ![p] = @ \cup {"pending"}]
      /\ \/ call = "create" /\ merchants' = merchants \cup {p} /\ schemas' = schemas \cup {p}
         \/ call # "create" /\ p \in schemas /\ UNCHANGED <<merchants, schemas>>
  BY <1>1, <1>2 DEF Probe!Serve
<1>4. UNCHANGED <<step, recognised, synced, cleanup, sync, readSchemas, mirror>>
  BY DEF Probe!ServeLate, Probe!readVars
<1>5. ProbeTypeOK'
  BY <1>1, <1>3, <1>4 DEF ProbeInv, ProbeTypeOK
<1>6. \A q \in Runs : q # p => RunSound(q)'
  <2> SUFFICES ASSUME NEW q \in Runs, q # p  PROVE  Untouched(q)
    BY UntouchedSound DEF ProbeInv
  <2>1. outbox'[q] = outbox[q]
    BY <1>3 DEF ProbeInv, ProbeTypeOK
  <2> QED  BY <1>1, <1>3, <1>4, <2>1 DEF Untouched
<1>7. RunSound(p)'
  <2>1. CASE call = "create"
    <3>1. p \notin recognised /\ step[p] = "over"
      BY <1>2, <2>1 DEF ProbeInv, RunSound, KnowsItsMerchant
    <3>2. cleanup[p] = "skipped"
      BY <3>1 DEF ProbeInv, RunSound, KnowsItsMerchant
    <3> QED  BY <1>1, <1>4, <3>1, <3>2 DEF ProbeInv, RunSound, KnowsItsMerchant, SyncedOnce, StaysDeleted
  <2>2. CASE call # "create"
    <3>1. p \in schemas /\ UNCHANGED <<merchants, schemas>>
      BY <1>3, <2>2
    <3>2. cleanup[p] \in {"pending", "ok"} => step[p] \notin {"deleteEvents", "deleteMerchant", "dropRead", "deleteMirror", "over"}
      BY <3>1 DEF ProbeInv, RunSound, StaysDeleted
    <3> QED  BY <1>1, <1>4, <3>1, <3>2 DEF ProbeInv, RunSound, KnowsItsMerchant, SyncedOnce, StaysDeleted
  <2> QED  BY <2>1, <2>2
<1> QED  BY <1>5, <1>6, <1>7 DEF ProbeInv

\* The publisher marks events that are there.
LEMMA PublisherKeeps ==
  ASSUME ProbeInv, Probe!FetchBatch \/ Probe!Publishing \/ Probe!RollBack
  PROVE  ProbeInv'
<1>1. /\ UNCHANGED <<step, recognised, published, synced, cleanup, unanswered>>
      /\ UNCHANGED <<merchants, schemas, sync, readSchemas, mirror>>
      /\ \/ UNCHANGED outbox
         \/ \E s \in {"pending", "locked"}, t \in {"locked", "published", "pending"} : Probe!Mark(s, t)
  BY DEF Probe!FetchBatch, Probe!Publishing, Probe!SendBatch, Probe!CommitBatch, Probe!RollBack,
         Probe!runVars, Probe!readVars
<1>2. /\ outbox' \in [Runs -> SUBSET {"pending", "locked", "published"}]
      /\ \A p \in Runs : outbox[p] = {} => outbox'[p] = {}
  <2>1. CASE UNCHANGED outbox
    BY <2>1 DEF ProbeInv, ProbeTypeOK
  <2>2. ASSUME NEW s \in {"pending", "locked"}, NEW t \in {"locked", "published", "pending"}, Probe!Mark(s, t)
        PROVE  /\ outbox' \in [Runs -> SUBSET {"pending", "locked", "published"}]
               /\ \A p \in Runs : outbox[p] = {} => outbox'[p] = {}
    BY <2>2 DEF Probe!Mark, ProbeInv, ProbeTypeOK
  <2> QED  BY <1>1, <2>1, <2>2
<1>3. ProbeTypeOK'
  BY <1>1, <1>2 DEF ProbeInv, ProbeTypeOK
<1>4. \A p \in Runs : RunSound(p)'
  BY <1>1, <1>2, UntouchedSound DEF Untouched, ProbeInv
<1> QED  BY <1>3, <1>4 DEF ProbeInv

\* merchant.created brings the schema and the row before the test has seen the row.
LEMMA ConsumerKeeps ==
  ASSUME ProbeInv, NEW p \in Runs, Probe!SyncSchema(p) \/ Probe!SyncMerchant(p) \/ Probe!LoseMessage(p)
  PROVE  ProbeInv'
<1>1. /\ UNCHANGED <<step, recognised, published, synced, cleanup, unanswered>>
      /\ UNCHANGED <<merchants, schemas, outbox>>
      /\ \A q \in Runs : q # p => /\ sync'[q] = sync[q]
                                  /\ q \in mirror' => q \in mirror
                                  /\ q \in readSchemas' => q \in readSchemas
      /\ sync[p] # "applied"
      /\ p \in mirror' => p \in mirror \/ sync'[p] = "applied"
  BY DEF Probe!SyncSchema, Probe!SyncMerchant, Probe!LoseMessage, Probe!runVars, Probe!coreVars,
         ProbeInv, ProbeTypeOK
<1>2. ProbeTypeOK'
  BY <1>1 DEF ProbeInv, ProbeTypeOK, Probe!SyncSchema, Probe!SyncMerchant, Probe!LoseMessage
<1>3. p \notin mirror /\ p \notin synced
  BY <1>1 DEF ProbeInv, RunSound, SyncedOnce
<1>4. RunSound(p)'
  BY <1>1, <1>3 DEF ProbeInv, RunSound, KnowsItsMerchant, SyncedOnce, StaysDeleted
<1>5. \A q \in Runs : q # p => RunSound(q)'
  BY <1>1, UntouchedSound DEF Untouched, ProbeInv
<1> QED  BY <1>2, <1>4, <1>5 DEF ProbeInv

-----------------------------------------------------------------------------
(* A run's own steps                                                       *)

LEMMA OneRunMoves ==
  ASSUME ProbeInv, NEW p \in Runs, ProbeTypeOK', RunSound(p)',
         \A q \in Runs : q # p => Untouched(q)
  PROVE  ProbeInv'
<1>1. \A q \in Runs : q # p => RunSound(q)'
  BY UntouchedSound DEF ProbeInv
<1> QED  BY <1>1 DEF ProbeInv

\* A run makes its report: it deletes what it knows of, or knows of nothing.
LEMMA ReportMade ==
  ASSUME ProbeInv, NEW p \in Runs, Probe!_build_e2e(p)
  PROVE  /\ step' \in [Runs -> Before \cup Testing \cup Cleaning \cup {"over"}]
         /\ cleanup' \in [Runs -> {"pending", "skipped", "ok", "warning"}]
         /\ \A q \in Runs : q # p => step'[q] = step[q] /\ cleanup'[q] = cleanup[q]
         /\ \/ p \in recognised /\ step'[p] = "dropCore" /\ cleanup'[p] = cleanup[p]
            \/ p \notin recognised /\ step'[p] = "over" /\ cleanup'[p] = "skipped"
  BY DEF Probe!_build_e2e, Probe!To, ProbeInv, ProbeTypeOK, Cleaning

\* ... from a call or a poll on, which is before any statement of the cleanup.
LEMMA ReportKeeps ==
  ASSUME ProbeInv, NEW p \in Runs, Probe!_build_e2e(p),
         step[p] \in Before \cup Testing,
         UNCHANGED <<recognised, merchants, schemas, outbox, sync, readSchemas, mirror>>,
         synced' = synced \/ (p \in mirror /\ synced' = synced \cup {p}),
         \/ unanswered' = unanswered
         \/ step[p] \in Probe!Calls /\ unanswered' = unanswered \cup {<<p, step[p]>>}
  PROVE  ProbeInv'
<1>1. ProbeTypeOK'
  BY ReportMade DEF ProbeInv, ProbeTypeOK
<1>2. \A q \in Runs : q # p => Untouched(q)
  BY ReportMade DEF Untouched
<1>3. cleanup[p] # "ok" /\ step[p] # "over"
  BY DEF ProbeInv, RunSound, Before, Testing
<1>4. SyncedOnce(p)'
  BY DEF ProbeInv, RunSound, SyncedOnce
<1>5. KnowsItsMerchant(p)'
  <2>1. <<p, "create">> \notin unanswered
    BY <1>3 DEF ProbeInv, RunSound, KnowsItsMerchant
  <2>2. <<p, "create">> \in unanswered' => step[p] = "create"
    BY <2>1
  <2>3. step[p] = "create" => p \notin recognised
    BY DEF ProbeInv, RunSound, KnowsItsMerchant, Before
  <2> QED  BY <2>2, <2>3, ReportMade DEF KnowsItsMerchant, Before, Testing, Cleaning
<1>6. RunSound(p)'
  BY <1>3, <1>4, <1>5, ReportMade DEF RunSound, StaysDeleted
<1> QED  BY <1>1, <1>2, <1>6, OneRunMoves

\* The next step of a test, with what it leaves of the run's own cleanup.
LEMMA GoesTo ==
  ASSUME ProbeInv, NEW p \in Runs, NEW s \in Before \cup Testing \cup Cleaning \cup {"over"},
         Probe!To(p, s)
  PROVE  /\ step' \in [Runs -> Before \cup Testing \cup Cleaning \cup {"over"}]
         /\ step'[p] = s /\ \A q \in Runs : q # p => step'[q] = step[q]
  BY DEF Probe!To, ProbeInv, ProbeTypeOK

LEMMA AnsweredKeeps ==
  ASSUME ProbeInv, NEW p \in Runs, Probe!Answered(p)
  PROVE  ProbeInv'
<1>1. /\ step[p] \in Probe!Calls /\ Probe!Serve(p, step[p]) /\ Probe!To(p, Probe!After[step[p]])
      /\ UNCHANGED <<recognised, synced, cleanup, unanswered, sync, readSchemas, mirror>>
  BY DEF Probe!Answered, Probe!Proceed, Probe!readVars
<1>2. /\ Probe!After[step[p]] \in {"fetch", "payment", "authorize", "capture", "pollEvent"}
      /\ Probe!After[step[p]] = "fetch" <=> step[p] = "create"
  BY <1>1, AfterStep DEF Probe!Calls
<1>3. /\ step' \in [Runs -> Before \cup Testing \cup Cleaning \cup {"over"}]
      /\ step'[p] = Probe!After[step[p]] /\ \A q \in Runs : q # p => step'[q] = step[q]
  BY <1>1, <1>2, GoesTo DEF Before, Testing
<1>4. /\ outbox' \in [Runs -> SUBSET {"pending", "locked", "published"}]
      /\ \A q \in Runs : q # p => /\ outbox'[q] = outbox[q]
                                  /\ q \in merchants' => q \in merchants
                                  /\ q \in schemas' => q \in schemas
  BY <1>1 DEF Probe!Serve, ProbeInv, ProbeTypeOK
<1>5. ProbeTypeOK'
  BY <1>1, <1>3, <1>4 DEF ProbeInv, ProbeTypeOK
<1>6. \A q \in Runs : q # p => Untouched(q)
  BY <1>1, <1>3, <1>4 DEF Untouched
<1>7. step[p] # "over" /\ cleanup[p] # "ok" /\ <<p, "create">> \notin unanswered
  BY <1>1 DEF Probe!Calls, ProbeInv, RunSound, KnowsItsMerchant
<1>8. RunSound(p)'
  BY <1>1, <1>2, <1>3, <1>7
  DEF ProbeInv, RunSound, KnowsItsMerchant, SyncedOnce, StaysDeleted, Before, Testing, Cleaning, Probe!Calls
<1> QED  BY <1>5, <1>6, <1>8, OneRunMoves

LEMMA CallFailsKeeps ==
  ASSUME ProbeInv, NEW p \in Runs, Probe!Refused(p) \/ Probe!Unanswered(p)
  PROVE  ProbeInv'
<1>1. /\ step[p] \in Probe!Calls /\ step[p] \in Before \cup Testing
      /\ UNCHANGED <<recognised, synced, merchants, schemas, outbox, sync, readSchemas, mirror>>
  BY DEF Probe!Refused, Probe!Unanswered, Probe!coreVars, Probe!readVars, Probe!Calls, Before, Testing
<1>2. CASE Probe!_build_e2e(p)
  <2>1. unanswered' = unanswered \/ unanswered' = unanswered \cup {<<p, step[p]>>}
    BY DEF Probe!Refused, Probe!Unanswered
  <2> QED  BY <1>1, <1>2, <2>1, ReportKeeps
<1>3. CASE ~Probe!_build_e2e(p)
  <2>1. /\ step[p] \in {"authorize", "capture"} /\ Probe!To(p, "pollEvent")
        /\ UNCHANGED <<cleanup, unanswered>>
    BY <1>3 DEF Probe!Refused, Probe!Unanswered
  <2>2. /\ step' \in [Runs -> Before \cup Testing \cup Cleaning \cup {"over"}]
        /\ step'[p] = "pollEvent" /\ \A q \in Runs : q # p => step'[q] = step[q]
    BY <2>1, GoesTo DEF Testing
  <2>3. ProbeTypeOK'
    BY <1>1, <2>1, <2>2 DEF ProbeInv, ProbeTypeOK
  <2>4. RunSound(p)'
    BY <1>1, <2>1, <2>2
    DEF ProbeInv, RunSound, KnowsItsMerchant, SyncedOnce, StaysDeleted, Before, Testing, Cleaning
  <2>5. \A q \in Runs : q # p => Untouched(q)
    BY <1>1, <2>1, <2>2 DEF Untouched
  <2> QED  BY <2>3, <2>4, <2>5, OneRunMoves
<1> QED  BY <1>2, <1>3

LEMMA FetchMerchantKeeps ==
  ASSUME ProbeInv, NEW p \in Runs, Probe!FetchMerchant(p)
  PROVE  ProbeInv'
<1>1. /\ step[p] = "fetch"
      /\ UNCHANGED <<synced, unanswered, merchants, schemas, outbox, sync, readSchemas, mirror>>
  BY DEF Probe!FetchMerchant, Probe!coreVars, Probe!readVars
<1>2. CASE Probe!_build_e2e(p) /\ UNCHANGED recognised
  BY <1>1, <1>2, ReportKeeps DEF Before
<1>3. CASE recognised' = recognised \cup {p} /\ Probe!Proceed(p)
  <2>1. Probe!To(p, "customer") /\ UNCHANGED cleanup
    BY <1>1, <1>3, AfterStep DEF Probe!Proceed
  <2>2. /\ step' \in [Runs -> Before \cup Testing \cup Cleaning \cup {"over"}]
        /\ step'[p] = "customer" /\ \A q \in Runs : q # p => step'[q] = step[q]
    BY <2>1, GoesTo DEF Testing
  <2>3. ProbeTypeOK'
    BY <1>1, <2>1, <2>2 DEF ProbeInv, ProbeTypeOK
  <2>4. RunSound(p)'
    BY <1>1, <1>3, <2>1, <2>2
    DEF ProbeInv, RunSound, KnowsItsMerchant, SyncedOnce, StaysDeleted, Before, Testing, Cleaning
  <2>5. \A q \in Runs : q # p => Untouched(q)
    BY <1>1, <1>3, <2>1, <2>2 DEF Untouched
  <2> QED  BY <2>3, <2>4, <2>5, OneRunMoves
<1> QED  BY <1>2, <1>3 DEF Probe!FetchMerchant

LEMMA PollsKeep ==
  ASSUME ProbeInv, NEW p \in Runs, Probe!_poll_event(p) \/ Probe!_poll_read_db_sync(p)
  PROVE  ProbeInv'
<1>1. UNCHANGED <<recognised, unanswered, merchants, schemas, outbox, sync, readSchemas, mirror>>
  BY DEF Probe!_poll_event, Probe!_poll_read_db_sync, Probe!coreVars, Probe!readVars
<1>2. CASE Probe!_poll_read_db_sync(p)
  <2>1. /\ step[p] = "pollRead" /\ Probe!_build_e2e(p)
        /\ synced' = synced \/ (p \in mirror /\ synced' = synced \cup {p})
    BY <1>2 DEF Probe!_poll_read_db_sync
  <2> QED  BY <1>1, <2>1, ReportKeeps DEF Testing
<1>3. CASE Probe!_poll_event(p)
  <2>1. step[p] = "pollEvent" /\ Probe!To(p, "pollRead") /\ UNCHANGED <<synced, cleanup>>
    BY <1>3, AfterStep DEF Probe!_poll_event, Probe!Proceed
  <2>2. /\ step' \in [Runs -> Before \cup Testing \cup Cleaning \cup {"over"}]
        /\ step'[p] = "pollRead" /\ \A q \in Runs : q # p => step'[q] = step[q]
    BY <2>1, GoesTo DEF Testing
  <2>3. ProbeTypeOK'
    BY <1>1, <2>1, <2>2 DEF ProbeInv, ProbeTypeOK
  <2>4. RunSound(p)'
    BY <1>1, <2>1, <2>2
    DEF ProbeInv, RunSound, KnowsItsMerchant, SyncedOnce, StaysDeleted, Before, Testing, Cleaning
  <2>5. \A q \in Runs : q # p => Untouched(q)
    BY <1>1, <2>1, <2>2 DEF Untouched
  <2> QED  BY <2>3, <2>4, <2>5, OneRunMoves
<1> QED  BY <1>2, <1>3

\* A statement that succeeds leaves the verdict, but for the last, which gives it.
LEMMA StatementDone ==
  ASSUME ProbeInv, NEW p \in Runs, step[p] \in Cleaning, Probe!Done(p)
  PROVE  /\ step' \in [Runs -> Before \cup Testing \cup Cleaning \cup {"over"}]
         /\ step'[p] = Probe!After[step[p]] /\ step'[p] \in Cleaning \cup {"over"}
         /\ cleanup' \in [Runs -> {"pending", "skipped", "ok", "warning"}]
         /\ cleanup'[p] \in {"pending", "ok"} => cleanup[p] = "pending"
         /\ cleanup'[p] = "ok" => step'[p] = "over"
         /\ cleanup'[p] = "skipped" => cleanup[p] = "skipped"
         /\ \A q \in Runs : q # p => step'[q] = step[q] /\ cleanup'[q] = cleanup[q]
         /\ UNCHANGED <<recognised, synced, unanswered, sync>>
<1>1. Probe!After[step[p]] \in Cleaning \cup {"over"}
  BY AfterStep DEF Cleaning
<1>2. /\ step' \in [Runs -> Before \cup Testing \cup Cleaning \cup {"over"}]
      /\ step'[p] = Probe!After[step[p]]
      /\ \A q \in Runs : q # p => step'[q] = step[q]
  BY <1>1, GoesTo DEF Probe!Done
<1>3. cleanup[p] # "ok"
  BY DEF ProbeInv, RunSound, Cleaning
<1>4. /\ cleanup' = IF Probe!After[step[p]] = "over" /\ cleanup[p] = "pending"
                    THEN [cleanup EXCEPT ![p] = "ok"] ELSE cleanup
      /\ UNCHANGED <<recognised, synced, unanswered, sync>>
  BY DEF Probe!Done
<1>5. cleanup \in [Runs -> {"pending", "skipped", "ok", "warning"}]
  BY DEF ProbeInv, ProbeTypeOK
<1>6. CASE Probe!After[step[p]] = "over" /\ cleanup[p] = "pending"
  BY <1>1, <1>2, <1>4, <1>5, <1>6
<1>7. CASE ~(Probe!After[step[p]] = "over" /\ cleanup[p] = "pending")
  BY <1>1, <1>2, <1>3, <1>4, <1>5, <1>7
<1> QED  BY <1>6, <1>7

\* What a successful statement deletes is all that its step asks for.
LEMMA StatementKeeps ==
  ASSUME ProbeInv, NEW p \in Runs, Probe!DropSchema(p) \/ Probe!DeleteEvents(p) \/ Probe!DeleteMerchant(p)
  PROVE  ProbeInv'
<1>1. step[p] \in Cleaning /\ Probe!Done(p)
  BY DEF Probe!DropSchema, Probe!DeleteEvents, Probe!DeleteMerchant, Cleaning
<1>2. /\ \A q \in Runs : q \in merchants' => q \in merchants
      /\ \A q \in Runs : q \in schemas' => q \in schemas
      /\ \A q \in Runs : q \in readSchemas' => q \in readSchemas
      /\ \A q \in Runs : q \in mirror' => q \in mirror
      /\ outbox' \in [Runs -> SUBSET {"pending", "locked", "published"}]
      /\ \A q \in Runs : outbox[q] = {} => outbox'[q] = {}
  BY DEF Probe!DropSchema, Probe!DeleteEvents, Probe!DeleteMerchant, ProbeInv, ProbeTypeOK
<1>3. /\ step[p] = "dropCore" => p \notin schemas'
      /\ step[p] = "deleteEvents" => outbox'[p] = {}
      /\ step[p] = "deleteMerchant" => p \notin merchants'
      /\ step[p] = "dropRead" => p \notin readSchemas'
      /\ step[p] = "deleteMirror" => p \notin mirror'
  BY DEF Probe!DropSchema, Probe!DeleteEvents, Probe!DeleteMerchant, ProbeInv, ProbeTypeOK
<1>4. ProbeTypeOK'
  BY <1>1, <1>2, StatementDone DEF ProbeInv, ProbeTypeOK
<1>5. \A q \in Runs : q # p => Untouched(q)
  BY <1>1, <1>2, StatementDone DEF Untouched
<1>6. KnowsItsMerchant(p)'
  <2>1. p \in recognised /\ <<p, "create">> \notin unanswered
    BY <1>1 DEF ProbeInv, RunSound, KnowsItsMerchant, Cleaning
  <2> QED  BY <1>1, <2>1, StatementDone DEF KnowsItsMerchant, Before, Testing, Cleaning
<1>7. SyncedOnce(p)'
  BY <1>1, <1>2, StatementDone DEF ProbeInv, RunSound, SyncedOnce
<1>8. ASSUME cleanup'[p] \in {"pending", "ok"}  PROVE  StaysDeleted(p)'
  <2>1. StaysDeleted(p) /\ UNCHANGED synced
    BY <1>1, <1>8, StatementDone DEF ProbeInv, RunSound
  <2>2. CASE step[p] = "dropCore"
    BY <1>1, <1>2, <1>3, <2>1, <2>2, AfterStep, StatementDone DEF StaysDeleted
  <2>3. CASE step[p] = "deleteEvents"
    BY <1>1, <1>2, <1>3, <2>1, <2>3, AfterStep, StatementDone DEF StaysDeleted
  <2>4. CASE step[p] = "deleteMerchant"
    BY <1>1, <1>2, <1>3, <2>1, <2>4, AfterStep, StatementDone DEF StaysDeleted
  <2>5. CASE step[p] = "dropRead"
    BY <1>1, <1>2, <1>3, <2>1, <2>5, AfterStep, StatementDone DEF StaysDeleted
  <2>6. CASE step[p] = "deleteMirror"
    BY <1>1, <1>2, <1>3, <2>1, <2>6, AfterStep, StatementDone DEF StaysDeleted
  <2> QED  BY <1>1, <2>2, <2>3, <2>4, <2>5, <2>6 DEF Cleaning
<1>9. cleanup'[p] = "ok" => step'[p] = "over"
  BY <1>1, StatementDone
<1>10. RunSound(p)'
  BY <1>6, <1>7, <1>8, <1>9 DEF RunSound
<1> QED  BY <1>4, <1>5, <1>10, OneRunMoves

\* A statement that fails is noted, and the verdict is given.
LEMMA FailureKeeps ==
  ASSUME ProbeInv, NEW p \in Runs, Probe!StatementFails(p) \/ Probe!ConnectionFails(p)
  PROVE  ProbeInv'
<1>1. /\ step[p] \in Cleaning /\ cleanup' = [cleanup EXCEPT ![p] = "warning"]
      /\ UNCHANGED <<recognised, synced, unanswered, merchants, schemas, outbox, sync, readSchemas, mirror>>
  BY DEF Probe!StatementFails, Probe!ConnectionFails, Probe!Statements, Cleaning, Probe!coreVars, Probe!readVars
<1>2. PICK s \in Cleaning \cup {"over"} : Probe!To(p, s)
  BY <1>1, AfterStep DEF Probe!StatementFails, Probe!ConnectionFails, Cleaning
<1>3. /\ step' \in [Runs -> Before \cup Testing \cup Cleaning \cup {"over"}]
      /\ step'[p] = s /\ \A q \in Runs : q # p => step'[q] = step[q]
  BY <1>2, GoesTo
<1>4. /\ cleanup'[p] = "warning" /\ \A q \in Runs : q # p => cleanup'[q] = cleanup[q]
      /\ cleanup' \in [Runs -> {"pending", "skipped", "ok", "warning"}]
  BY <1>1 DEF ProbeInv, ProbeTypeOK
<1>5. ProbeTypeOK'
  BY <1>1, <1>3, <1>4 DEF ProbeInv, ProbeTypeOK
<1>6. \A q \in Runs : q # p => Untouched(q)
  BY <1>1, <1>3, <1>4 DEF Untouched
<1>7. p \in recognised /\ <<p, "create">> \notin unanswered
  BY <1>1 DEF ProbeInv, RunSound, KnowsItsMerchant, Cleaning
<1>8. KnowsItsMerchant(p)'
  BY <1>1, <1>2, <1>3, <1>7 DEF KnowsItsMerchant, Before, Testing, Cleaning
<1>9. RunSound(p)'
  BY <1>1, <1>4, <1>8 DEF ProbeInv, RunSound, SyncedOnce
<1> QED  BY <1>5, <1>6, <1>9, OneRunMoves

-----------------------------------------------------------------------------

LEMMA ProbeNextInvariant == ProbeInv /\ [ClientsNext]_clientsVars => ProbeInv'
<1> SUFFICES ASSUME ProbeInv, [ClientsNext]_clientsVars  PROVE  ProbeInv'
  OBVIOUS
<1>1. CASE UNCHANGED probeVars
  BY <1>1 DEF probeVars, ProbeInv, ProbeTypeOK, RunSound, KnowsItsMerchant, SyncedOnce, StaysDeleted
<1>2. CASE Probe!ProbeNext
  <2>1. ASSUME NEW p \in Runs, Probe!Probing(p)  PROVE  ProbeInv'
    BY <2>1, AnsweredKeeps, CallFailsKeeps, FetchMerchantKeeps, PollsKeep, StatementKeeps, FailureKeeps
    DEF Probe!Probing
  <2> QED  BY <1>2, <2>1, MonitorKeeps, ServeLateKeeps, PublisherKeeps, ConsumerKeeps DEF Probe!ProbeNext
<1> QED  BY <1>1, <1>2 DEF ClientsNext, SeedStep, ProbeStep, clientsVars

\* Every run knows its merchant or never will, and what it has deleted stays deleted.
THEOREM ProbeInvariantHolds == ClientsSpec => []ProbeInv
<1>1. ClientsInit => ProbeInv
  BY ProbeInitInvariant DEF ClientsInit
<1> QED  BY <1>1, ProbeNextInvariant, PTL DEF ClientsSpec

\* _cleanup_smoke says "ok" only when nothing of the merchant is left, nor ever comes
\* back: no late request, no batch of the publisher and no message brings it again.
THEOREM CleanReportsAreTrue == ClientsSpec => []CleanReportTrue
<1>1. ProbeInv => CleanReportTrue
  BY DEF ProbeInv, RunSound, StaysDeleted, CleanReportTrue
<1> QED  BY <1>1, ProbeInvariantHolds, PTL

-----------------------------------------------------------------------------
(* What a seeding knows of its own requests                                *)

Phases == {"idle", "merchants", "customers", "payments", "processing", "refunds", "done", "aborted"}
BeforeProcessing == {"idle", "merchants", "customers", "payments"}
Statuses == {"none", "created", "failed", "authorized", "captured", "settled"}
Moved == DOMAIN Target      \* the requests that move a payment
Created == {"customer", "payment", "full", "partial"}       \* those that make a row

\* What may be left of a plan.
PlansLeft ==
    {<<"merchant">>, <<"customer">>, <<"payment">>, <<"process">>, <<"capture">>,
     <<"capture", "settle">>, <<"settle">>} \cup Plans \cup RefundPlans

CustomersThere == {c \in SeedCustomers : customer[c] # "absent"}
RefundsThere == {r \in SeedRefunds : refund[r].state # "none"}

SeedTypeOK ==
    /\ customer \in [SeedCustomers -> {"absent", "live"}]
    /\ status \in [SeedPayments -> Statuses]
    /\ DOMAIN refund = SeedRefunds
    /\ had \in Nat /\ lost \in Nat
    /\ phase \in Phases
    /\ phase \in {"idle", "done", "aborted"} => todo = {}
    /\ sample \subseteq Opened
    /\ DOMAIN slot = Tasks
    /\ \A t \in Busy : /\ slot[t] = [plan |-> slot[t].plan, on |-> slot[t].on, tries |-> slot[t].tries]
                       /\ slot[t].plan \in PlansLeft
    /\ DOMAIN told = Moved \cup {"customer", "payment", "refund", "process"}

\* What is counted is there; a payment counted under a request is where that took it.
ToldTrue ==
    /\ told["customer"] \subseteq CustomersThere
    /\ told["payment"] \subseteq Opened
    /\ told["refund"] \subseteq RefundsThere
    /\ \A op \in Moved : \A p \in told[op] : p \in SeedPayments /\ status[p] = Target[op]

\* The requests on a payment that may still be served late.
LateOn(p) == {o \in Moved : \E q \in late : q.op = o /\ q.on = p}

\* What a request that is on its way can have left unanswered before it.
UpTo == [fail |-> {"fail"}, authorize |-> {"authorize"}, capture |-> {"authorize", "capture"},
         settle |-> {"authorize", "capture", "settle"}]

Moving(t) == slot[t] # Idle /\ Head(slot[t].plan) \in Moved

\* A payment is moved by one task, in the order of its plan, and counted at the end of
\* it, when nothing that may still be served can move it on.
OneTaskMoves ==
    \A t \in Tasks : Moving(t) =>
        /\ phase = "processing" /\ slot[t].on \in Opened /\ slot[t].on \notin todo
        /\ \A u \in Tasks : Moving(u) /\ u # t => slot[u].on # slot[t].on
        /\ LateOn(slot[t].on) \subseteq UpTo[Head(slot[t].plan)]
        /\ \A op \in Moved : slot[t].on \notin told[op]

NotYetMoved ==
    /\ phase = "processing" =>
         \A p \in todo : p \in Opened /\ LateOn(p) = {} /\ \A op \in Moved : p \notin told[op]
    /\ phase \in BeforeProcessing =>
         /\ \A op \in Moved : told[op] = {}
         /\ \A q \in late : q.op \notin Moved

CountedAtTheEnd ==
    \A op \in Moved : \A p \in told[op] : \A o \in LateOn(p) : <<Target[op], Target[o]>> \notin Write!Moves

\* A row that is not counted was there before, or was made by a request that is not
\* late any more.
RowsAccounted ==
    /\ IsFiniteSet(CustomersThere) /\ IsFiniteSet(Opened) /\ IsFiniteSet(RefundsThere)
    /\ IsFiniteSet(late)
    /\ Existing + Cardinality(late) <= 2 * had + Counted + lost

SeedInv ==
    /\ SeedTypeOK /\ ToldTrue
    /\ OneTaskMoves /\ NotYetMoved /\ CountedAtTheEnd
    /\ RowsAccounted

LEMMA MovedAre ==
  /\ Moved = {"fail", "authorize", "capture", "settle"}
  /\ Target["fail"] = "failed" /\ Target["authorize"] = "authorized"
  /\ Target["capture"] = "captured" /\ Target["settle"] = "settled"
  /\ \A op \in Moved : Target[op] \in Statuses \ {"none", "created"}
<1>1. Moved = {"fail", "authorize", "capture", "settle"}
  BY DEF Moved, Target
<1>2. /\ Target["fail"] = "failed" /\ Target["authorize"] = "authorized"
      /\ Target["capture"] = "captured" /\ Target["settle"] = "settled"
  BY DEF Target
<1> QED  BY <1>1, <1>2 DEF Statuses

LEMMA UpToAre ==
  /\ UpTo["fail"] = {"fail"} /\ UpTo["authorize"] = {"authorize"}
  /\ UpTo["capture"] = {"authorize", "capture"} /\ UpTo["settle"] = {"authorize", "capture", "settle"}
  BY DEF UpTo

\* What a request on its way has left unanswered cannot go on from where it ends.
LEMMA NothingFollows ==
  \A op \in Moved : op \in UpTo[op] /\ \A o \in UpTo[op] : <<Target[op], Target[o]>> \notin Write!Moves
<1> USE DEF Write!Moves
<1>1. \A o \in UpTo["fail"] : <<Target["fail"], Target[o]>> \notin Write!Moves
  BY MovedAre, UpToAre
<1>2. \A o \in UpTo["authorize"] : <<Target["authorize"], Target[o]>> \notin Write!Moves
  BY MovedAre, UpToAre
<1>3. \A o \in UpTo["capture"] : <<Target["capture"], Target[o]>> \notin Write!Moves
  BY MovedAre, UpToAre
<1>4. \A o \in UpTo["settle"] : <<Target["settle"], Target[o]>> \notin Write!Moves
  BY MovedAre, UpToAre
<1> QED  BY <1>1, <1>2, <1>3, <1>4, MovedAre, UpToAre

\* What a plan goes on with: a payment's moves in their order, a refund with its processing.
PlanSound(plan) ==
    /\ Head(plan) \in Moved \cup Created \cup {"merchant", "process"}
    /\ Head(plan) \in {"customer", "payment", "merchant", "process"} => Len(plan) = 1
    /\ Len(plan) # 1 =>
         /\ Tail(plan) \in PlansLeft
         /\ \/ /\ {Head(plan), Head(Tail(plan))} \subseteq Moved
               /\ UpTo[Head(plan)] \subseteq UpTo[Head(Tail(plan))]
            \/ Head(plan) \in {"full", "partial"} /\ Head(Tail(plan)) = "process"

LEMMA PlansSound == \A plan \in PlansLeft : PlanSound(plan)
<1>1. ASSUME NEW op \in Moved \cup Created \cup {"merchant", "process"}  PROVE  PlanSound(<<op>>)
  <2>1. Head(<<op>>) = op /\ Len(<<op>>) = 1
    OBVIOUS
  <2> QED  BY <1>1, <2>1 DEF PlanSound
<1>2. ASSUME NEW plan \in PlansLeft, Len(plan) = 2 \/ Len(plan) = 3, Tail(plan) \in PlansLeft,
             \/ Head(plan) \in {"full", "partial"} /\ Head(Tail(plan)) = "process"
             \/ /\ Head(plan) \in Moved /\ Head(Tail(plan)) \in Moved
                /\ UpTo[Head(plan)] \subseteq UpTo[Head(Tail(plan))]
      PROVE  PlanSound(plan)
  <2>1. Head(plan) \notin {"customer", "payment", "merchant", "process"}
    BY <1>2, MovedAre
  <2>2. Head(plan) \in Moved \cup Created
    BY <1>2 DEF Created
  <2> QED  BY ONLY <1>2, <2>1, <2>2 DEF PlanSound
<1>3. \A op : PlanSound(<<op, "process">>) \/ op \notin {"full", "partial"}
  <2> SUFFICES ASSUME NEW op \in {"full", "partial"}  PROVE  PlanSound(<<op, "process">>)
    OBVIOUS
  <2> DEFINE plan == <<op, "process">>
  <2>1. Len(plan) = 2 /\ Head(plan) = op /\ Tail(plan) = <<"process">> /\ Head(<<"process">>) = "process"
    OBVIOUS
  <2>2. plan \in PlansLeft /\ <<"process">> \in PlansLeft
    BY DEF PlansLeft, RefundPlans
  <2> HIDE DEF plan
  <2>3. PlanSound(plan)
    <3>1. Tail(plan) \in PlansLeft /\ Head(Tail(plan)) = "process" /\ Head(plan) \in {"full", "partial"}
      BY <2>1, <2>2
    <3> QED  BY <1>2, <2>1, <2>2, <3>1
  <2> QED  BY <2>3 DEF plan
<1>4. PlanSound(<<"authorize", "capture">>)
  <2> DEFINE plan == <<"authorize", "capture">>
  <2>1. /\ Len(plan) = 2 /\ Head(plan) = "authorize"
        /\ Tail(plan) = <<"capture">> /\ Head(<<"capture">>) = "capture"
    OBVIOUS
  <2>2. plan \in PlansLeft /\ <<"capture">> \in PlansLeft
    BY DEF PlansLeft, Plans
  <2> HIDE DEF plan
  <2>3. PlanSound(plan)
    <3>1. Tail(plan) \in PlansLeft /\ Head(Tail(plan)) = "capture"
      BY <2>1, <2>2
    <3>2. UpTo[Head(plan)] \subseteq UpTo[Head(Tail(plan))]
      BY <2>1, <3>1, UpToAre
    <3> QED  BY <1>2, <2>1, <2>2, <3>1, <3>2, MovedAre
  <2> QED  BY <2>3 DEF plan
<1>5. PlanSound(<<"capture", "settle">>)
  <2> DEFINE plan == <<"capture", "settle">>
  <2>1. /\ Len(plan) = 2 /\ Head(plan) = "capture"
        /\ Tail(plan) = <<"settle">> /\ Head(<<"settle">>) = "settle"
    OBVIOUS
  <2>2. plan \in PlansLeft /\ <<"settle">> \in PlansLeft
    BY DEF PlansLeft, Plans
  <2> HIDE DEF plan
  <2>3. PlanSound(plan)
    <3>1. Tail(plan) \in PlansLeft /\ Head(Tail(plan)) = "settle"
      BY <2>1, <2>2
    <3>2. UpTo[Head(plan)] \subseteq UpTo[Head(Tail(plan))]
      BY <2>1, <3>1, UpToAre
    <3> QED  BY <1>2, <2>1, <2>2, <3>1, <3>2, MovedAre
  <2> QED  BY <2>3 DEF plan
<1>6. PlanSound(<<"authorize", "capture", "settle">>)
  <2> DEFINE plan == <<"authorize", "capture", "settle">>
  <2>1. /\ Len(plan) = 3 /\ Head(plan) = "authorize"
        /\ Tail(plan) = <<"capture", "settle">> /\ Head(<<"capture", "settle">>) = "capture"
    OBVIOUS
  <2>2. plan \in PlansLeft /\ <<"capture", "settle">> \in PlansLeft
    BY DEF PlansLeft, Plans
  <2> HIDE DEF plan
  <2>3. PlanSound(plan)
    <3>1. Tail(plan) \in PlansLeft /\ Head(Tail(plan)) = "capture"
      BY <2>1, <2>2
    <3>2. UpTo[Head(plan)] \subseteq UpTo[Head(Tail(plan))]
      BY <2>1, <3>1, UpToAre
    <3> QED  BY <1>2, <2>1, <2>2, <3>1, <3>2, MovedAre
  <2> QED  BY <2>3 DEF plan
<1>7. PlansLeft =
        {<<"merchant">>, <<"customer">>, <<"payment">>, <<"process">>, <<"capture">>, <<"settle">>,
         <<"fail">>, <<"authorize">>, <<"full">>, <<"partial">>,
         <<"capture", "settle">>, <<"authorize", "capture">>, <<"authorize", "capture", "settle">>,
         <<"full", "process">>, <<"partial", "process">>}
  BY DEF PlansLeft, Plans, RefundPlans
<1> QED  BY <1>1, <1>3, <1>4, <1>5, <1>6, <1>7, MovedAre DEF Created

LEMMA LeastOf == ASSUME NEW S \in SUBSET Nat, S # {}  PROVE  Min(S) \in S
<1>1. PICK m \in S : \A x \in S : ~ (<<x, m>> \in OpToRel(<, Nat))
  BY NatLessThanWellFounded, WFMin
<1>2. \A x \in S : m <= x
  <2> SUFFICES ASSUME NEW x \in S  PROVE  m <= x
    OBVIOUS
  <2>1. ~ (x < m)
    BY <1>1 DEF OpToRel
  <2> QED  BY <2>1
<1> QED  BY <1>2 DEF Min

-----------------------------------------------------------------------------
(* What a request that is served does                                      *)

LEMMA NewRows ==
  /\ UnusedCustomers # {} => NewCustomer \in SeedCustomers \ CustomersThere
  /\ UnusedPayments # {} => NewPayment \in SeedPayments \ Opened
  /\ UnusedRefunds # {} => NewRefund \in SeedRefunds \ RefundsThere
<1>1. UnusedCustomers \in SUBSET Nat /\ UnusedPayments \in SUBSET Nat /\ UnusedRefunds \in SUBSET Nat
  BY NumbersAssumption DEF UnusedCustomers, UnusedPayments, UnusedRefunds
<1>2. UnusedCustomers # {} => NewCustomer \in UnusedCustomers
  BY <1>1, LeastOf DEF NewCustomer
<1>3. UnusedPayments # {} => NewPayment \in UnusedPayments
  BY <1>1, LeastOf DEF NewPayment
<1>4. UnusedRefunds # {} => NewRefund \in UnusedRefunds
  BY <1>1, LeastOf DEF NewRefund
<1> QED  BY <1>2, <1>3, <1>4
         DEF UnusedCustomers, UnusedPayments, UnusedRefunds, CustomersThere, Opened, RefundsThere

\* The types of the tenant's tables.
TenantTypeOK ==
    /\ customer \in [SeedCustomers -> {"absent", "live"}]
    /\ status \in [SeedPayments -> Statuses]
    /\ DOMAIN refund = SeedRefunds

Rows == <<CustomersThere, Opened, RefundsThere>>

\* What serving op on a row comes to: at most one row is made, or one payment moved.
LEMMA ServedMerchant ==
  ASSUME TenantTypeOK, UNCHANGED lifecycle
  PROVE  TenantTypeOK' /\ UNCHANGED Rows /\ UNCHANGED status
  BY DEF lifecycle, TenantTypeOK, Rows, CustomersThere, Opened, RefundsThere

LEMMA ServedCustomer ==
  ASSUME TenantTypeOK, UnusedCustomers # {}, Write!AddCustomer(NewCustomer)
  PROVE  /\ TenantTypeOK' /\ UNCHANGED <<Opened, RefundsThere, status>>
         /\ NewCustomer \notin CustomersThere /\ CustomersThere' = CustomersThere \cup {NewCustomer}
<1>1. /\ customer' = [customer EXCEPT ![NewCustomer] = "live"] /\ UNCHANGED <<status, refund>>
      /\ NewCustomer \in SeedCustomers \ CustomersThere
  BY NewRows DEF Write!AddCustomer
<1> HIDE DEF NewCustomer
<1>2. /\ customer' \in [SeedCustomers -> {"absent", "live"}]
      /\ \A c \in SeedCustomers : customer'[c] = IF c = NewCustomer THEN "live" ELSE customer[c]
  BY <1>1 DEF TenantTypeOK
<1> QED  BY <1>1, <1>2 DEF TenantTypeOK, CustomersThere, Opened, RefundsThere

LEMMA ServedPayment ==
  ASSUME TenantTypeOK, NEW on, UnusedPayments # {}, Write!OpenPayment(NewPayment, on, Price)
  PROVE  /\ TenantTypeOK' /\ UNCHANGED <<CustomersThere, RefundsThere>>
         /\ NewPayment \in SeedPayments \ Opened /\ Opened' = Opened \cup {NewPayment}
         /\ \A p \in Opened : status'[p] = status[p]
<1>1. /\ status' = [status EXCEPT ![NewPayment] = "created"] /\ UNCHANGED <<customer, refund>>
      /\ NewPayment \in SeedPayments \ Opened
  BY NewRows DEF Write!OpenPayment
<1> HIDE DEF NewPayment
<1>2. /\ status' \in [SeedPayments -> Statuses]
      /\ \A p \in SeedPayments : status'[p] = IF p = NewPayment THEN "created" ELSE status[p]
  BY <1>1 DEF TenantTypeOK, Statuses
<1> QED  BY <1>1, <1>2 DEF TenantTypeOK, CustomersThere, Opened, RefundsThere

LEMMA ServedMove ==
  ASSUME TenantTypeOK, NEW op \in Moved, NEW on, Write!MovePayment(on, Target[op])
  PROVE  /\ TenantTypeOK' /\ UNCHANGED Rows
         /\ <<status[on], Target[op]>> \in Write!Moves
         /\ \A p \in SeedPayments : status'[p] = IF p = on THEN Target[op] ELSE status[p]
<1>1. /\ status' = [status EXCEPT ![on] = Target[op]] /\ UNCHANGED <<customer, refund>>
      /\ <<status[on], Target[op]>> \in Write!Moves
  BY DEF Write!MovePayment
<1>2. status[on] # "none" /\ Target[op] \in Statuses /\ Target[op] # "none"
  BY <1>1, MovedAre DEF Write!Moves
<1>3. /\ status' \in [SeedPayments -> Statuses]
      /\ \A p \in SeedPayments : status'[p] = IF p = on THEN Target[op] ELSE status[p]
  BY <1>1, <1>2 DEF TenantTypeOK
<1> QED  BY <1>1, <1>2, <1>3 DEF TenantTypeOK, Rows, CustomersThere, Opened, RefundsThere

LEMMA ServedRefund ==
  ASSUME TenantTypeOK, NEW on, NEW part, UnusedRefunds # {}, Write!IssueRefund(NewRefund, on, part)
  PROVE  /\ TenantTypeOK' /\ UNCHANGED <<CustomersThere, Opened, status>>
         /\ NewRefund \notin RefundsThere /\ RefundsThere' = RefundsThere \cup {NewRefund}
<1>1. /\ refund' = [refund EXCEPT ![NewRefund] = [state |-> "initiated", payment |-> on, amount |-> part]]
      /\ UNCHANGED <<customer, status>>
      /\ NewRefund \in SeedRefunds \ RefundsThere
  BY NewRows DEF Write!IssueRefund
<1> HIDE DEF NewRefund
<1>2. /\ DOMAIN refund' = SeedRefunds
      /\ \A r \in SeedRefunds : refund'[r].state = IF r = NewRefund THEN "initiated" ELSE refund[r].state
  BY <1>1 DEF TenantTypeOK
<1> QED  BY <1>1, <1>2 DEF TenantTypeOK, CustomersThere, Opened, RefundsThere

LEMMA ServedProcess ==
  ASSUME TenantTypeOK, NEW on, Write!ProcessRefund(on)
  PROVE  TenantTypeOK' /\ UNCHANGED Rows /\ UNCHANGED status
<1>1. /\ refund' = [refund EXCEPT ![on] = [state |-> "processed", payment |-> refund[on].payment,
                                           amount |-> refund[on].amount]]
      /\ UNCHANGED <<customer, status>> /\ refund[on].state = "initiated"
  BY DEF Write!ProcessRefund
<1>2. /\ DOMAIN refund' = SeedRefunds
      /\ \A r \in SeedRefunds : refund'[r].state = IF r = on THEN "processed" ELSE refund[r].state
  BY <1>1 DEF TenantTypeOK
<1> QED  BY <1>1, <1>2 DEF TenantTypeOK, Rows, CustomersThere, Opened, RefundsThere

\* What the serving of one request makes of the tables: one row, one move or neither.
OneRowOrMove(op, on) ==
    /\ TenantTypeOK'
    /\ op \in Moved \cup Created \cup {"merchant", "process"}
    /\ IF op = "customer" THEN /\ NewCustomer \notin CustomersThere
                               /\ CustomersThere' = CustomersThere \cup {NewCustomer}
       ELSE CustomersThere' = CustomersThere
    /\ IF op = "payment" THEN NewPayment \notin Opened /\ Opened' = Opened \cup {NewPayment}
       ELSE Opened' = Opened
    /\ IF op \in {"full", "partial"} THEN /\ NewRefund \notin RefundsThere
                                          /\ RefundsThere' = RefundsThere \cup {NewRefund}
       ELSE RefundsThere' = RefundsThere
    /\ op \in Moved => <<status[on], Target[op]>> \in Write!Moves
    /\ \A p \in Opened : status'[p] = IF op \in Moved /\ p = on THEN Target[op] ELSE status[p]

LEMMA Served ==
  ASSUME TenantTypeOK, NEW op, NEW on, Serve(op, on)
  PROVE  OneRowOrMove(op, on)
<1>0. /\ Moved = {"fail", "authorize", "capture", "settle"} /\ Moved = DOMAIN Target
      /\ Opened \subseteq SeedPayments
  BY MovedAre DEF Moved, Opened
<1>1. CASE op = "merchant" /\ UNCHANGED lifecycle
  BY <1>0, <1>1, ServedMerchant DEF OneRowOrMove, Rows, Created
<1>2. CASE op = "customer" /\ UnusedCustomers # {} /\ Write!AddCustomer(NewCustomer)
  BY <1>0, <1>2, ServedCustomer DEF OneRowOrMove, Created
<1>3. CASE op = "payment" /\ UnusedPayments # {} /\ Write!OpenPayment(NewPayment, on, Price)
  BY <1>0, <1>3, ServedPayment DEF OneRowOrMove, Created
<1>4. CASE op \in DOMAIN Target /\ Write!MovePayment(on, Target[op])
  BY <1>0, <1>4, ServedMove DEF OneRowOrMove, Rows
<1>5. CASE op \in {"full", "partial"} /\ UnusedRefunds # {} /\ Write!IssueRefund(NewRefund, on, Part(op, on))
  BY <1>0, <1>5, ServedRefund DEF OneRowOrMove, Created
<1>6. CASE op = "process" /\ Write!ProcessRefund(on)
  BY <1>0, <1>6, ServedProcess DEF OneRowOrMove, Rows, Created
<1> QED  BY <1>1, <1>2, <1>3, <1>4, <1>5, <1>6 DEF Serve

RowsFinite == IsFiniteSet(CustomersThere) /\ IsFiniteSet(Opened) /\ IsFiniteSet(RefundsThere)

LEMMA ExistingIs ==
  /\ Existing = Cardinality(CustomersThere) + Cardinality(Opened) + Cardinality(RefundsThere)
  /\ RowsFinite => Existing \in Nat
<1>1. Existing = Cardinality(CustomersThere) + Cardinality(Opened) + Cardinality(RefundsThere)
  BY DEF Existing, CustomersThere, Opened, RefundsThere
<1> QED  BY <1>1, FS_CardinalityType DEF RowsFinite

LEMMA CountedIs ==
  ASSUME ToldTrue, RowsFinite
  PROVE  /\ IsFiniteSet(told["customer"]) /\ IsFiniteSet(told["payment"]) /\ IsFiniteSet(told["refund"])
         /\ Counted \in Nat
<1>1. /\ IsFiniteSet(told["customer"]) /\ IsFiniteSet(told["payment"]) /\ IsFiniteSet(told["refund"])
  BY FS_Subset DEF ToldTrue, RowsFinite
<1> QED  BY <1>1, FS_CardinalityType DEF Counted

\* A request that is served makes a row if it is one that creates, and no other.
LEMMA ServedCounts ==
  ASSUME RowsFinite, NEW op, NEW on, OneRowOrMove(op, on)
  PROVE  RowsFinite' /\ Existing' = Existing + (IF op \in Created THEN 1 ELSE 0)
<1>0. /\ Cardinality(CustomersThere) \in Nat /\ Cardinality(Opened) \in Nat
      /\ Cardinality(RefundsThere) \in Nat
  BY FS_CardinalityType DEF RowsFinite
<1>1. Existing' = Cardinality(CustomersThere') + Cardinality(Opened') + Cardinality(RefundsThere')
  BY DEF Existing, CustomersThere, Opened, RefundsThere
<1>2. /\ IsFiniteSet(CustomersThere')
      /\ Cardinality(CustomersThere') = Cardinality(CustomersThere) + IF op = "customer" THEN 1 ELSE 0
  <2>1. CASE op = "customer"
    BY <2>1, FS_AddElement DEF OneRowOrMove, RowsFinite
  <2>2. CASE op # "customer"
    BY <1>0, <2>2 DEF OneRowOrMove, RowsFinite
  <2> QED  BY <2>1, <2>2
<1>3. /\ IsFiniteSet(Opened')
      /\ Cardinality(Opened') = Cardinality(Opened) + IF op = "payment" THEN 1 ELSE 0
  <2>1. CASE op = "payment"
    BY <2>1, FS_AddElement DEF OneRowOrMove, RowsFinite
  <2>2. CASE op # "payment"
    BY <1>0, <2>2 DEF OneRowOrMove, RowsFinite
  <2> QED  BY <2>1, <2>2
<1>4. /\ IsFiniteSet(RefundsThere')
      /\ Cardinality(RefundsThere') =
           Cardinality(RefundsThere) + IF op \in {"full", "partial"} THEN 1 ELSE 0
  <2>1. CASE op \in {"full", "partial"}
    BY <2>1, FS_AddElement DEF OneRowOrMove, RowsFinite
  <2>2. CASE op \notin {"full", "partial"}
    BY <1>0, <2>2 DEF OneRowOrMove, RowsFinite
  <2> QED  BY <2>1, <2>2
<1> QED  BY <1>0, <1>1, <1>2, <1>3, <1>4, ExistingIs DEF RowsFinite, Created

\* What has been counted is still true of the tables that a step leaves behind.
ToldStill ==
    /\ told["customer"] \subseteq CustomersThere'
    /\ told["payment"] \subseteq Opened'
    /\ told["refund"] \subseteq RefundsThere'
    /\ \A op \in Moved : \A p \in told[op] : p \in SeedPayments /\ status'[p] = Target[op]

LEMMA ServedTold ==
  ASSUME ToldTrue, NEW op, NEW on, OneRowOrMove(op, on),
         op \in Moved =>
            \A o \in Moved : on \in told[o] => <<Target[o], Target[op]>> \notin Write!Moves
  PROVE  ToldStill
<1>1. \A o \in Moved : \A p \in told[o] : p \in Opened
  BY MovedAre DEF ToldTrue, Opened
<1>2. ASSUME NEW o \in Moved, NEW p \in told[o]  PROVE  p \in SeedPayments /\ status'[p] = Target[o]
  <2>1. ~ (op \in Moved /\ p = on)
    BY <1>2 DEF ToldTrue, OneRowOrMove
  <2>2. p \in Opened /\ p \in SeedPayments /\ status[p] = Target[o]
    BY <1>1, <1>2 DEF ToldTrue
  <2> QED  BY <2>1, <2>2 DEF OneRowOrMove
<1>3. CustomersThere \subseteq CustomersThere' /\ Opened \subseteq Opened' /\ RefundsThere \subseteq RefundsThere'
  BY DEF OneRowOrMove
<1> QED  BY <1>2, <1>3 DEF ToldStill, ToldTrue

-----------------------------------------------------------------------------
(* What keeps to the order of the requests                                 *)

\* A step that leaves the client alone, and late requests only fewer.
LEMMA Calm ==
  ASSUME OneTaskMoves, NotYetMoved, CountedAtTheEnd,
         UNCHANGED <<slot, phase, todo, told>>, Opened \subseteq Opened', late' \subseteq late
  PROVE  OneTaskMoves' /\ NotYetMoved' /\ CountedAtTheEnd'
<1>1. \A p : LateOn(p)' \subseteq LateOn(p)
  BY DEF LateOn
<1>2. \A t \in Tasks : Moving(t)' <=> Moving(t)
  BY DEF Moving
<1>3. OneTaskMoves'
  <2> SUFFICES ASSUME NEW t \in Tasks, Moving(t)'
               PROVE  /\ (phase = "processing" /\ slot[t].on \in Opened /\ slot[t].on \notin todo)'
                      /\ \A u \in Tasks : Moving(u)' /\ u # t => slot'[u].on # slot'[t].on
                      /\ LateOn(slot[t].on)' \subseteq UpTo[Head(slot'[t].plan)]
                      /\ \A op \in Moved : slot'[t].on \notin told'[op]
    BY DEF OneTaskMoves
  <2>1. LateOn(slot[t].on)' \subseteq LateOn(slot[t].on)
    BY DEF LateOn
  <2> QED  BY <1>2, <2>1 DEF OneTaskMoves
<1>4. NotYetMoved'
  <2>1. ASSUME phase' = "processing", NEW p \in todo'
        PROVE  p \in Opened' /\ LateOn(p)' = {} /\ \A op \in Moved : p \notin told'[op]
    BY <1>1, <2>1 DEF NotYetMoved
  <2>2. ASSUME phase' \in BeforeProcessing
        PROVE  (\A op \in Moved : told'[op] = {}) /\ (\A q \in late' : q.op \notin Moved)
    BY <2>2 DEF NotYetMoved
  <2> QED  BY <2>1, <2>2 DEF NotYetMoved
<1>5. CountedAtTheEnd'
  BY <1>1 DEF CountedAtTheEnd
<1> QED  BY <1>3, <1>4, <1>5

LEMMA SeedTypes == SeedTypeOK => TenantTypeOK
  BY DEF SeedTypeOK, TenantTypeOK

LEMMA LateServeKeeps == ASSUME SeedInv, LateServe  PROVE  SeedInv'
<1>1. PICK q \in late : Serve(q.op, q.on) /\ late' = late \ {q}
  BY DEF LateServe
<1>2. UNCHANGED <<had, phase, todo, slot, known, sample, told, lost>>
  BY DEF LateServe
<1>3. OneRowOrMove(q.op, q.on)
  BY <1>1, Served, SeedTypes DEF SeedInv
<1>4. ToldStill
  <2>1. ASSUME q.op \in Moved, NEW o \in Moved, q.on \in told[o]
        PROVE  <<Target[o], Target[q.op]>> \notin Write!Moves
    <3>1. q.op \in LateOn(q.on)
      BY <2>1 DEF LateOn
    <3> QED  BY <2>1, <3>1 DEF SeedInv, CountedAtTheEnd
  <2> QED  BY <1>3, <2>1, ServedTold DEF SeedInv
<1>5. Opened \subseteq Opened' /\ TenantTypeOK'
  BY <1>3 DEF OneRowOrMove
<1>6. SeedTypeOK'
  BY <1>2, <1>5 DEF SeedInv, SeedTypeOK, TenantTypeOK, Busy, Idle
<1>7. ToldTrue'
  BY <1>2, <1>4 DEF ToldStill, ToldTrue
<1>8. OneTaskMoves' /\ NotYetMoved' /\ CountedAtTheEnd'
  BY <1>1, <1>2, <1>5, Calm DEF SeedInv
<1>9. RowsAccounted'
  <2>1. RowsFinite' /\ Existing' <= Existing + 1 /\ Existing \in Nat /\ Existing' \in Nat
    BY <1>3, ServedCounts, ExistingIs DEF SeedInv, RowsAccounted, RowsFinite
  <2>2. /\ IsFiniteSet(late') /\ Cardinality(late') = Cardinality(late) - 1
        /\ Cardinality(late) \in Nat
    BY <1>1, FS_RemoveElement, FS_CardinalityType DEF SeedInv, RowsAccounted
  <2>3. Counted' = Counted
    BY <1>2 DEF Counted
  <2>4. Existing' + Cardinality(late') <= Existing + Cardinality(late)
    BY <2>1, <2>2
  <2>5. Existing + Cardinality(late) <= 2 * had + Counted + lost
    BY DEF SeedInv, RowsAccounted
  <2>6. had \in Nat /\ lost \in Nat /\ Counted \in Nat /\ had' = had /\ lost' = lost
    BY <1>2, CountedIs DEF SeedInv, SeedTypeOK, RowsAccounted, RowsFinite
  <2>7. Existing' + Cardinality(late') <= 2 * had' + Counted' + lost'
    BY <2>1, <2>2, <2>3, <2>4, <2>5, <2>6
  <2> QED  BY <2>1, <2>2, <2>7 DEF RowsAccounted, RowsFinite
<1> QED  BY <1>6, <1>7, <1>8, <1>9 DEF SeedInv

\* What an answer adds to the results, and where it leaves the task.
LEMMA TellIs ==
  ASSUME DOMAIN told = Moved \cup {"customer", "payment", "refund", "process"}, NEW t, NEW row,
         PlanSound(slot[t].plan), Tell(t, row)
  PROVE  LET op == Head(slot[t].plan) IN
         /\ DOMAIN told' = Moved \cup {"customer", "payment", "refund", "process"}
         /\ told'["customer"] = told["customer"] \cup (IF op = "customer" THEN {row} ELSE {})
         /\ told'["payment"] = told["payment"] \cup (IF op = "payment" THEN {row} ELSE {})
         /\ told'["refund"] = told["refund"] \cup (IF op \in {"full", "partial"} THEN {row} ELSE {})
         /\ told'["process"] = told["process"] \cup (IF op = "process" THEN {row} ELSE {})
         /\ \A o \in Moved : told'[o] = told[o] \cup (IF o = op /\ Len(slot[t].plan) = 1 THEN {row} ELSE {})
<1> DEFINE op == Head(slot[t].plan)
           kind == IF op \in {"full", "partial"} THEN "refund" ELSE op
           counts == kind = "refund" \/ (op \in DOMAIN told /\ Len(slot[t].plan) = 1)
<1>1. told' = IF counts THEN [told EXCEPT ![kind] = @ \cup {row}] ELSE told
  BY DEF Tell
<1>2. op \in {"customer", "payment", "process"} => Len(slot[t].plan) = 1
  BY DEF PlanSound
<1>3. op # "refund"
  BY MovedAre DEF PlanSound, Created
<1>4. counts <=> \/ op \in {"full", "partial", "customer", "payment", "process"}
                 \/ op \in Moved /\ Len(slot[t].plan) = 1
  BY <1>2, <1>3, MovedAre
<1> HIDE DEF counts
<1>5. CASE counts
  <2>1. kind \in DOMAIN told
    BY <1>4, <1>5
  <2>2. DOMAIN told' = DOMAIN told /\ \A k \in DOMAIN told : told'[k] = told[k] \cup (IF k = kind THEN {row} ELSE {})
    <3> HIDE DEF kind
    <3> QED  BY <1>1, <1>5
  <2> QED  BY <1>3, <1>4, <1>5, <2>2, MovedAre
<1>6. CASE ~counts
  BY <1>1, <1>4, <1>6, MovedAre
<1> QED  BY <1>5, <1>6

LEMMA ContinueIs ==
  ASSUME DOMAIN slot = Tasks, NEW t \in Tasks, NEW row, Continue(t, row)
  PROVE  /\ DOMAIN slot' = Tasks
         /\ \A u \in Tasks : u # t => slot'[u] = slot[u]
         /\ slot'[t] = IF Len(slot[t].plan) = 1 THEN Idle
                       ELSE [plan |-> Tail(slot[t].plan), on |-> row, tries |-> 0]
  BY DEF Continue

\* What is known of the request a task has on its way.
LEMMA RequestSound ==
  ASSUME SeedInv, NEW t \in Busy
  PROVE  /\ t \in Tasks /\ slot[t] # Idle
         /\ slot[t].plan \in PlansLeft /\ PlanSound(slot[t].plan)
         /\ Head(slot[t].plan) \in Moved =>
              /\ Moving(t) /\ phase = "processing"
              /\ slot[t].on \in Opened /\ slot[t].on \notin todo
              /\ LateOn(slot[t].on) \subseteq UpTo[Head(slot[t].plan)]
              /\ \A o \in Moved : slot[t].on \notin told[o]
<1>1. t \in Tasks /\ slot[t] # Idle /\ slot[t].plan \in PlansLeft
  BY DEF SeedInv, SeedTypeOK, Busy
<1> QED  BY <1>1, PlansSound DEF SeedInv, OneTaskMoves, Moving

\* A row that is told of was not there before, so that it is counted once.
LEMMA SucceededCounts ==
  ASSUME SeedInv, NEW t \in Busy, Succeeded(t)
  PROVE  RowsAccounted'
<1> DEFINE op == Head(slot[t].plan)
           on == slot[t].on
<1>1. /\ Serve(op, on) /\ Tell(t, RowOf(op, on))
      /\ UNCHANGED <<had, late, lost>>
  BY DEF Succeeded, Request
<1>2. PlanSound(slot[t].plan) /\ DOMAIN told = Moved \cup {"customer", "payment", "refund", "process"}
  BY RequestSound DEF SeedInv, SeedTypeOK
<1>3. OneRowOrMove(op, on)
  BY <1>1, Served, SeedTypes DEF SeedInv
<1>4. /\ told'["customer"] = told["customer"] \cup (IF op = "customer" THEN {RowOf(op, on)} ELSE {})
      /\ told'["payment"] = told["payment"] \cup (IF op = "payment" THEN {RowOf(op, on)} ELSE {})
      /\ told'["refund"] = told["refund"] \cup (IF op \in {"full", "partial"} THEN {RowOf(op, on)} ELSE {})
  BY <1>1, <1>2, TellIs
<1>5. /\ op = "customer" => RowOf(op, on) = NewCustomer /\ NewCustomer \notin told["customer"]
      /\ op = "payment" => RowOf(op, on) = NewPayment /\ NewPayment \notin told["payment"]
      /\ op \in {"full", "partial"} => RowOf(op, on) = NewRefund /\ NewRefund \notin told["refund"]
  BY <1>3 DEF RowOf, OneRowOrMove, SeedInv, ToldTrue
<1> HIDE DEF op, on
<1>6. /\ IsFiniteSet(told["customer"]) /\ IsFiniteSet(told["payment"]) /\ IsFiniteSet(told["refund"])
      /\ RowsFinite /\ Existing \in Nat /\ Counted \in Nat
  BY CountedIs, ExistingIs DEF SeedInv, RowsAccounted, RowsFinite
<1>7. /\ Cardinality(told["customer"]) \in Nat /\ Cardinality(told["payment"]) \in Nat
      /\ Cardinality(told["refund"]) \in Nat
  BY <1>6, FS_CardinalityType
<1>8. Cardinality(told'["customer"]) = Cardinality(told["customer"]) + IF op = "customer" THEN 1 ELSE 0
  <2>1. CASE op = "customer"
    <3>1. told'["customer"] = told["customer"] \cup {NewCustomer} /\ NewCustomer \notin told["customer"]
      BY <1>4, <1>5, <2>1
    <3> QED  BY <1>6, <2>1, <3>1, FS_AddElement
  <2>2. CASE op # "customer"
    <3>1. told'["customer"] = told["customer"]
      BY <1>4, <2>2
    <3> QED  BY <1>7, <2>2, <3>1
  <2> QED  BY <2>1, <2>2
<1>9. Cardinality(told'["payment"]) = Cardinality(told["payment"]) + IF op = "payment" THEN 1 ELSE 0
  <2>1. CASE op = "payment"
    <3>1. told'["payment"] = told["payment"] \cup {NewPayment} /\ NewPayment \notin told["payment"]
      BY <1>4, <1>5, <2>1
    <3> QED  BY <1>6, <2>1, <3>1, FS_AddElement
  <2>2. CASE op # "payment"
    <3>1. told'["payment"] = told["payment"]
      BY <1>4, <2>2
    <3> QED  BY <1>7, <2>2, <3>1
  <2> QED  BY <2>1, <2>2
<1>10. Cardinality(told'["refund"]) =
          Cardinality(told["refund"]) + IF op \in {"full", "partial"} THEN 1 ELSE 0
  <2>1. CASE op \in {"full", "partial"}
    <3>1. told'["refund"] = told["refund"] \cup {NewRefund} /\ NewRefund \notin told["refund"]
      BY <1>4, <1>5, <2>1
    <3> QED  BY <1>6, <2>1, <3>1, FS_AddElement
  <2>2. CASE op \notin {"full", "partial"}
    <3>1. told'["refund"] = told["refund"]
      BY <1>4, <2>2
    <3> QED  BY <1>7, <2>2, <3>1
  <2> QED  BY <2>1, <2>2
<1>11. Counted' = Counted + IF op \in Created THEN 1 ELSE 0
  BY <1>7, <1>8, <1>9, <1>10 DEF Counted, Created
<1>12. RowsFinite' /\ Existing' = Existing + IF op \in Created THEN 1 ELSE 0
  BY <1>3, <1>6, ServedCounts
<1>13. /\ Existing + Cardinality(late) <= 2 * had + Counted + lost
       /\ IsFiniteSet(late) /\ Cardinality(late) \in Nat /\ had \in Nat /\ lost \in Nat
  BY FS_CardinalityType DEF SeedInv, RowsAccounted, SeedTypeOK
<1>14. late' = late /\ had' = had /\ lost' = lost
  BY <1>1
<1>15. Existing' + Cardinality(late') <= 2 * had' + Counted' + lost'
  BY <1>6, <1>11, <1>12, <1>13, <1>14
<1> QED  BY <1>12, <1>13, <1>14, <1>15 DEF RowsAccounted, RowsFinite

LEMMA SucceededOrder ==
  ASSUME SeedInv, NEW t \in Busy, Succeeded(t)
  PROVE  OneTaskMoves' /\ NotYetMoved' /\ CountedAtTheEnd'
<1> DEFINE plan == slot[t].plan
           op == Head(plan)
           on == slot[t].on
           row == RowOf(op, on)
<1>1. /\ Serve(op, on) /\ Tell(t, row) /\ Continue(t, row)
      /\ UNCHANGED <<phase, todo, late>>
  BY DEF Succeeded, Request
<1>2. /\ t \in Tasks /\ slot[t] # Idle /\ PlanSound(plan)
      /\ op \in Moved => /\ Moving(t) /\ phase = "processing" /\ on \in Opened /\ on \notin todo
                         /\ LateOn(on) \subseteq UpTo[op] /\ \A o \in Moved : on \notin told[o]
  BY RequestSound
<1>3. OneRowOrMove(op, on)
  BY <1>1, Served, SeedTypes DEF SeedInv
<1>4. Opened \subseteq Opened'
  BY <1>3 DEF OneRowOrMove
<1>5. op \in Moved => row = on
  BY MovedAre DEF RowOf
<1>6. \A o \in Moved : told'[o] = told[o] \cup (IF o = op /\ Len(plan) = 1 THEN {on} ELSE {})
  BY <1>1, <1>2, <1>5, TellIs DEF SeedInv, SeedTypeOK
<1>7. /\ \A u \in Tasks : u # t => slot'[u] = slot[u]
      /\ slot'[t] = IF Len(plan) = 1 THEN Idle ELSE [plan |-> Tail(plan), on |-> row, tries |-> 0]
  BY <1>1, <1>2, ContinueIs DEF SeedInv, SeedTypeOK
<1>8. \A p : LateOn(p)' = LateOn(p)
  BY <1>1 DEF LateOn
<1>9. Moving(t)' => /\ Len(plan) # 1 /\ op \in Moved /\ Head(slot'[t].plan) \in Moved
                    /\ slot'[t].on = on /\ UpTo[op] \subseteq UpTo[Head(slot'[t].plan)]
  <2> SUFFICES ASSUME Moving(t)'
               PROVE  /\ Len(plan) # 1 /\ op \in Moved /\ Head(slot'[t].plan) \in Moved
                      /\ slot'[t].on = on /\ UpTo[op] \subseteq UpTo[Head(slot'[t].plan)]
    OBVIOUS
  <2>1. slot'[t] # Idle /\ Head(slot'[t].plan) \in Moved
    BY DEF Moving, Idle
  <2>2. Len(plan) # 1 /\ slot'[t].plan = Tail(plan) /\ slot'[t].on = row
    BY <1>7, <2>1
  <2>3. op \in Moved /\ UpTo[op] \subseteq UpTo[Head(Tail(plan))]
    BY <1>2, <2>1, <2>2, MovedAre DEF PlanSound
  <2> QED  BY <1>5, <2>1, <2>2, <2>3
<1>10. \A u \in Tasks : u # t => (Moving(u)' <=> Moving(u))
  BY <1>7 DEF Moving, Idle
<1> HIDE DEF plan, op, on, row
<1>11. OneTaskMoves'
  <2> SUFFICES ASSUME NEW u \in Tasks, Moving(u)'
               PROVE  /\ (phase = "processing" /\ slot[u].on \in Opened /\ slot[u].on \notin todo)'
                      /\ \A v \in Tasks : Moving(v)' /\ v # u => slot'[v].on # slot'[u].on
                      /\ LateOn(slot[u].on)' \subseteq UpTo[Head(slot'[u].plan)]
                      /\ \A o \in Moved : slot'[u].on \notin told'[o]
    BY DEF OneTaskMoves
  <2>1. \A v \in Tasks : Moving(v)' => Moving(v) /\ slot'[v].on = slot[v].on
    BY <1>2, <1>7, <1>9, <1>10 DEF on
  <2>2. /\ phase = "processing" /\ slot[u].on \in Opened /\ slot[u].on \notin todo
        /\ \A v \in Tasks : Moving(v) /\ v # u => slot[v].on # slot[u].on
        /\ LateOn(slot[u].on) \subseteq UpTo[Head(slot[u].plan)]
        /\ \A o \in Moved : slot[u].on \notin told[o]
    BY <2>1 DEF SeedInv, OneTaskMoves
  <2>3. UpTo[Head(slot[u].plan)] \subseteq UpTo[Head(slot'[u].plan)]
    BY <1>7, <1>9 DEF op, plan
  <2>4. \A o \in Moved : slot[u].on \notin told'[o]
    <3> SUFFICES ASSUME NEW o \in Moved, slot[u].on \in told'[o]  PROVE  FALSE
      OBVIOUS
    <3>1. o = op /\ Len(plan) = 1 /\ slot[u].on = on
      BY <1>6, <2>2
    <3>2. Moving(t) /\ u # t
      BY <1>2, <1>9, <3>1
    <3> QED  BY <1>2, <2>2, <3>1, <3>2 DEF on
  <2>5. LateOn(slot[u].on)' = LateOn(slot'[u].on)
    BY <1>1 DEF LateOn
  <2> QED  BY <1>1, <1>4, <2>1, <2>2, <2>3, <2>4, <2>5
<1>12. NotYetMoved'
  <2>1. ASSUME phase' = "processing", NEW p \in todo'
        PROVE  p \in Opened' /\ LateOn(p)' = {} /\ \A o \in Moved : p \notin told'[o]
    <3>1. phase = "processing" /\ p \in todo
      BY <1>1, <2>1
    <3>2. p \in Opened /\ LateOn(p) = {} /\ \A o \in Moved : p \notin told[o]
      BY <3>1 DEF SeedInv, NotYetMoved
    <3>3. \A o \in Moved : p \notin told'[o]
      BY <1>2, <1>6, <3>1, <3>2
    <3> QED  BY <1>4, <1>8, <3>2, <3>3
  <2>2. ASSUME phase' \in BeforeProcessing
        PROVE  (\A o \in Moved : told'[o] = {}) /\ (\A q \in late' : q.op \notin Moved)
    <3>1. op \notin Moved
      BY <1>1, <1>2, <2>2 DEF BeforeProcessing
    <3> QED  BY <1>1, <1>6, <2>2, <3>1 DEF SeedInv, NotYetMoved
  <2> QED  BY <2>1, <2>2 DEF NotYetMoved
<1>13. CountedAtTheEnd'
  <2> SUFFICES ASSUME NEW o \in Moved, NEW p \in told'[o], NEW k \in LateOn(p)'
               PROVE  <<Target[o], Target[k]>> \notin Write!Moves
    BY DEF CountedAtTheEnd
  <2>1. CASE p \in told[o]
    BY <1>8, <2>1 DEF SeedInv, CountedAtTheEnd
  <2>2. CASE p \notin told[o]
    <3>1. o = op /\ p = on
      BY <1>6, <2>2
    <3>2. k \in UpTo[op]
      BY <1>2, <1>8, <3>1
    <3> QED  BY <3>1, <3>2, NothingFollows
  <2> QED  BY <2>1, <2>2
<1> QED  BY <1>11, <1>12, <1>13

LEMMA SucceededKeeps == ASSUME SeedInv, NEW t \in Busy, Succeeded(t)  PROVE  SeedInv'
<1> DEFINE plan == slot[t].plan
           op == Head(plan)
           on == slot[t].on
           row == RowOf(op, on)
<1>1. /\ Serve(op, on) /\ Tell(t, row) /\ Continue(t, row)
      /\ UNCHANGED <<had, phase, todo, sample, lost>>
  BY DEF Succeeded, Request
<1>2. /\ t \in Tasks /\ plan \in PlansLeft /\ PlanSound(plan)
      /\ op \in Moved => on \in Opened /\ \A o \in Moved : on \notin told[o]
  BY RequestSound
<1>3. OneRowOrMove(op, on)
  BY <1>1, Served, SeedTypes DEF SeedInv
<1>4. /\ DOMAIN told' = Moved \cup {"customer", "payment", "refund", "process"}
      /\ told'["customer"] = told["customer"] \cup (IF op = "customer" THEN {row} ELSE {})
      /\ told'["payment"] = told["payment"] \cup (IF op = "payment" THEN {row} ELSE {})
      /\ told'["refund"] = told["refund"] \cup (IF op \in {"full", "partial"} THEN {row} ELSE {})
      /\ \A o \in Moved : told'[o] = told[o] \cup (IF o = op /\ Len(plan) = 1 THEN {row} ELSE {})
  BY <1>1, <1>2, TellIs DEF SeedInv, SeedTypeOK
<1>5. /\ DOMAIN slot' = Tasks
      /\ \A u \in Tasks : u # t => slot'[u] = slot[u]
      /\ slot'[t] = IF Len(plan) = 1 THEN Idle ELSE [plan |-> Tail(plan), on |-> row, tries |-> 0]
  BY <1>1, <1>2, ContinueIs DEF SeedInv, SeedTypeOK
<1>6. /\ op = "customer" => row = NewCustomer
      /\ op = "payment" => row = NewPayment
      /\ op \in {"full", "partial"} => row = NewRefund
      /\ op \in Moved => row = on
  BY MovedAre DEF RowOf
<1>7. Len(plan) # 1 => Tail(plan) \in PlansLeft
  BY <1>2 DEF PlanSound
<1> HIDE DEF plan, op, on, row
<1>8. SeedTypeOK'
  <2>1. ASSUME NEW u \in Busy'
        PROVE  /\ slot'[u] = [plan |-> slot'[u].plan, on |-> slot'[u].on, tries |-> slot'[u].tries]
               /\ slot'[u].plan \in PlansLeft
    <3>1. CASE u = t
      <4>1. slot'[t] # Idle
        BY <2>1, <3>1 DEF Busy, Idle
      <4>2. Len(plan) # 1 /\ slot'[t] = [plan |-> Tail(plan), on |-> row, tries |-> 0]
        BY <1>5, <4>1
      <4> QED  BY <1>7, <3>1, <4>2
    <3>2. CASE u # t
      <4>1. u \in Busy /\ slot'[u] = slot[u]
        BY <1>5, <2>1, <3>2 DEF Busy, Idle
      <4> QED  BY <4>1 DEF SeedInv, SeedTypeOK
    <3> QED  BY <3>1, <3>2
  <2>2. sample' \subseteq Opened'
    BY <1>1, <1>3 DEF SeedInv, SeedTypeOK, OneRowOrMove
  <2>3. TenantTypeOK'
    BY <1>3 DEF OneRowOrMove
  <2> QED  BY <1>1, <1>4, <1>5, <2>1, <2>2, <2>3 DEF SeedInv, SeedTypeOK, TenantTypeOK
<1>9. ToldTrue'
  <2>1. ToldStill
    BY <1>2, <1>3, ServedTold DEF SeedInv
  <2>2. told'["customer"] \subseteq CustomersThere'
    BY <1>3, <1>4, <1>6, <2>1 DEF ToldStill, OneRowOrMove
  <2>3. told'["payment"] \subseteq Opened'
    BY <1>3, <1>4, <1>6, <2>1 DEF ToldStill, OneRowOrMove
  <2>4. told'["refund"] \subseteq RefundsThere'
    BY <1>3, <1>4, <1>6, <2>1 DEF ToldStill, OneRowOrMove
  <2>5. ASSUME NEW o \in Moved, NEW p \in told'[o]  PROVE  p \in SeedPayments /\ status'[p] = Target[o]
    <3>1. CASE p \in told[o]
      BY <2>1, <3>1 DEF ToldStill
    <3>2. CASE p \notin told[o]
      <4>1. o = op /\ p = on /\ op \in Moved
        BY <1>4, <1>6, <2>5, <3>2
      <4>2. on \in Opened /\ on \in SeedPayments
        BY <1>2, <4>1 DEF Opened
      <4> QED  BY <1>3, <4>1, <4>2 DEF OneRowOrMove
    <3> QED  BY <3>1, <3>2
  <2> QED  BY <2>2, <2>3, <2>4, <2>5 DEF ToldTrue
<1> QED  BY <1>8, <1>9, SucceededOrder, SucceededCounts DEF SeedInv

-----------------------------------------------------------------------------
(* What is refused, or not answered                                        *)

LEMMA TryAgainIs ==
  ASSUME SeedInv, NEW t \in Busy, TryAgain(t)
  PROVE  /\ DOMAIN slot' = Tasks
         /\ \A u \in Tasks : u # t => slot'[u] = slot[u]
         /\ slot'[t] = [plan |-> slot[t].plan, on |-> slot[t].on, tries |-> slot[t].tries + 1]
<1>1. /\ t \in Tasks /\ DOMAIN slot = Tasks
      /\ slot[t] = [plan |-> slot[t].plan, on |-> slot[t].on, tries |-> slot[t].tries]
  BY DEF SeedInv, SeedTypeOK, Busy
<1>2. slot' = [slot EXCEPT ![t] = [slot[t] EXCEPT !.tries = slot[t].tries + 1]]
  BY DEF TryAgain
<1>3. [slot[t] EXCEPT !.tries = slot[t].tries + 1] =
         [plan |-> slot[t].plan, on |-> slot[t].on, tries |-> slot[t].tries + 1]
  BY <1>1
<1> QED  BY <1>1, <1>2, <1>3

LEMMA PlanNotEmpty == <<>> \notin PlansLeft
  BY DEF PlansLeft, Plans, RefundPlans

\* Nothing is counted, but perhaps a refund that was not processed as one that was.
SameCounts ==
    /\ DOMAIN told' = DOMAIN told
    /\ \A k \in DOMAIN told \ {"process"} : told'[k] = told[k]

LEMMA RefusedTold ==
  ASSUME SeedInv, NEW t \in Busy, Head(slot[t].plan) = "process", Tell(t, slot[t].on)
  PROVE  SameCounts /\ told'["process"] = told["process"] \cup {slot[t].on}
<1>1. PlanSound(slot[t].plan) /\ DOMAIN told = Moved \cup {"customer", "payment", "refund", "process"}
  BY RequestSound DEF SeedInv, SeedTypeOK
<1>2. /\ DOMAIN told' = Moved \cup {"customer", "payment", "refund", "process"}
      /\ told'["customer"] = told["customer"] /\ told'["payment"] = told["payment"]
      /\ told'["refund"] = told["refund"] /\ told'["process"] = told["process"] \cup {slot[t].on}
      /\ \A o \in Moved : told'[o] = told[o]
  <2> DEFINE op == Head(slot[t].plan)
             row == slot[t].on
  <2>1. /\ DOMAIN told' = Moved \cup {"customer", "payment", "refund", "process"}
        /\ told'["customer"] = told["customer"] \cup (IF op = "customer" THEN {row} ELSE {})
        /\ told'["payment"] = told["payment"] \cup (IF op = "payment" THEN {row} ELSE {})
        /\ told'["refund"] = told["refund"] \cup (IF op \in {"full", "partial"} THEN {row} ELSE {})
        /\ told'["process"] = told["process"] \cup (IF op = "process" THEN {row} ELSE {})
        /\ \A o \in Moved : told'[o] = told[o] \cup (IF o = op /\ Len(slot[t].plan) = 1 THEN {row} ELSE {})
    BY <1>1, TellIs
  <2>2. op = "process" /\ "process" \notin Moved
    BY MovedAre
  <2> HIDE DEF op
  <2>3. ASSUME NEW o \in Moved  PROVE  told'[o] = told[o]
    <3>1. o # op
      BY <2>2
    <3>2. told'[o] = told[o] \cup (IF o = op /\ Len(slot[t].plan) = 1 THEN {row} ELSE {})
      BY <2>1
    <3> QED  BY <3>1, <3>2
  <2>4. told'["customer"] = told["customer"] /\ told'["payment"] = told["payment"] /\ told'["refund"] = told["refund"]
    BY <2>1, <2>2
  <2>5. told'["process"] = told["process"] \cup {row}
    BY <2>1, <2>2
  <2> QED  BY <2>1, <2>3, <2>4, <2>5
<1> QED  BY <1>1, <1>2 DEF SameCounts

\* Whatever becomes of the task of one request, which may be late from now on, as long
\* as no task goes on to another one.
LEMMA StillInOrder ==
  ASSUME SeedInv, NEW t \in Busy, UNCHANGED <<tenantVars, phase, todo>>, SameCounts,
         late' \subseteq late \cup {GivenUp(t)},
         \A u \in Tasks : Moving(u)' => /\ Moving(u) /\ slot'[u].on = slot[u].on
                                        /\ slot'[u].plan = slot[u].plan
  PROVE  OneTaskMoves' /\ NotYetMoved' /\ CountedAtTheEnd'
<1>1. /\ t \in Tasks
      /\ Head(slot[t].plan) \in Moved =>
           /\ Moving(t) /\ phase = "processing"
           /\ slot[t].on \in Opened /\ slot[t].on \notin todo
           /\ LateOn(slot[t].on) \subseteq UpTo[Head(slot[t].plan)]
           /\ \A o \in Moved : slot[t].on \notin told[o]
  BY RequestSound
<1>2. GivenUp(t).op = Head(slot[t].plan) /\ GivenUp(t).on = slot[t].on
  BY DEF GivenUp
<1>3. ASSUME NEW p, NEW o \in LateOn(p)', o \notin LateOn(p)
      PROVE  o \in Moved /\ o = Head(slot[t].plan) /\ p = slot[t].on
  BY <1>2, <1>3 DEF LateOn
<1>4. Opened' = Opened
  BY DEF tenantVars, lifecycle, Opened
<1>0. \A o \in Moved : told'[o] = told[o]
  BY MovedAre DEF SameCounts, SeedInv, SeedTypeOK
<1>5. OneTaskMoves'
  <2> SUFFICES ASSUME NEW u \in Tasks, Moving(u)'
               PROVE  /\ (phase = "processing" /\ slot[u].on \in Opened /\ slot[u].on \notin todo)'
                      /\ \A v \in Tasks : Moving(v)' /\ v # u => slot'[v].on # slot'[u].on
                      /\ LateOn(slot[u].on)' \subseteq UpTo[Head(slot'[u].plan)]
                      /\ \A op \in Moved : slot'[u].on \notin told'[op]
    BY DEF OneTaskMoves
  <2>1. Moving(u) /\ slot'[u].on = slot[u].on /\ slot'[u].plan = slot[u].plan
    OBVIOUS
  <2>2. /\ phase = "processing" /\ slot[u].on \in Opened /\ slot[u].on \notin todo
        /\ \A v \in Tasks : Moving(v) /\ v # u => slot[v].on # slot[u].on
        /\ LateOn(slot[u].on) \subseteq UpTo[Head(slot[u].plan)]
        /\ \A o \in Moved : slot[u].on \notin told[o]
    BY <2>1 DEF SeedInv, OneTaskMoves
  <2>3. ASSUME NEW o \in LateOn(slot[u].on)'  PROVE  o \in UpTo[Head(slot[u].plan)]
    <3>1. o \in {k \in Moved : \E q \in late' : q.op = k /\ q.on = slot[u].on}
      BY <2>1, <2>3 DEF LateOn
    <3>2. CASE o \in LateOn(slot[u].on)
      BY <2>2, <3>2
    <3>3. CASE o \notin LateOn(slot[u].on)
      <4>1. o \in Moved /\ o = Head(slot[t].plan) /\ slot[u].on = slot[t].on
        BY <1>2, <3>1, <3>3 DEF LateOn
      <4>2. u = t
        BY <1>1, <2>2, <4>1
      <4> QED  BY <4>1, <4>2, NothingFollows
    <3> QED  BY <3>2, <3>3
  <2> QED  BY <1>4, <1>0, <2>1, <2>2, <2>3
<1>6. NotYetMoved'
  <2>1. ASSUME phase' = "processing", NEW p \in todo'
        PROVE  p \in Opened' /\ LateOn(p)' = {} /\ \A o \in Moved : p \notin told'[o]
    <3>1. p \in Opened /\ LateOn(p) = {} /\ \A o \in Moved : p \notin told[o]
      BY <2>1 DEF SeedInv, NotYetMoved
    <3>2. ASSUME NEW o \in LateOn(p)'  PROVE  FALSE
      BY <1>1, <1>3, <2>1, <3>1, <3>2
    <3> QED  BY <1>4, <1>0, <3>1, <3>2
  <2>2. ASSUME phase' \in BeforeProcessing
        PROVE  (\A o \in Moved : told'[o] = {}) /\ (\A q \in late' : q.op \notin Moved)
    <3>1. Head(slot[t].plan) \notin Moved
      BY <1>1, <2>2 DEF BeforeProcessing
    <3> QED  BY <1>2, <1>0, <2>2, <3>1 DEF SeedInv, NotYetMoved
  <2> QED  BY <2>1, <2>2 DEF NotYetMoved
<1>7. CountedAtTheEnd'
  <2> SUFFICES ASSUME NEW o \in Moved, NEW p \in told'[o], NEW k \in LateOn(p)'
               PROVE  <<Target[o], Target[k]>> \notin Write!Moves
    BY DEF CountedAtTheEnd
  <2>1. p \in told[o]
    BY <1>0
  <2>2. k \in LateOn(p)
    BY <1>1, <1>3, <2>1
  <2> QED  BY <2>1, <2>2 DEF SeedInv, CountedAtTheEnd
<1> QED  BY <1>5, <1>6, <1>7

\* The parts of SeedInv that read the tables and the results, and not the requests.
LEMMA TablesKept ==
  ASSUME SeedInv, UNCHANGED <<tenantVars, had>>, SameCounts
  PROVE  /\ TenantTypeOK' /\ Opened' = Opened /\ had' \in Nat
         /\ DOMAIN told' = Moved \cup {"customer", "payment", "refund", "process"}
         /\ ToldTrue' /\ RowsFinite' /\ Existing' = Existing /\ Counted' = Counted
         /\ Existing \in Nat /\ Counted \in Nat
<1>1. /\ CustomersThere' = CustomersThere /\ Opened' = Opened /\ RefundsThere' = RefundsThere
      /\ status' = status /\ customer' = customer /\ refund' = refund
  BY DEF tenantVars, lifecycle, CustomersThere, Opened, RefundsThere
<1>5. /\ told'["customer"] = told["customer"] /\ told'["payment"] = told["payment"]
      /\ told'["refund"] = told["refund"] /\ \A o \in Moved : told'[o] = told[o]
  BY MovedAre DEF SameCounts, SeedInv, SeedTypeOK
<1>2. ToldTrue' /\ Counted' = Counted
  BY <1>1, <1>5 DEF SeedInv, ToldTrue, Counted
<1>3. RowsFinite /\ RowsFinite'
  BY <1>1 DEF SeedInv, RowsAccounted, RowsFinite
<1>4. Existing' = Existing
  BY <1>1 DEF Existing
<1> QED  BY <1>1, <1>2, <1>3, <1>4, ExistingIs, CountedIs
         DEF SameCounts, SeedInv, SeedTypeOK, TenantTypeOK

LEMMA GivenUpCount ==
  ASSUME NEW tasks \in SUBSET Tasks
  PROVE  /\ IsFiniteSet({GivenUp(t) : t \in tasks})
         /\ Cardinality({GivenUp(t) : t \in tasks}) <= Cardinality(tasks)
         /\ Cardinality(tasks) \in Nat
<1>1. IsFiniteSet(tasks)
  BY FS_Subset, NumbersAssumption
<1> DEFINE f == [t \in tasks |-> GivenUp(t)]
           S == {GivenUp(t) : t \in tasks}
<1>2. f \in Surjection(tasks, S)
  BY DEF Surjection
<1> HIDE DEF f, S
<1>3. IsFiniteSet(S) /\ Cardinality(S) <= Cardinality(tasks) /\ Cardinality(tasks) \in Nat
  BY <1>1, <1>2, FS_Surjection, FS_CardinalityType
<1> QED  BY <1>3 DEF S

\* Every request that is given up is counted as lost, so that what it may yet make is.
LEMMA LostAccounted ==
  ASSUME SeedInv, NEW S, NEW n \in Nat, IsFiniteSet(S), Cardinality(S) <= n,
         late' = late \cup S, lost' = lost + n, UNCHANGED <<tenantVars, had, told>>
  PROVE  RowsAccounted'
<1>1. IsFiniteSet(late) /\ Existing + Cardinality(late) <= 2 * had + Counted + lost
  BY DEF SeedInv, RowsAccounted
<1>2. /\ IsFiniteSet(late') /\ Cardinality(late') = Cardinality(late) + Cardinality(S) - Cardinality(late \cap S)
      /\ Cardinality(late) \in Nat /\ Cardinality(S) \in Nat /\ Cardinality(late \cap S) \in Nat
  BY <1>1, FS_Union, FS_Intersection, FS_CardinalityType
<1>3. /\ RowsFinite' /\ Existing' = Existing /\ Counted' = Counted
      /\ Existing \in Nat /\ Counted \in Nat /\ had' = had /\ had \in Nat /\ lost \in Nat
  BY TablesKept DEF SameCounts, SeedInv, SeedTypeOK
<1>4. Existing' + Cardinality(late') <= 2 * had' + Counted' + lost'
  BY <1>1, <1>2, <1>3
<1> QED  BY <1>2, <1>3, <1>4 DEF RowsAccounted, RowsFinite

LEMMA SameAccount ==
  ASSUME SeedInv, UNCHANGED <<tenantVars, had, late, lost>>, SameCounts
  PROVE  RowsAccounted'
<1>1. RowsFinite' /\ Existing' = Existing /\ Counted' = Counted
  BY TablesKept
<1> QED  BY <1>1 DEF SeedInv, RowsAccounted, RowsFinite

\* What is given up may be served late, but moves nothing that has been counted.
LEMMA AbortKeeps ==
  ASSUME SeedInv, NEW tasks \in SUBSET Busy, AbortWith(tasks),
         UNCHANGED <<tenantVars, had, known, sample, told>>
  PROVE  SeedInv'
<1>1. /\ phase' = "aborted" /\ todo' = {} /\ slot' = [t \in Tasks |-> Idle]
      /\ late' = late \cup {GivenUp(t) : t \in tasks} /\ lost' = lost + Cardinality(tasks)
  BY DEF AbortWith
<1>2. /\ tasks \subseteq Tasks
      /\ IsFiniteSet({GivenUp(t) : t \in tasks})
      /\ Cardinality({GivenUp(t) : t \in tasks}) <= Cardinality(tasks)
      /\ Cardinality(tasks) \in Nat
  BY GivenUpCount DEF Busy
<1>3. Busy' = {} /\ \A t \in Tasks : ~Moving(t)'
  BY <1>1 DEF Busy, Moving, Idle
<1>4. /\ TenantTypeOK' /\ Opened' = Opened /\ had' \in Nat /\ ToldTrue'
      /\ DOMAIN told' = Moved \cup {"customer", "payment", "refund", "process"}
  BY TablesKept DEF SameCounts
<1>5. SeedTypeOK'
  <2>1. lost' \in Nat /\ sample' \subseteq Opened' /\ DOMAIN slot' = Tasks
    BY <1>1, <1>2, <1>4 DEF SeedInv, SeedTypeOK
  <2> QED  BY <1>1, <1>3, <1>4, <2>1 DEF SeedTypeOK, TenantTypeOK, Phases
<1>6. OneTaskMoves'
  BY <1>3 DEF OneTaskMoves
<1>7. NotYetMoved'
  BY <1>1 DEF NotYetMoved, BeforeProcessing
<1>8. CountedAtTheEnd'
  <2> SUFFICES ASSUME NEW o \in Moved, NEW p \in told'[o], NEW k \in LateOn(p)'
               PROVE  <<Target[o], Target[k]>> \notin Write!Moves
    BY DEF CountedAtTheEnd
  <2>1. PICK q \in late' : q.op = k /\ q.on = p /\ k \in Moved
    BY DEF LateOn
  <2>2. CASE q \in late
    BY <2>1, <2>2 DEF LateOn, SeedInv, CountedAtTheEnd
  <2>3. ASSUME NEW t \in tasks, q = GivenUp(t)  PROVE  FALSE
    <3>1. k = Head(slot[t].plan) /\ p = slot[t].on
      BY <2>1, <2>3 DEF GivenUp
    <3> QED  BY <2>1, <3>1, RequestSound
  <2> QED  BY <1>1, <2>2, <2>3
<1>9. RowsAccounted'
  BY <1>1, <1>2, LostAccounted
<1> QED  BY <1>4, <1>5, <1>6, <1>7, <1>8, <1>9 DEF SeedInv

\* A request that is sent again, and one more that may be late.
LEMMA TriedAgain ==
  ASSUME SeedInv, NEW t \in Busy, TryAgain(t)
  PROVE  /\ DOMAIN slot' = Tasks
         /\ \A u \in Busy' : /\ slot'[u] = [plan |-> slot'[u].plan, on |-> slot'[u].on, tries |-> slot'[u].tries]
                             /\ slot'[u].plan \in PlansLeft
         /\ \A u \in Tasks : Moving(u)' => /\ Moving(u) /\ slot'[u].on = slot[u].on
                                           /\ slot'[u].plan = slot[u].plan
<1>1. /\ DOMAIN slot' = Tasks
      /\ \A u \in Tasks : u # t => slot'[u] = slot[u]
      /\ slot'[t] = [plan |-> slot[t].plan, on |-> slot[t].on, tries |-> slot[t].tries + 1]
  BY TryAgainIs
<1>2. slot[t] # Idle /\ slot[t].plan \in PlansLeft
  BY RequestSound
<1>3. ASSUME NEW u \in Busy'
      PROVE  /\ slot'[u] = [plan |-> slot'[u].plan, on |-> slot'[u].on, tries |-> slot'[u].tries]
             /\ slot'[u].plan \in PlansLeft
  <2>1. CASE u = t
    BY <1>1, <1>2, <2>1
  <2>2. CASE u # t
    <3>1. u \in Busy /\ slot'[u] = slot[u]
      BY <1>1, <1>3, <2>2 DEF Busy, Idle
    <3> QED  BY <3>1 DEF SeedInv, SeedTypeOK
  <2> QED  BY <2>1, <2>2
<1>4. ASSUME NEW u \in Tasks, Moving(u)'
      PROVE  Moving(u) /\ slot'[u].on = slot[u].on /\ slot'[u].plan = slot[u].plan
  <2>1. Head(slot'[u].plan) \in Moved /\ slot'[u] # Idle
    BY <1>4 DEF Moving, Idle
  <2>2. CASE u = t
    BY <1>1, <1>2, <2>1, <2>2 DEF Moving
  <2>3. CASE u # t
    BY <1>1, <2>1, <2>3 DEF Moving
  <2> QED  BY <2>2, <2>3
<1> QED  BY <1>1, <1>3, <1>4

LEMMA UnansweredKeeps == ASSUME SeedInv, NEW t \in Busy, Unanswered(t)  PROVE  SeedInv'
<1>1. UNCHANGED <<tenantVars, had, known, sample, told>>
  BY DEF Unanswered
<1>2. CASE /\ TryAgain(t) /\ late' = late \cup {GivenUp(t)} /\ lost' = lost + 1
           /\ UNCHANGED <<phase, todo>>
  <2>1. /\ DOMAIN slot' = Tasks
        /\ \A u \in Busy' : /\ slot'[u] = [plan |-> slot'[u].plan, on |-> slot'[u].on, tries |-> slot'[u].tries]
                            /\ slot'[u].plan \in PlansLeft
        /\ \A u \in Tasks : Moving(u)' => /\ Moving(u) /\ slot'[u].on = slot[u].on
                                          /\ slot'[u].plan = slot[u].plan
    BY <1>2, TriedAgain
  <2>2. /\ TenantTypeOK' /\ Opened' = Opened /\ had' \in Nat /\ ToldTrue'
        /\ DOMAIN told' = Moved \cup {"customer", "payment", "refund", "process"}
    BY <1>1, TablesKept DEF SameCounts
  <2>3. SeedTypeOK'
    <3>1. lost' \in Nat /\ sample' \subseteq Opened' /\ phase' \in Phases
          /\ (phase' \in {"idle", "done", "aborted"} => todo' = {})
      BY <1>1, <1>2, <2>2 DEF SeedInv, SeedTypeOK
    <3> QED  BY <2>1, <2>2, <3>1 DEF SeedTypeOK, TenantTypeOK
  <2>4. OneTaskMoves' /\ NotYetMoved' /\ CountedAtTheEnd'
    BY <1>1, <1>2, <2>1, StillInOrder DEF SameCounts
  <2>5. RowsAccounted'
    <3>1. IsFiniteSet({GivenUp(t)}) /\ Cardinality({GivenUp(t)}) <= 1
      <4>1. IsFiniteSet({GivenUp(t)}) /\ Cardinality({GivenUp(t)}) = 1
        BY FS_Singleton
      <4> QED  BY <4>1
    <3> QED  BY <1>1, <1>2, <3>1, LostAccounted
  <2> QED  BY <2>2, <2>3, <2>4, <2>5 DEF SeedInv
<1>3. CASE AbortWith(Busy)
  BY <1>1, <1>3, AbortKeeps
<1> QED  BY <1>2, <1>3 DEF Unanswered

LEMMA RefusedKeeps == ASSUME SeedInv, NEW t \in Busy, Refused(t)  PROVE  SeedInv'
<1>1. UNCHANGED <<tenantVars, had, known, sample>>
  BY DEF Refused, Refuse
<1>2. CASE AbortWith(Busy \ {t}) /\ UNCHANGED told
  BY <1>1, <1>2, AbortKeeps
<1>3. CASE /\ TryAgain(t) \/ slot' = [slot EXCEPT ![t] = Idle]
           /\ UNCHANGED <<phase, todo, late, lost>>
           /\ UNCHANGED told \/ (Head(slot[t].plan) = "process" /\ Tell(t, slot[t].on))
  <2>0. SameCounts
    BY <1>3, RefusedTold DEF SameCounts
  <2>1. /\ DOMAIN slot' = Tasks
        /\ \A u \in Busy' : /\ slot'[u] = [plan |-> slot'[u].plan, on |-> slot'[u].on, tries |-> slot'[u].tries]
                            /\ slot'[u].plan \in PlansLeft
        /\ \A u \in Tasks : Moving(u)' => /\ Moving(u) /\ slot'[u].on = slot[u].on
                                          /\ slot'[u].plan = slot[u].plan
    <3>1. CASE TryAgain(t)
      BY <3>1, TriedAgain
    <3>2. CASE slot' = [slot EXCEPT ![t] = Idle]
      <4>1. DOMAIN slot' = Tasks /\ \A u \in Tasks : slot'[u] = Idle \/ slot'[u] = slot[u]
        BY <3>2 DEF SeedInv, SeedTypeOK
      <4>2. \A u \in Busy' : u \in Busy /\ slot'[u] = slot[u]
        BY <4>1 DEF Busy, Idle
      <4>3. \A u \in Tasks : Moving(u)' => Moving(u) /\ slot'[u] = slot[u]
        BY <4>1 DEF Moving, Idle
      <4> QED  BY <4>1, <4>2, <4>3 DEF SeedInv, SeedTypeOK
    <3> QED  BY <1>3, <3>1, <3>2
  <2>2. /\ TenantTypeOK' /\ Opened' = Opened /\ had' \in Nat /\ ToldTrue'
        /\ DOMAIN told' = Moved \cup {"customer", "payment", "refund", "process"}
    BY <1>1, <2>0, TablesKept
  <2>3. SeedTypeOK'
    <3>1. lost' \in Nat /\ sample' \subseteq Opened' /\ phase' \in Phases
          /\ (phase' \in {"idle", "done", "aborted"} => todo' = {})
      BY <1>1, <1>3, <2>2 DEF SeedInv, SeedTypeOK
    <3> QED  BY <2>1, <2>2, <3>1 DEF SeedTypeOK, TenantTypeOK
  <2>4. OneTaskMoves' /\ NotYetMoved' /\ CountedAtTheEnd'
    BY <1>1, <1>3, <2>0, <2>1, StillInOrder
  <2>5. RowsAccounted'
    BY <1>1, <1>3, <2>0, SameAccount
  <2> QED  BY <2>2, <2>3, <2>4, <2>5 DEF SeedInv
<1> QED  BY <1>2, <1>3 DEF Refused

-----------------------------------------------------------------------------
(* From phase to phase                                                     *)

\* A phase is entered when no request is on its way; the payments to be processed have
\* not been moved by anything that was sent before.
LEMMA PhaseKeeps ==
  ASSUME SeedInv, Quiet, UNCHANGED <<tenantVars, had, slot, told, late, lost>>,
         phase' \in Phases, phase' \in {"idle", "done", "aborted"} => todo' = {},
         phase' \in BeforeProcessing => phase \in BeforeProcessing,
         phase' = "processing" => phase \in BeforeProcessing /\ todo' \subseteq Opened,
         sample' \subseteq Opened
  PROVE  SeedInv'
<1>1. Busy' = {} /\ DOMAIN slot' = Tasks /\ \A t \in Tasks : ~Moving(t)'
  BY DEF Quiet, Busy, Moving, Idle, SeedInv, SeedTypeOK
<1>2. /\ TenantTypeOK' /\ Opened' = Opened /\ had' \in Nat /\ ToldTrue'
      /\ DOMAIN told' = Moved \cup {"customer", "payment", "refund", "process"}
  BY TablesKept DEF SameCounts
<1>3. SeedTypeOK'
  <2>1. lost' \in Nat
    BY DEF SeedInv, SeedTypeOK
  <2> QED  BY <1>1, <1>2, <2>1 DEF SeedTypeOK, TenantTypeOK
<1>4. \A p : LateOn(p)' = LateOn(p)
  BY DEF LateOn
<1>5. OneTaskMoves'
  BY <1>1 DEF OneTaskMoves
<1>6. NotYetMoved'
  <2>1. ASSUME phase' = "processing", NEW p \in todo'
        PROVE  p \in Opened' /\ LateOn(p)' = {} /\ \A o \in Moved : p \notin told'[o]
    <3>1. (\A o \in Moved : told[o] = {}) /\ (\A q \in late : q.op \notin Moved)
      BY <2>1 DEF SeedInv, NotYetMoved
    <3>2. LateOn(p) = {}
      BY <3>1 DEF LateOn
    <3> QED  BY <1>2, <1>4, <2>1, <3>1, <3>2
  <2>2. ASSUME phase' \in BeforeProcessing
        PROVE  (\A o \in Moved : told'[o] = {}) /\ (\A q \in late' : q.op \notin Moved)
    BY <2>2 DEF SeedInv, NotYetMoved
  <2> QED  BY <2>1, <2>2 DEF NotYetMoved
<1>7. CountedAtTheEnd'
  BY <1>4 DEF SeedInv, CountedAtTheEnd
<1> QED  BY <1>2, <1>3, <1>5, <1>6, <1>7, SameAccount DEF SameCounts, SeedInv

LEMMA PhasesKeep ==
  ASSUME SeedInv,
         \/ CreateMerchants \/ CreateCustomers \/ CreatePayments \/ ProcessPayments
         \/ CreateRefunds \/ Finish \/ TimedOut
  PROVE  SeedInv'
<1> USE DEF EnterPhase, Phases, BeforeProcessing
<1>0. sample \subseteq Opened /\ told["payment"] \subseteq Opened
  BY DEF SeedInv, SeedTypeOK, ToldTrue
<1>1. CASE CreateMerchants
  BY <1>0, <1>1, PhaseKeeps DEF CreateMerchants
<1>2. CASE CreateCustomers
  BY <1>0, <1>2, PhaseKeeps DEF CreateCustomers
<1>3. CASE CreatePayments
  <2>1. sample' \subseteq Opened
    BY <1>3 DEF CreatePayments
  <2> QED  BY <1>3, <2>1, PhaseKeeps DEF CreatePayments
<1>4. CASE ProcessPayments
  BY <1>0, <1>4, PhaseKeeps DEF ProcessPayments
<1>5. CASE CreateRefunds
  BY <1>0, <1>5, PhaseKeeps DEF CreateRefunds
<1>6. CASE Finish
  BY <1>0, <1>6, PhaseKeeps DEF Finish, Quiet
<1>7. CASE TimedOut
  BY <1>0, <1>7, PhaseKeeps DEF TimedOut, Quiet
<1> QED  BY <1>1, <1>2, <1>3, <1>4, <1>5, <1>6, <1>7

LEMMA ListFailsKeeps == ASSUME SeedInv, ListFails  PROVE  SeedInv'
  BY AbortKeeps DEF ListFails

\* A job that is taken up: only in the processing of payments is it a move, of a payment
\* that no other task has, and that nothing has moved or will move behind its back.
LEMMA TakeKeeps == ASSUME SeedInv, Take  PROVE  SeedInv'
<1> DEFINE t == CHOOSE t \in Tasks \ Busy : TRUE
           m == Min(todo)
<1>1. PICK w \in JobPlans(m) :
         slot' = [slot EXCEPT ![t] = [plan |-> w[1], on |-> w[2], tries |-> 0]]
  BY DEF Take
<1>2. /\ todo # {} /\ todo' = todo \ {m}
      /\ UNCHANGED <<tenantVars, had, phase, sample, told, late, lost>>
  BY DEF Take
<1>3. t \in Tasks /\ slot[t] = Idle
  <2>1. Tasks \ Busy # {}
    BY DEF Take, Busy
  <2> QED  BY <2>1 DEF Busy
<1>4. phase = "processing" => m \in todo /\ m \in Opened
  <2> SUFFICES ASSUME phase = "processing"  PROVE  m \in todo /\ m \in Opened
    OBVIOUS
  <2>1. todo \subseteq Opened /\ Opened \subseteq Nat
    BY NumbersAssumption DEF SeedInv, NotYetMoved, Opened
  <2> QED  BY <1>2, <2>1, LeastOf
<1>5. phase \in {"merchants", "customers", "payments", "processing", "refunds"}
  BY <1>2 DEF SeedInv, SeedTypeOK, Phases
<1>6. /\ w[1] \in PlansLeft
      /\ Head(w[1]) \in Moved => phase = "processing" /\ w[2] = m
  <2> HIDE DEF m, t
  <2>1. CASE phase = "merchants"
    BY <1>1, <2>1, MovedAre DEF JobPlans, PlansLeft
  <2>2. CASE phase = "customers"
    BY <1>1, <2>2, MovedAre DEF JobPlans, PlansLeft
  <2>3. CASE phase = "payments"
    BY <1>1, <2>3, MovedAre DEF JobPlans, PlansLeft
  <2>4. CASE phase = "processing"
    <3>1. w \in Plans \X {m}
      BY <1>1, <2>4 DEF JobPlans
    <3> QED  BY <2>4, <3>1 DEF PlansLeft
  <2>5. CASE phase = "refunds"
    <3>1. w[1] \in RefundPlans
      BY <1>1, <2>5 DEF JobPlans
    <3>2. Head(w[1]) \in {"full", "partial"}
      BY <3>1 DEF RefundPlans
    <3> QED  BY <3>1, <3>2, MovedAre DEF PlansLeft
  <2> QED  BY <1>5, <2>1, <2>2, <2>3, <2>4, <2>5
<1> HIDE DEF t, m
<1>7. /\ DOMAIN slot' = Tasks
      /\ \A u \in Tasks : u # t => slot'[u] = slot[u]
      /\ slot'[t] = [plan |-> w[1], on |-> w[2], tries |-> 0]
  BY <1>1, <1>3 DEF SeedInv, SeedTypeOK
<1>8. /\ TenantTypeOK' /\ Opened' = Opened /\ had' \in Nat /\ ToldTrue'
      /\ DOMAIN told' = Moved \cup {"customer", "payment", "refund", "process"}
  BY <1>2, TablesKept DEF SameCounts
<1>9. SeedTypeOK'
  <2>1. ASSUME NEW u \in Busy'
        PROVE  /\ slot'[u] = [plan |-> slot'[u].plan, on |-> slot'[u].on, tries |-> slot'[u].tries]
               /\ slot'[u].plan \in PlansLeft
    <3>1. CASE u = t
      BY <1>6, <1>7, <3>1
    <3>2. CASE u # t
      <4>1. u \in Busy /\ slot'[u] = slot[u]
        BY <1>7, <2>1, <3>2 DEF Busy, Idle
      <4> QED  BY <4>1 DEF SeedInv, SeedTypeOK
    <3> QED  BY <3>1, <3>2
  <2>2. lost' \in Nat /\ sample' \subseteq Opened' /\ phase' \in Phases
        /\ (phase' \in {"idle", "done", "aborted"} => todo' = {})
    BY <1>2, <1>5, <1>8 DEF SeedInv, SeedTypeOK
  <2> QED  BY <1>7, <1>8, <2>1, <2>2 DEF SeedTypeOK, TenantTypeOK
<1>10. \A p : LateOn(p)' = LateOn(p)
  BY <1>2 DEF LateOn
<1>11. ASSUME NEW u \in Tasks, Moving(u)'
       PROVE  \/ u # t /\ Moving(u) /\ slot'[u] = slot[u]
              \/ u = t /\ phase = "processing" /\ slot'[u].on = m
  <2>1. slot'[u] # Idle /\ Head(slot'[u].plan) \in Moved
    BY <1>11 DEF Moving, Idle
  <2>2. CASE u = t
    BY <1>6, <1>7, <2>1, <2>2
  <2>3. CASE u # t
    BY <1>7, <2>1, <2>3 DEF Moving
  <2> QED  BY <2>2, <2>3
<1>12. phase = "processing" => /\ LateOn(m) = {} /\ \A o \in Moved : m \notin told[o]
  BY <1>4 DEF SeedInv, NotYetMoved
<1>13. \A v \in Tasks : Moving(v) =>
          /\ phase = "processing" /\ slot[v].on \in Opened /\ slot[v].on \notin todo
          /\ \A u \in Tasks : Moving(u) /\ u # v => slot[u].on # slot[v].on
          /\ LateOn(slot[v].on) \subseteq UpTo[Head(slot[v].plan)]
          /\ \A op \in Moved : slot[v].on \notin told[op]
  BY DEF SeedInv, OneTaskMoves
<1>14. OneTaskMoves'
  <2> SUFFICES ASSUME NEW u \in Tasks, Moving(u)'
               PROVE  /\ (phase = "processing" /\ slot[u].on \in Opened /\ slot[u].on \notin todo)'
                      /\ \A v \in Tasks : Moving(v)' /\ v # u => slot'[v].on # slot'[u].on
                      /\ LateOn(slot[u].on)' \subseteq UpTo[Head(slot'[u].plan)]
                      /\ \A op \in Moved : slot'[u].on \notin told'[op]
    BY DEF OneTaskMoves
  <2>1. LateOn(slot[u].on)' = LateOn(slot'[u].on)
    BY <1>2 DEF LateOn
  <2>2. CASE u = t
    <3>1. phase = "processing" /\ slot'[u].on = m
      BY <1>11, <2>2
    <3>2. \A v \in Tasks : Moving(v)' /\ v # u => slot'[v].on # m
      BY <1>4, <1>11, <1>13, <2>2, <3>1
    <3> QED  BY <1>2, <1>4, <1>8, <1>12, <2>1, <3>1, <3>2
  <2>3. CASE u # t
    <3>1. Moving(u) /\ slot'[u] = slot[u]
      BY <1>11, <2>3
    <3>2. \A v \in Tasks : Moving(v)' /\ v # u => slot'[v].on # slot'[u].on
      BY <1>4, <1>11, <1>13, <3>1
    <3> QED  BY <1>2, <1>8, <1>13, <2>1, <3>1, <3>2
  <2> QED  BY <2>2, <2>3
<1>15. NotYetMoved'
  BY <1>2, <1>8, <1>10 DEF SeedInv, NotYetMoved
<1>16. CountedAtTheEnd'
  BY <1>2, <1>10 DEF SeedInv, CountedAtTheEnd
<1>17. RowsAccounted'
  BY <1>2, SameAccount DEF SameCounts
<1> QED  BY <1>8, <1>9, <1>14, <1>15, <1>16, <1>17 DEF SeedInv

LEMMA SeedInitInvariant == SeedInit => SeedInv
<1> SUFFICES ASSUME SeedInit  PROVE  SeedInv
  OBVIOUS
<1>1. /\ had \in Nat /\ lost = 0 /\ late = {} /\ todo = {} /\ sample = {} /\ phase = "idle"
      /\ slot = [t \in Tasks |-> Idle]
      /\ told = [op \in Moved \cup {"customer", "payment", "refund", "process"} |-> {}]
      /\ customer = [c \in SeedCustomers |-> IF c <= had THEN "live" ELSE "absent"]
      /\ status = [p \in SeedPayments |-> IF p <= had THEN "created" ELSE "none"]
      /\ refund = [r \in SeedRefunds |-> Write!NoRefund]
  BY NumbersAssumption DEF SeedInit, Moved
<1>2. Busy = {} /\ \A t \in Tasks : ~Moving(t)
  BY <1>1 DEF Busy, Moving
<1>3. \A k \in Moved \cup {"customer", "payment", "refund", "process"} : told[k] = {}
  BY <1>1
<1>4. SeedTypeOK
  BY <1>1, <1>2 DEF SeedTypeOK, Statuses, Phases
<1>5. ToldTrue
  BY <1>3 DEF ToldTrue
<1>6. OneTaskMoves /\ CountedAtTheEnd
  BY <1>2, <1>3 DEF OneTaskMoves, CountedAtTheEnd
<1>7. NotYetMoved
  BY <1>1, <1>3 DEF NotYetMoved
<1>8. RowsAccounted
  <2>1. CustomersThere \subseteq 1..had /\ Opened \subseteq 1..had /\ RefundsThere = {}
    BY <1>1, NumbersAssumption DEF CustomersThere, Opened, RefundsThere, Write!NoRefund
  <2>2. IsFiniteSet(1..had) /\ Cardinality(1..had) = had
    BY <1>1, FS_Interval
  <2>3. IsFiniteSet(CustomersThere) /\ Cardinality(CustomersThere) <= had
    BY <2>1, <2>2, FS_Subset
  <2>4. IsFiniteSet(Opened) /\ Cardinality(Opened) <= had
    BY <2>1, <2>2, FS_Subset
  <2>5. IsFiniteSet(RefundsThere) /\ Cardinality(RefundsThere) = 0
    BY <2>1, FS_EmptySet
  <2>6. IsFiniteSet(late) /\ Cardinality(late) = 0
    BY <1>1, FS_EmptySet
  <2>7. Counted = 0
    BY <1>3, FS_EmptySet DEF Counted
  <2>8. Cardinality(CustomersThere) \in Nat /\ Cardinality(Opened) \in Nat
    BY <2>3, <2>4, FS_CardinalityType
  <2>9. Existing + Cardinality(late) <= 2 * had + Counted + lost
    BY <1>1, <2>3, <2>4, <2>5, <2>6, <2>7, <2>8, ExistingIs
  <2> QED  BY <2>3, <2>4, <2>5, <2>6, <2>9 DEF RowsAccounted
<1> QED  BY <1>4, <1>5, <1>6, <1>7, <1>8 DEF SeedInv

LEMMA SeedNextInvariant == SeedInv /\ [ClientsNext]_clientsVars => SeedInv'
<1> SUFFICES ASSUME SeedInv, [ClientsNext]_clientsVars  PROVE  SeedInv'
  OBVIOUS
<1>1. CASE UNCHANGED seedVars
  <2>1. UNCHANGED <<tenantVars, had, slot, phase, todo, told, sample, late, lost>>
    BY <1>1 DEF seedVars
  <2>2. /\ TenantTypeOK' /\ Opened' = Opened /\ had' \in Nat /\ ToldTrue'
        /\ DOMAIN told' = Moved \cup {"customer", "payment", "refund", "process"}
    BY <2>1, TablesKept DEF SameCounts
  <2>3. SeedTypeOK'
    <3>1. Busy' = Busy
      BY <2>1 DEF Busy, Idle
    <3> QED  BY <2>1, <2>2, <3>1 DEF SeedInv, SeedTypeOK, TenantTypeOK
  <2>4. OneTaskMoves' /\ NotYetMoved' /\ CountedAtTheEnd'
    BY <2>1, <2>2, Calm DEF SeedInv
  <2> QED  BY <2>1, <2>2, <2>3, <2>4, SameAccount DEF SameCounts, SeedInv
<1>2. CASE SeedNext
  <2>1. CASE Seeding
    BY <2>1, PhasesKeep, TakeKeeps, SucceededKeeps, RefusedKeeps DEF Seeding
  <2> QED  BY <1>2, <2>1, PhasesKeep, ListFailsKeeps, LateServeKeeps, UnansweredKeeps DEF SeedNext
<1> QED  BY <1>1, <1>2 DEF ClientsNext, SeedStep, ProbeStep, clientsVars

\* A payment is moved by one task at a time, in the order of its plan, and every row was
\* there before, is counted, or was made by a request that got no answer.
THEOREM SeedInvariantHolds == ClientsSpec => []SeedInv
<1>1. ClientsInit => SeedInv
  BY SeedInitInvariant DEF ClientsInit
<1> QED  BY <1>1, SeedNextInvariant, PTL DEF ClientsSpec

-----------------------------------------------------------------------------
(* The refunds a seeding has asked to process                              *)

Processed == {r \in SeedRefunds : refund[r].state = "processed"}
Processing(t) == slot[t] # Idle /\ Head(slot[t].plan) = "process"

\* The first part of a refund's plan counts it as created, the second as processed,
\* and nothing else ever processes one, as long as all requests are answered.
ProcessedInv ==
    /\ told["process"] \subseteq told["refund"]
    /\ \A t \in Tasks : Processing(t) => slot[t].on \in told["refund"]
    /\ lost = 0 => late = {} /\ Processed \subseteq told["process"]

LEMMA ServedProcessed ==
  ASSUME TenantTypeOK, NEW op, NEW on, Serve(op, on)
  PROVE  Processed' \subseteq Processed \cup (IF op = "process" THEN {on} ELSE {})
<1>0. Moved = DOMAIN Target /\ "process" \notin Moved
  BY MovedAre DEF Moved
<1>1. CASE UNCHANGED refund
  BY <1>1 DEF Processed
<1>2. CASE UnusedRefunds # {} /\ Write!IssueRefund(NewRefund, on, Part(op, on))
  <2>1. refund' = [refund EXCEPT ![NewRefund] =
                      [state |-> "initiated", payment |-> on, amount |-> Part(op, on)]]
    BY <1>2 DEF Write!IssueRefund
  <2> HIDE DEF NewRefund
  <2>2. \A r \in SeedRefunds : refund'[r].state = "processed" => refund[r].state = "processed"
    BY <2>1 DEF TenantTypeOK
  <2> QED  BY <2>2 DEF Processed
<1>3. CASE op = "process" /\ Write!ProcessRefund(on)
  <2>1. refund' = [refund EXCEPT ![on] = [state |-> "processed", payment |-> refund[on].payment,
                                          amount |-> refund[on].amount]]
    BY <1>3 DEF Write!ProcessRefund
  <2>2. \A r \in SeedRefunds : r # on => refund'[r] = refund[r]
    BY <2>1 DEF TenantTypeOK
  <2> QED  BY <1>3, <2>2 DEF Processed
<1> QED
  BY <1>1, <1>2, <1>3
  DEF Serve, lifecycle, Write!AddCustomer, Write!OpenPayment, Write!MovePayment

\* A step that neither counts a refund nor starts to process one.
LEMMA NoProcessing ==
  ASSUME ProcessedInv, UNCHANGED <<refund, told>>,
         \A t \in Tasks : Processing(t)' => Processing(t) /\ slot'[t].on = slot[t].on,
         lost' = 0 => lost = 0 /\ late' \subseteq late
  PROVE  ProcessedInv'
<1>1. Processed' = Processed
  BY DEF Processed
<1> QED  BY <1>1 DEF ProcessedInv

LEMMA AbortProcessed ==
  ASSUME SeedInv, ProcessedInv, NEW tasks \in SUBSET Busy, AbortWith(tasks), UNCHANGED <<tenantVars, told>>
  PROVE  ProcessedInv'
<1>1. /\ slot' = [t \in Tasks |-> Idle]
      /\ late' = late \cup {GivenUp(t) : t \in tasks} /\ lost' = lost + Cardinality(tasks)
  BY DEF AbortWith
<1>2. \A t \in Tasks : ~Processing(t)'
  BY <1>1 DEF Processing, Idle
<1>3. IsFiniteSet(tasks) /\ Cardinality(tasks) \in Nat /\ lost \in Nat
  BY NumbersAssumption, FS_Subset, FS_CardinalityType DEF Busy, SeedInv, SeedTypeOK
<1>4. ASSUME lost' = 0  PROVE  lost = 0 /\ late' \subseteq late
  <2>1. lost = 0 /\ Cardinality(tasks) = 0
    BY <1>1, <1>3, <1>4
  <2>2. tasks = {}
    BY <1>3, <2>1, FS_EmptySet
  <2> QED  BY <1>1, <2>1, <2>2
<1> QED  BY <1>2, <1>4, NoProcessing DEF tenantVars, lifecycle

LEMMA TryAgainProcessed ==
  ASSUME SeedInv, NEW t \in Busy, TryAgain(t)
  PROVE  \A u \in Tasks : Processing(u)' => Processing(u) /\ slot'[u].on = slot[u].on
<1>1. /\ \A u \in Tasks : u # t => slot'[u] = slot[u]
      /\ slot'[t] = [plan |-> slot[t].plan, on |-> slot[t].on, tries |-> slot[t].tries + 1]
      /\ slot[t] # Idle
  BY TryAgainIs, RequestSound
<1>2. ASSUME NEW u \in Tasks, slot'[u] # Idle, Head(slot'[u].plan) = "process"
      PROVE  Processing(u) /\ slot'[u].on = slot[u].on
  <2>1. CASE u = t
    BY <1>1, <1>2, <2>1 DEF Processing
  <2>2. CASE u # t
    BY <1>1, <1>2, <2>2 DEF Processing
  <2> QED  BY <2>1, <2>2
<1> QED  BY <1>2 DEF Processing, Idle

LEMMA UnansweredProcessed ==
  ASSUME SeedInv, ProcessedInv, NEW t \in Busy, Unanswered(t)  PROVE  ProcessedInv'
<1>1. UNCHANGED <<tenantVars, told>>
  BY DEF Unanswered
<1>2. CASE TryAgain(t) /\ lost' = lost + 1
  <2>1. lost' # 0
    BY <1>2 DEF SeedInv, SeedTypeOK
  <2> QED  BY <1>1, <1>2, <2>1, TryAgainProcessed, NoProcessing DEF tenantVars, lifecycle
<1>3. CASE AbortWith(Busy)
  BY <1>1, <1>3, AbortProcessed
<1> QED  BY <1>2, <1>3 DEF Unanswered

LEMMA RefusedProcessed ==
  ASSUME SeedInv, ProcessedInv, NEW t \in Busy, Refused(t)  PROVE  ProcessedInv'
<1>1. UNCHANGED tenantVars /\ refund' = refund
  BY DEF Refused, Refuse, tenantVars, lifecycle
<1>2. CASE TryAgain(t) /\ UNCHANGED <<told, late, lost>>
  BY <1>1, <1>2, TryAgainProcessed, NoProcessing
<1>3. CASE AbortWith(Busy \ {t}) /\ UNCHANGED told
  BY <1>1, <1>3, AbortProcessed
<1>4. CASE /\ slot' = [slot EXCEPT ![t] = Idle] /\ UNCHANGED <<late, lost>>
           /\ IF Head(slot[t].plan) = "process" THEN Tell(t, slot[t].on) ELSE UNCHANGED told
  <2>1. \A u \in Tasks : Processing(u)' => Processing(u) /\ slot'[u].on = slot[u].on
    <3>1. \A u \in Tasks : slot'[u] = Idle \/ slot'[u] = slot[u]
      BY <1>4 DEF SeedInv, SeedTypeOK
    <3> QED  BY <3>1 DEF Processing, Idle
  <2>2. CASE Head(slot[t].plan) # "process"
    BY <1>1, <1>4, <2>1, <2>2, NoProcessing
  <2>3. CASE Head(slot[t].plan) = "process"
    <3>1. SameCounts /\ told'["process"] = told["process"] \cup {slot[t].on}
      BY <1>4, <2>3, RefusedTold
    <3>2. told'["refund"] = told["refund"]
      BY <3>1 DEF SameCounts, SeedInv, SeedTypeOK
    <3>3. Processing(t) /\ t \in Tasks
      BY <2>3, RequestSound DEF Processing
    <3>4. Processed' = Processed
      BY <1>1 DEF Processed
    <3> QED  BY <1>4, <2>1, <3>1, <3>2, <3>3, <3>4 DEF ProcessedInv
  <2> QED  BY <2>2, <2>3
<1> QED  BY <1>2, <1>3, <1>4 DEF Refused

LEMMA SucceededProcessed ==
  ASSUME SeedInv, ProcessedInv, NEW t \in Busy, Succeeded(t)  PROVE  ProcessedInv'
<1> DEFINE plan == slot[t].plan
           op == Head(plan)
           on == slot[t].on
           row == RowOf(op, on)
<1>1. /\ Serve(op, on) /\ Tell(t, row) /\ Continue(t, row) /\ UNCHANGED <<late, lost>>
  BY DEF Succeeded, Request
<1>2. /\ t \in Tasks /\ PlanSound(plan) /\ slot[t] # Idle
      /\ DOMAIN told = Moved \cup {"customer", "payment", "refund", "process"}
  BY RequestSound DEF SeedInv, SeedTypeOK
<1>3. Processed' \subseteq Processed \cup (IF op = "process" THEN {on} ELSE {})
  BY <1>1, ServedProcessed, SeedTypes DEF SeedInv
<1>4. /\ told'["refund"] = told["refund"] \cup (IF op \in {"full", "partial"} THEN {row} ELSE {})
      /\ told'["process"] = told["process"] \cup (IF op = "process" THEN {row} ELSE {})
  BY <1>1, <1>2, TellIs
<1>5. /\ \A u \in Tasks : u # t => slot'[u] = slot[u]
      /\ slot'[t] = IF Len(plan) = 1 THEN Idle ELSE [plan |-> Tail(plan), on |-> row, tries |-> 0]
  BY <1>1, <1>2, ContinueIs DEF SeedInv, SeedTypeOK
<1>6. op = "process" => row = on /\ on \in told["refund"]
  BY <1>2 DEF RowOf, ProcessedInv, Processing
<1>7. Len(plan) # 1 /\ Head(Tail(plan)) = "process" => op \in {"full", "partial"}
  BY <1>2, MovedAre DEF PlanSound
<1> HIDE DEF plan, op, on, row
<1>8. ASSUME NEW u \in Tasks, Processing(u)'  PROVE  slot'[u].on \in told'["refund"]
  <2>1. slot'[u] # Idle /\ Head(slot'[u].plan) = "process"
    BY <1>8 DEF Processing, Idle
  <2>2. CASE u = t
    <3>1. Len(plan) # 1 /\ slot'[u].plan = Tail(plan) /\ slot'[u].on = row
      BY <1>5, <2>1, <2>2
    <3> QED  BY <1>4, <1>7, <2>1, <3>1
  <2>3. CASE u # t
    BY <1>4, <1>5, <2>1, <2>3 DEF ProcessedInv, Processing
  <2> QED  BY <2>2, <2>3
<1> QED  BY <1>1, <1>3, <1>4, <1>6, <1>8 DEF ProcessedInv

LEMMA TakeProcessed == ASSUME SeedInv, ProcessedInv, Take  PROVE  ProcessedInv'
<1> DEFINE t == CHOOSE t \in Tasks \ Busy : TRUE
           m == Min(todo)
<1>1. PICK w \in JobPlans(m) :
         slot' = [slot EXCEPT ![t] = [plan |-> w[1], on |-> w[2], tries |-> 0]]
  BY DEF Take
<1>2. UNCHANGED <<refund, phase, told, late, lost>> /\ todo # {}
  BY DEF Take, tenantVars, lifecycle
<1>3. Head(w[1]) # "process"
  <2> HIDE DEF m, t
  <2>1. phase \in {"merchants", "customers", "payments", "processing", "refunds"}
    BY <1>2 DEF SeedInv, SeedTypeOK, Phases
  <2> QED  BY <1>1, <2>1 DEF JobPlans, Plans, RefundPlans
<1> HIDE DEF t, m
<1>4. \A u \in Tasks : Processing(u)' => Processing(u) /\ slot'[u].on = slot[u].on
  <2> SUFFICES ASSUME NEW u \in Tasks, Processing(u)'
               PROVE  Processing(u) /\ slot'[u].on = slot[u].on
    OBVIOUS
  <2>1. slot'[u] # Idle /\ Head(slot'[u].plan) = "process"
    BY DEF Processing, Idle
  <2>2. u # t
    BY <1>1, <1>3, <2>1 DEF SeedInv, SeedTypeOK
  <2>3. slot'[u] = slot[u]
    BY <1>1, <2>2 DEF SeedInv, SeedTypeOK
  <2> QED  BY <2>1, <2>3 DEF Processing
<1> QED  BY <1>2, <1>4, NoProcessing

LEMMA LateServeProcessed == ASSUME SeedInv, ProcessedInv, LateServe  PROVE  ProcessedInv'
<1>1. late # {} /\ UNCHANGED <<slot, told, lost>>
  BY DEF LateServe
<1>2. lost' # 0
  BY <1>1 DEF ProcessedInv
<1>3. \A t \in Tasks : Processing(t)' <=> Processing(t)
  BY <1>1 DEF Processing, Idle
<1> QED  BY <1>1, <1>2, <1>3 DEF ProcessedInv

LEMMA ProcessedNext == SeedInv /\ ProcessedInv /\ [ClientsNext]_clientsVars => ProcessedInv'
<1> SUFFICES ASSUME SeedInv, ProcessedInv, [ClientsNext]_clientsVars  PROVE  ProcessedInv'
  OBVIOUS
<1>1. CASE UNCHANGED <<refund, slot, told, late, lost>>
  BY <1>1, NoProcessing DEF Processing, Idle
<1>2. CASE ListFails
  BY <1>2, AbortProcessed DEF ListFails
<1>3. CASE \/ CreateMerchants \/ CreateCustomers \/ CreatePayments \/ ProcessPayments
          \/ CreateRefunds \/ Finish \/ TimedOut
  <2>1. UNCHANGED <<tenantVars, slot, told, late, lost>>
    BY <1>3 DEF CreateMerchants, CreateCustomers, CreatePayments, ProcessPayments, CreateRefunds,
                Finish, TimedOut, EnterPhase
  <2> QED  BY <1>1, <2>1 DEF tenantVars, lifecycle
<1>4. CASE SeedNext
  BY <1>2, <1>3, <1>4, TakeProcessed, LateServeProcessed, SucceededProcessed, RefusedProcessed,
     UnansweredProcessed DEF SeedNext, Seeding
<1>5. CASE UNCHANGED seedVars
  BY <1>1, <1>5 DEF seedVars, tenantVars, lifecycle
<1> QED  BY <1>4, <1>5 DEF ClientsNext, SeedStep, ProbeStep, clientsVars

LEMMA ProcessedInvariantHolds == ClientsSpec => []ProcessedInv
<1>1. ClientsInit => ProcessedInv
  <2> SUFFICES ASSUME SeedInit  PROVE  ProcessedInv
    BY DEF ClientsInit
  <2>1. /\ refund = [r \in SeedRefunds |-> Write!NoRefund] /\ late = {}
        /\ slot = [t \in Tasks |-> Idle]
        /\ told["process"] = {} /\ told["refund"] = {}
    BY DEF SeedInit
  <2>2. Processed = {} /\ \A t \in Tasks : ~Processing(t)
    BY <2>1 DEF Processed, Processing, Write!NoRefund
  <2> QED  BY <2>1, <2>2 DEF ProcessedInv
<1> QED  BY <1>1, ProcessedNext, SeedInvariantHolds, PTL DEF ClientsSpec

\* What _generate_seed_data reports of the rows it made is so: what it counts exists,
\* in the state it counts it under, whatever _retry_request has sent twice, and nothing
\* else has been made but by requests that got no answer.  Its refunds_processed, which
\* looks at no answer, counts refunds that were created, and at least all that were
\* processed if every request was answered.
THEOREM SeedingCountsTrue == ClientsSpec => []SeedAccounted
<1>1. SeedInv /\ ProcessedInv => SeedAccounted
  <2> SUFFICES ASSUME SeedInv, ProcessedInv  PROVE  SeedAccounted
    OBVIOUS
  <2>1. \A c \in told["customer"] : customer[c] = "live"
    BY DEF SeedInv, SeedTypeOK, ToldTrue, CustomersThere
  <2>2. /\ \A p \in told["payment"] : status[p] # "none"
        /\ \A op \in DOMAIN Target : \A p \in told[op] : status[p] = Target[op]
        /\ \A r \in told["refund"] : refund[r].state # "none"
    BY DEF SeedInv, ToldTrue, Opened, RefundsThere, Moved
  <2>3. Existing <= 2 * had + Counted + lost
    <3>1. Existing + Cardinality(late) <= 2 * had + Counted + lost /\ Cardinality(late) \in Nat
      BY FS_CardinalityType DEF SeedInv, RowsAccounted
    <3>2. Existing \in Nat /\ Counted \in Nat /\ had \in Nat /\ lost \in Nat
      BY ExistingIs, CountedIs DEF SeedInv, SeedTypeOK, RowsAccounted, RowsFinite
    <3> QED  BY <3>1, <3>2
  <2>4. /\ told["process"] \subseteq told["refund"]
        /\ lost = 0 => \A r \in SeedRefunds : refund[r].state = "processed" => r \in told["process"]
    BY DEF ProcessedInv, Processed
  <2> QED  BY <2>1, <2>2, <2>3, <2>4 DEF SeedAccounted
<1> QED  BY <1>1, SeedInvariantHolds, ProcessedInvariantHolds, PTL
=============================================================================
