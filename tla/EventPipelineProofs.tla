--------------------------- MODULE EventPipelineProofs ---------------------------
(***************************************************************************)
(* What holds of the whole way of an event for any tenants, any number of  *)
(* overlapping task runs, and any number of failures on either side.       *)
(***************************************************************************)
EXTENDS EventPipeline, OutboxProofs

-----------------------------------------------------------------------------
(* Why the safety properties hold, with any number of publisher runs.      *)

\* The coroutine has a message in hand exactly when it is neither polling nor stuck:
\* the last one it was given, claimed in all steps that follow the claim.
MessageInHand ==
    IF step \in {"poll", "stuck"} THEN msg = None /\ at = None
    ELSE /\ at \in Merchants
         /\ position[at] \in 1..Len(topic[at])
         /\ topic[at][position[at]] = msg
         /\ step # "claim" => msg \in claimed

\* All messages before the position are claimed, but for one about to be.
NothingPassedBy ==
    \A m \in Merchants : \A i \in 1..position[m] :
        topic[m][i] \in claimed \/ (step = "claim" /\ at = m /\ i = position[m])

\* What the read database holds was claimed first, and what is claimed was sent;
\* an event in the middle of its steps is not applied yet.
ClaimsComeFirst ==
    /\ \A e \in claimed : InTopic(e)
    /\ Applied \subseteq claimed
    /\ dead \subseteq claimed
    /\ step \in {"ensure", "tables", "sync"} => msg \notin Applied
    /\ step = "commit" => msg \in Applied

\* Claims that led to nothing and that the coroutine does not work on any more.
GivenUp == {e \in claimed : /\ e \notin Applied /\ e \notin dead
                           /\ ~BeingHandled(e) /\ ~(e = msg /\ step = "dead_letter")}

\* Only a crash or a stop gives a claim up.
RestartsCounted == Cardinality(GivenUp) <= restarts

\* The inductive invariant of the consumer.
ConsumerInv ==
    /\ PipelineTypeOK
    /\ MessageInHand
    /\ NothingSkipped
    /\ NothingPassedBy
    /\ ClaimsComeFirst
    /\ AppliedOnce
    /\ RestartsCounted

\* A message in the middle of its steps is not filed yet: it is claimed once.
NotFiledYet == step \in {"ensure", "tables", "sync", "commit"} => msg \notin dead

\* Applied events among the dead letters, and the one about to be filed.
Doubted == {e \in Applied : e \in dead \/ (step = "dead_letter" /\ e = msg)}

\* What AppliedAndFiled needs beside the invariant of the consumer: only an error
\* brings an applied event there.
FiledInv == NotFiledYet /\ Cardinality(Doubted) <= errors

-----------------------------------------------------------------------------
(* And where the topic is in causal order.                                 *)

\* A merchant has one merchant.created that is not rolled back.
OneOnboarding ==
    \A d, e \in Events :
        /\ row[d] \notin {"none", "aborted"} /\ row[e] \notin {"none", "aborted"}
        /\ cause[d] = 0 /\ cause[e] = 0 /\ merchant[d] = merchant[e]
        => d = e

\* A merchant's first message is claimed before any other, and while its schema is
\* being created nothing else of the merchant has been claimed.
OnboardedFirst ==
    /\ \A e \in claimed : topic[merchant[e]][1] \in claimed
    /\ step \in {"ensure", "tables"} =>
           /\ cause[msg] = 0
           /\ msg \notin dead
           /\ \A e \in claimed : merchant[e] = at => e = msg

\* Dead letters of merchants with a working schema, and the one about to be filed.
Troubled == {e \in claimed : /\ schema[merchant[e]] = "ready"
                             /\ e \in dead \/ (step = "dead_letter" /\ e = msg)}

\* Only an error of its own gets an event of such a merchant there.
ErrorsCounted == Cardinality(Troubled) <= errors

\* What a causal topic adds to the invariant of the consumer.
HistoryInv == OneOnboarding /\ (OneAtATime => OnboardedFirst /\ ErrorsCounted)

-----------------------------------------------------------------------------

\* An empty pipeline satisfies the invariant of the consumer.
LEMMA ConsumerInit == PipelineInit => ConsumerInv
<1> SUFFICES ASSUME OutboxInit, Sync!SyncInit  PROVE  ConsumerInv
  BY DEF PipelineInit
<1> USE DEF Sync!SyncInit
<1>1. PipelineTypeOK
  BY OutboxInitInvariant, RestartsAssumption
  DEF PipelineTypeOK, OutboxInv, Sync!Steps
<1>2. MessageInHand /\ AppliedOnce
  BY DEF MessageInHand, AppliedOnce
<1>3. NothingSkipped /\ NothingPassedBy
  BY DEF NothingSkipped, NothingPassedBy, OutboxInit
<1>4. ClaimsComeFirst
  BY DEF ClaimsComeFirst, Applied
<1>5. RestartsCounted
  <2>1. GivenUp = {}  BY DEF GivenUp
  <2>2. Cardinality(GivenUp) = 0  BY <2>1, FS_EmptySet
  <2> QED  BY <2>2 DEF RestartsCounted
<1> QED  BY <1>1, <1>2, <1>3, <1>4, <1>5 DEF ConsumerInv

-----------------------------------------------------------------------------
(* Facts about the state the steps share.                                  *)

\* The message in hand is an event of the topic, from the tenant's partition.
LEMMA HandHoldsEvent ==
  ASSUME PipelineTypeOK, MessageInHand, step \notin {"poll", "stuck"}
  PROVE  /\ at \in Merchants /\ msg \in Events /\ InTopic(msg)
         /\ position[at] \in 1..Len(topic[at]) /\ topic[at][position[at]] = msg
         /\ topic[at] \in Seq(Events)
<1>1. /\ at \in Merchants /\ position[at] \in 1..Len(topic[at])
      /\ topic[at][position[at]] = msg
  BY DEF MessageInHand
<1>2. topic[at] \in Seq(Events)
  BY <1>1 DEF PipelineTypeOK, OutboxTypeOK
<1>3. position[at] \in DOMAIN topic[at] /\ msg \in Events
  BY <1>1, <1>2
<1> QED  BY <1>1, <1>2, <1>3 DEF InTopic

\* An event appended to the log of the read database joins the applied ones, and
\* stays single if it was not among them.
LEMMA ApplyOne ==
  ASSUME applied \in Seq(Events), NEW e \in Events, applied' = Append(applied, e)
  PROVE  /\ applied' \in Seq(Events)
         /\ Applied' = Applied \cup {e}
         /\ AppliedOnce /\ e \notin Applied => AppliedOnce'
<1>1. /\ Len(applied) \in Nat /\ DOMAIN applied = 1..Len(applied)
      /\ applied' \in Seq(Events) /\ DOMAIN applied' = 1..(Len(applied) + 1)
      /\ applied'[Len(applied) + 1] = e
      /\ \A i \in 1..Len(applied) : applied'[i] = applied[i]
  OBVIOUS
<1>2. Applied' = Applied \cup {e}
  <2>1. ASSUME NEW i \in DOMAIN applied'  PROVE  applied'[i] \in Applied \cup {e}
    <3>1. i = Len(applied) + 1 \/ i \in 1..Len(applied)  BY <1>1
    <3> QED  BY <3>1, <1>1 DEF Applied
  <2>2. ASSUME NEW i \in DOMAIN applied  PROVE  applied[i] \in Applied'
    <3>1. i \in DOMAIN applied' /\ applied'[i] = applied[i]  BY <1>1
    <3> QED  BY <3>1 DEF Applied
  <2>3. e \in Applied'
    <3>1. Len(applied) + 1 \in DOMAIN applied'  BY <1>1
    <3> QED  BY <3>1, <1>1 DEF Applied
  <2> QED  BY <2>1, <2>2, <2>3 DEF Applied
<1>3. ASSUME AppliedOnce, e \notin Applied  PROVE  AppliedOnce'
  <2> SUFFICES ASSUME NEW i \in DOMAIN applied', NEW j \in DOMAIN applied',
                      applied'[i] = applied'[j]
               PROVE  i = j
    BY DEF AppliedOnce
  <2>1. \A k \in 1..Len(applied) : applied'[k] # e
    BY <1>1, <1>3 DEF Applied
  <2>2. /\ i = Len(applied) + 1 \/ i \in 1..Len(applied)
        /\ j = Len(applied) + 1 \/ j \in 1..Len(applied)
    BY <1>1
  <2> QED  BY <2>1, <2>2, <1>1, <1>3 DEF AppliedOnce
<1> QED  BY <1>1, <1>2, <1>3

\* A step that is no restart and gives up no claim keeps the count.
LEMMA NoneGivenUp ==
  ASSUME PipelineTypeOK, RestartsCounted, restarts' = restarts, GivenUp' \subseteq GivenUp
  PROVE  RestartsCounted'
<1>1. IsFiniteSet(GivenUp)
  BY EventsFinite DEF GivenUp, PipelineTypeOK
<1>2. /\ Cardinality(GivenUp') <= Cardinality(GivenUp)
      /\ Cardinality(GivenUp) \in Nat /\ Cardinality(GivenUp') \in Nat
  BY <1>1, FS_Subset, FS_CardinalityType
<1>3. Cardinality(GivenUp) <= restarts /\ restarts \in Nat
  BY DEF RestartsCounted, PipelineTypeOK
<1> QED  BY <1>2, <1>3 DEF RestartsCounted

\* The outbox changes the topic only by appending to it.
LEMMA TopicAppendOnly ==
  ASSUME OutboxInv, [OutboxNext]_outboxVars, NEW m \in Merchants
  PROVE  /\ Len(topic[m]) \in Nat /\ Len(topic'[m]) \in Nat
         /\ Len(topic[m]) <= Len(topic'[m])
         /\ \A i \in 1..Len(topic[m]) : topic'[m][i] = topic[m][i]
<1>1. topic[m] \in Seq(Events) /\ Len(topic[m]) \in Nat
  BY DEF OutboxInv, OutboxTypeOK
<1>2. CASE topic' = topic
  BY <1>1, <1>2
<1>3. ASSUME NEW k \in Publishers, NEW e \in Events, Send(k, e)
      PROVE  /\ Len(topic'[m]) \in Nat /\ Len(topic[m]) <= Len(topic'[m])
             /\ \A i \in 1..Len(topic[m]) : topic'[m][i] = topic[m][i]
  <2>1. topic' = [topic EXCEPT ![merchant[e]] = Append(topic[merchant[e]], e)]
    BY <1>3 DEF Send
  <2>2. topic'[m] = topic[m] \/ topic'[m] = Append(topic[m], e)
    BY <2>1 DEF OutboxInv, OutboxTypeOK
  <2> QED  BY <1>1, <2>2
<1>4. topic' = topic \/ \E k \in Publishers, e \in Events : Send(k, e)
  BY DEF OutboxNext, Requests, Emit, EndRequest, Task, Deliver, Fetch, LoseSend,
         MarkPublished, FailRun, outboxVars
<1> QED  BY <1>1, <1>2, <1>3, <1>4

-----------------------------------------------------------------------------
(* The steps, one lemma each.                                              *)

\* The publisher runs beside the consumer without disturbing it.
LEMMA OutboxKeepsConsumer ==
  ASSUME OutboxInv, ConsumerInv, [OutboxNext]_outboxVars, UNCHANGED syncVars
  PROVE  ConsumerInv'
<1> USE DEF ConsumerInv
<1>1. UNCHANGED <<position, committed, step, msg, at, claimed, applied, dead, schema, restarts, errors>>
  BY DEF syncVars
<1>2. \A m \in Merchants : /\ Len(topic[m]) \in Nat /\ Len(topic'[m]) \in Nat
                           /\ Len(topic[m]) <= Len(topic'[m])
                           /\ \A i \in 1..Len(topic[m]) : topic'[m][i] = topic[m][i]
  BY TopicAppendOnly
<1>3. OutboxTypeOK'
  BY OutboxNextInvariant DEF OutboxInv
<1>4. PipelineTypeOK'
  BY <1>1, <1>3 DEF PipelineTypeOK
<1>5. MessageInHand'
  BY <1>1, <1>2 DEF MessageInHand
<1>6. \A m \in Merchants : position[m] \in Nat /\ committed[m] \in Nat
  BY DEF PipelineTypeOK
<1>7. NothingSkipped' /\ NothingPassedBy'
  BY <1>1, <1>2, <1>6 DEF NothingSkipped, NothingPassedBy
<1>8. \A e \in Events : InTopic(e) => InTopic(e)'
  <2> SUFFICES ASSUME NEW e \in Events, NEW m \in Merchants, NEW i \in DOMAIN topic[m],
                      topic[m][i] = e
               PROVE  InTopic(e)'
    BY DEF InTopic
  <2>1. topic[m] \in Seq(Events) /\ topic'[m] \in Seq(Events)
    BY <1>3 DEF OutboxInv, OutboxTypeOK
  <2>2. i \in DOMAIN topic'[m] /\ topic'[m][i] = e
    BY <2>1, <1>2
  <2> QED  BY <2>2 DEF InTopic
<1>9. ClaimsComeFirst'
  BY <1>1, <1>8 DEF ClaimsComeFirst, Applied, PipelineTypeOK
<1>10. AppliedOnce'
  BY <1>1 DEF AppliedOnce
<1>11. RestartsCounted'
  BY <1>1 DEF RestartsCounted, GivenUp, Applied, BeingHandled
<1> QED  BY <1>4, <1>5, <1>7, <1>9, <1>10, <1>11

\* getone hands out the next message, of which nothing is claimed yet.
LEMMA PollKeeps ==
  ASSUME ConsumerInv, NEW m \in Merchants, Sync!Poll(m), UNCHANGED outboxVars
  PROVE  ConsumerInv'
<1> USE DEF ConsumerInv
<1>1. /\ step = "poll" /\ position[m] < Len(topic[m])
      /\ position' = [position EXCEPT ![m] = position[m] + 1]
      /\ msg' = topic[m][position[m] + 1] /\ at' = m /\ step' = "claim"
      /\ UNCHANGED <<committed, claimed, applied, dead, schema, restarts, errors>>
      /\ UNCHANGED <<row, merchant, cause, batch, buffer, topic, failures, lost, overlapped>>
  BY DEF Sync!Poll, Sync!readDb, outboxVars
<1>2. /\ topic[m] \in Seq(Events) /\ position[m] \in Nat
      /\ position'[m] = position[m] + 1
      /\ \A n \in Merchants : n # m => position'[n] = position[n]
  BY <1>1 DEF PipelineTypeOK, OutboxTypeOK
<1>3. position'[m] \in 1..Len(topic[m]) /\ msg' \in Events
  BY <1>1, <1>2
<1>4. PipelineTypeOK'
  <2>1. OutboxTypeOK'  BY <1>1 DEF PipelineTypeOK, OutboxTypeOK
  <2>2. position' \in [Merchants -> Nat]  BY <1>1, <1>2 DEF PipelineTypeOK
  <2> QED  BY <2>1, <2>2, <1>1, <1>3 DEF PipelineTypeOK, Sync!Steps
<1>5. MessageInHand'
  BY <1>1, <1>2, <1>3 DEF MessageInHand
<1>6. NothingSkipped'
  BY <1>1, <1>2, <1>3 DEF NothingSkipped, PipelineTypeOK
<1>7. NothingPassedBy'
  <2> SUFFICES ASSUME NEW n \in Merchants, NEW i \in 1..position'[n]
               PROVE  topic[n][i] \in claimed \/ (n = m /\ i = position'[n])
    BY <1>1 DEF NothingPassedBy
  <2>1. CASE n = m
    <3>1. i = position'[m] \/ i \in 1..position[m]  BY <2>1, <1>2
    <3> QED  BY <3>1, <2>1, <1>1 DEF NothingPassedBy
  <2>2. CASE n # m  BY <2>2, <1>1, <1>2 DEF NothingPassedBy
  <2> QED  BY <2>1, <2>2
<1>8. ClaimsComeFirst' /\ AppliedOnce'
  BY <1>1 DEF ClaimsComeFirst, AppliedOnce, Applied, InTopic
<1>9. RestartsCounted'
  <2>1. GivenUp' \subseteq GivenUp
    BY <1>1 DEF GivenUp, Applied, BeingHandled
  <2> QED  BY <2>1, <1>1, NoneGivenUp
<1> QED  BY <1>4, <1>5, <1>6, <1>7, <1>8, <1>9

\* INSERT ... ON CONFLICT DO NOTHING claims the message in hand, or finds it claimed.
LEMMA ClaimKeeps ==
  ASSUME ConsumerInv, Sync!Claim, UNCHANGED outboxVars
  PROVE  ConsumerInv'
<1> USE DEF ConsumerInv
<1>1. /\ step = "claim"
      /\ claimed' = claimed \cup {msg}
      /\ \/ msg \notin claimed /\ step' \in {"ensure", "sync"}
         \/ msg \in claimed /\ step' = "ack"
      /\ UNCHANGED <<position, committed, msg, at, applied, dead, schema, restarts, errors>>
      /\ UNCHANGED <<row, merchant, cause, batch, buffer, topic, failures, lost, overlapped>>
  BY DEF Sync!Claim, Sync!FirstStep, outboxVars
<1>2. at \in Merchants /\ msg \in Events /\ InTopic(msg) /\ topic[at][position[at]] = msg
  BY <1>1, HandHoldsEvent
<1>3. PipelineTypeOK'
  <2>1. OutboxTypeOK'  BY <1>1 DEF PipelineTypeOK, OutboxTypeOK
  <2> QED  BY <2>1, <1>1, <1>2 DEF PipelineTypeOK, Sync!Steps
<1>4. MessageInHand'
  BY <1>1 DEF MessageInHand
<1>5. NothingSkipped' /\ NothingPassedBy'
  BY <1>1, <1>2 DEF NothingSkipped, NothingPassedBy
<1>6. ClaimsComeFirst' /\ AppliedOnce'
  BY <1>1, <1>2 DEF ClaimsComeFirst, AppliedOnce, Applied, InTopic
<1>7. RestartsCounted'
  <2>1. GivenUp' \subseteq GivenUp
    BY <1>1 DEF GivenUp, Applied, BeingHandled
  <2> QED  BY <2>1, <1>1, NoneGivenUp
<1> QED  BY <1>3, <1>4, <1>5, <1>6, <1>7

\* The schema of a merchant is no part of the bookkeeping.
LEMMA SchemaStepsKeep ==
  ASSUME ConsumerInv, Sync!EnsureSchema \/ Sync!CreateTables, UNCHANGED outboxVars
  PROVE  ConsumerInv'
<1> USE DEF ConsumerInv
<1>1. /\ step \in {"ensure", "tables"} /\ step' \in {"tables", "sync"}
      /\ \/ schema' = schema
         \/ \E s \in {"partial", "ready"} : schema' = [schema EXCEPT ![at] = s]
      /\ UNCHANGED <<position, committed, msg, at, claimed, applied, dead, restarts, errors>>
      /\ UNCHANGED <<row, merchant, cause, batch, buffer, topic, failures, lost, overlapped>>
  BY DEF Sync!EnsureSchema, Sync!CreateTables, outboxVars
<1>2. PipelineTypeOK'
  <2>1. OutboxTypeOK'  BY <1>1 DEF PipelineTypeOK, OutboxTypeOK
  <2>2. schema' \in [Merchants -> {"none", "partial", "ready"}]
    BY <1>1 DEF PipelineTypeOK
  <2> QED  BY <2>1, <2>2, <1>1 DEF PipelineTypeOK, Sync!Steps
<1>3. MessageInHand' /\ NothingSkipped' /\ NothingPassedBy' /\ AppliedOnce'
  BY <1>1 DEF MessageInHand, NothingSkipped, NothingPassedBy, AppliedOnce
<1>4. ClaimsComeFirst'
  BY <1>1 DEF ClaimsComeFirst, Applied, InTopic
<1>5. RestartsCounted'
  <2>1. GivenUp' \subseteq GivenUp
    BY <1>1 DEF GivenUp, Applied, BeingHandled
  <2> QED  BY <2>1, <1>1, NoneGivenUp
<1> QED  BY <1>2, <1>3, <1>4, <1>5

\* sync_event applies the message in hand, which is not applied yet, or raises.
LEMMA SyncEventKeeps ==
  ASSUME ConsumerInv, Sync!SyncEvent, UNCHANGED outboxVars
  PROVE  ConsumerInv'
<1> USE DEF ConsumerInv
<1>1. /\ step = "sync"
      /\ \/ applied' = Append(applied, msg) /\ step' = "commit"
         \/ applied' = applied /\ step' = "dead_letter"
      /\ UNCHANGED <<position, committed, msg, at, claimed, dead, schema, restarts, errors>>
      /\ UNCHANGED <<row, merchant, cause, batch, buffer, topic, failures, lost, overlapped>>
  BY DEF Sync!SyncEvent, outboxVars
<1>2. msg \in Events /\ msg \in claimed /\ msg \notin Applied /\ applied \in Seq(Events)
  BY <1>1, HandHoldsEvent DEF MessageInHand, ClaimsComeFirst, PipelineTypeOK
<1>3. \/ /\ step' = "commit"
         /\ Applied' = Applied \cup {msg} /\ applied' \in Seq(Events) /\ AppliedOnce'
      \/ /\ step' = "dead_letter"
         /\ Applied' = Applied /\ applied' \in Seq(Events) /\ AppliedOnce'
  <2>1. CASE applied' = Append(applied, msg)  BY <2>1, <1>1, <1>2, ApplyOne
  <2>2. CASE applied' = applied  BY <2>2, <1>1, <1>2 DEF Applied, AppliedOnce
  <2> QED  BY <1>1, <2>1, <2>2
<1>4. PipelineTypeOK'
  <2>1. OutboxTypeOK'  BY <1>1 DEF PipelineTypeOK, OutboxTypeOK
  <2> QED  BY <2>1, <1>1, <1>3 DEF PipelineTypeOK, Sync!Steps
<1>5. MessageInHand' /\ NothingSkipped' /\ NothingPassedBy'
  BY <1>1 DEF MessageInHand, NothingSkipped, NothingPassedBy
<1>6. ClaimsComeFirst'
  <2>1. \A e : InTopic(e)' <=> InTopic(e)  BY <1>1 DEF InTopic
  <2> QED  BY <2>1, <1>1, <1>2, <1>3 DEF ClaimsComeFirst
<1>7. RestartsCounted'
  <2>1. GivenUp' \subseteq GivenUp
    BY <1>1, <1>3 DEF GivenUp, BeingHandled
  <2> QED  BY <2>1, <1>1, NoneGivenUp
<1> QED  BY <1>3, <1>4, <1>5, <1>6, <1>7

\* An exception inside the try block leaves the message to the dead letters.
LEMMA StepFailsKeeps ==
  ASSUME ConsumerInv, Sync!StepFails, UNCHANGED outboxVars
  PROVE  ConsumerInv'
<1> USE DEF ConsumerInv
<1>1. /\ step \in {"ensure", "tables", "sync", "commit"} /\ step' = "dead_letter"
      /\ errors < MaxErrors /\ errors' = errors + 1
      /\ UNCHANGED <<position, committed, msg, at, claimed, applied, dead, schema, restarts>>
      /\ UNCHANGED <<row, merchant, cause, batch, buffer, topic, failures, lost, overlapped>>
  BY DEF Sync!StepFails, Sync!readDb, outboxVars
<1>2. PipelineTypeOK'
  <2>1. OutboxTypeOK'  BY <1>1 DEF PipelineTypeOK, OutboxTypeOK
  <2>2. errors' \in 0..MaxErrors
    BY <1>1, RestartsAssumption DEF PipelineTypeOK
  <2> QED  BY <2>1, <2>2, <1>1 DEF PipelineTypeOK, Sync!Steps
<1>3. MessageInHand' /\ NothingSkipped' /\ NothingPassedBy' /\ AppliedOnce'
  BY <1>1 DEF MessageInHand, NothingSkipped, NothingPassedBy, AppliedOnce
<1>4. ClaimsComeFirst'
  BY <1>1 DEF ClaimsComeFirst, Applied, InTopic
<1>5. RestartsCounted'
  <2>1. GivenUp' \subseteq GivenUp
    BY <1>1 DEF GivenUp, Applied, BeingHandled, ClaimsComeFirst
  <2> QED  BY <2>1, <1>1, NoneGivenUp
<1> QED  BY <1>2, <1>3, <1>4, <1>5

\* The message in hand, claimed before, is filed among the dead letters.
LEMMA DeadLetterKeeps ==
  ASSUME ConsumerInv, Sync!DeadLetter, UNCHANGED outboxVars
  PROVE  ConsumerInv'
<1> USE DEF ConsumerInv
<1>1. /\ step = "dead_letter" /\ step' = "ack" /\ dead' = dead \cup {msg}
      /\ UNCHANGED <<position, committed, msg, at, claimed, applied, schema, restarts, errors>>
      /\ UNCHANGED <<row, merchant, cause, batch, buffer, topic, failures, lost, overlapped>>
  BY DEF Sync!DeadLetter, outboxVars
<1>2. msg \in Events /\ msg \in claimed
  BY <1>1, HandHoldsEvent DEF MessageInHand
<1>3. PipelineTypeOK'
  <2>1. OutboxTypeOK'  BY <1>1 DEF PipelineTypeOK, OutboxTypeOK
  <2> QED  BY <2>1, <1>1, <1>2 DEF PipelineTypeOK, Sync!Steps
<1>4. MessageInHand' /\ NothingSkipped' /\ NothingPassedBy' /\ AppliedOnce'
  BY <1>1 DEF MessageInHand, NothingSkipped, NothingPassedBy, AppliedOnce
<1>5. ClaimsComeFirst'
  BY <1>1, <1>2 DEF ClaimsComeFirst, Applied, InTopic
<1>6. RestartsCounted'
  <2>1. GivenUp' \subseteq GivenUp
    BY <1>1 DEF GivenUp, Applied, BeingHandled
  <2> QED  BY <2>1, <1>1, NoneGivenUp
<1> QED  BY <1>3, <1>4, <1>5, <1>6

\* The offset is committed when all that getone has returned is claimed.
LEMMA CommitOffsetKeeps ==
  ASSUME ConsumerInv, Sync!CommitOffset, UNCHANGED outboxVars
  PROVE  ConsumerInv'
<1> USE DEF ConsumerInv
<1>1. /\ step \in {"commit", "ack"} /\ step' = "poll" /\ committed' = position
      /\ msg' = None /\ at' = None
      /\ UNCHANGED <<position, claimed, applied, dead, schema, restarts, errors>>
      /\ UNCHANGED <<row, merchant, cause, batch, buffer, topic, failures, lost, overlapped>>
  BY DEF Sync!CommitOffset, Sync!readDb, outboxVars
<1>2. PipelineTypeOK'
  <2>1. OutboxTypeOK'  BY <1>1 DEF PipelineTypeOK, OutboxTypeOK
  <2> QED  BY <2>1, <1>1 DEF PipelineTypeOK, Sync!Steps
<1>3. MessageInHand' /\ AppliedOnce'
  BY <1>1 DEF MessageInHand, AppliedOnce
<1>4. NothingSkipped' /\ NothingPassedBy'
  BY <1>1 DEF NothingSkipped, NothingPassedBy, PipelineTypeOK
<1>5. ClaimsComeFirst'
  BY <1>1 DEF ClaimsComeFirst, Applied, InTopic
<1>6. RestartsCounted'
  <2>1. GivenUp' \subseteq GivenUp
    BY <1>1 DEF GivenUp, Applied, BeingHandled
  <2> QED  BY <2>1, <1>1, NoneGivenUp
<1> QED  BY <1>2, <1>3, <1>4, <1>5, <1>6

\* A restart goes back to offsets below which all is claimed, and gives up one claim.
LEMMA RestartKeeps ==
  ASSUME ConsumerInv, Sync!Restart, UNCHANGED outboxVars
  PROVE  ConsumerInv'
<1> USE DEF ConsumerInv
<1>1. /\ restarts < MaxRestarts /\ restarts' = restarts + 1
      /\ position' = committed /\ step' = "poll" /\ msg' = None /\ at' = None
      /\ UNCHANGED <<committed, claimed, applied, dead, schema, errors>>
      /\ UNCHANGED <<row, merchant, cause, batch, buffer, topic, failures, lost, overlapped>>
  BY DEF Sync!Restart, Sync!readDb, outboxVars
<1>2. PipelineTypeOK'
  <2>1. OutboxTypeOK'  BY <1>1 DEF PipelineTypeOK, OutboxTypeOK
  <2>2. restarts' \in 0..MaxRestarts
    BY <1>1, RestartsAssumption DEF PipelineTypeOK
  <2> QED  BY <2>1, <2>2, <1>1 DEF PipelineTypeOK, Sync!Steps
<1>3. MessageInHand' /\ AppliedOnce'
  BY <1>1 DEF MessageInHand, AppliedOnce
<1>4. NothingSkipped' /\ NothingPassedBy'
  <2>1. \A m \in Merchants : position[m] \in Nat /\ committed[m] \in Nat
    BY DEF PipelineTypeOK
  <2>2. \A m \in Merchants : topic[m] \in Seq(Events) /\ Len(topic[m]) \in Nat
    BY DEF PipelineTypeOK, OutboxTypeOK
  <2> QED  BY <1>1, <2>1, <2>2 DEF NothingSkipped, NothingPassedBy
<1>5. ClaimsComeFirst'
  BY <1>1 DEF ClaimsComeFirst, Applied, InTopic
<1>6. RestartsCounted'
  <2>1. GivenUp' \subseteq GivenUp \cup {msg}
    BY <1>1 DEF GivenUp, Applied, BeingHandled
  <2>2. IsFiniteSet(GivenUp)
    BY EventsFinite DEF GivenUp, PipelineTypeOK
  <2>3. /\ Cardinality(GivenUp') <= Cardinality(GivenUp) + 1
        /\ Cardinality(GivenUp) \in Nat /\ Cardinality(GivenUp') \in Nat
    BY <2>1, <2>2, OneMore
  <2> QED  BY <2>3, <1>1 DEF RestartsCounted, PipelineTypeOK
<1> QED  BY <1>2, <1>3, <1>4, <1>5, <1>6

\* An exception outside the inner try block gives up the message in hand, whether or not
\* its claim or its dead letter was committed.
LEMMA StopKeeps ==
  ASSUME ConsumerInv, Sync!Stop, UNCHANGED outboxVars
  PROVE  ConsumerInv'
<1> USE DEF ConsumerInv
<1>1. /\ step \in {"poll", "claim", "dead_letter", "ack"}
      /\ restarts < MaxRestarts /\ restarts' = restarts + 1
      /\ position' = committed' /\ step' = "stuck" /\ msg' = None /\ at' = None
      /\ claimed' = claimed \/ (step = "claim" /\ claimed' = claimed \cup {msg})
      /\ dead' = dead \/ (step = "dead_letter" /\ dead' = dead \cup {msg})
      /\ committed' = committed \/ (step = "ack" /\ committed' = position)
      /\ UNCHANGED <<applied, schema, errors>>
      /\ UNCHANGED <<row, merchant, cause, batch, buffer, topic, failures, lost, overlapped>>
  BY DEF Sync!Stop, Sync!Unanswered, outboxVars
<1>2. /\ step \in {"claim", "dead_letter"} => msg \in Events /\ InTopic(msg)
      /\ step = "dead_letter" => msg \in claimed
  BY <1>1, HandHoldsEvent DEF MessageInHand
<1>3. PipelineTypeOK'
  <2>1. OutboxTypeOK'  BY <1>1 DEF PipelineTypeOK, OutboxTypeOK
  <2>2. restarts' \in 0..MaxRestarts
    BY <1>1, RestartsAssumption DEF PipelineTypeOK
  <2>3. /\ committed' \in [Merchants -> Nat] /\ position' \in [Merchants -> Nat]
        /\ claimed' \subseteq Events /\ dead' \subseteq Events
    BY <1>1, <1>2 DEF PipelineTypeOK
  <2>4. step' \in Sync!Steps /\ msg' \in Events \cup {None} /\ at' \in Merchants \cup {None}
    BY <1>1 DEF Sync!Steps
  <2> QED  BY <2>1, <2>2, <2>3, <2>4, <1>1 DEF PipelineTypeOK
<1>4. MessageInHand' /\ AppliedOnce'
  BY <1>1 DEF MessageInHand, AppliedOnce
<1>5. NothingSkipped' /\ NothingPassedBy'
  <2>1. \A m \in Merchants : position[m] \in Nat /\ committed[m] \in Nat
    BY DEF PipelineTypeOK
  <2>2. \A m \in Merchants : topic[m] \in Seq(Events) /\ Len(topic[m]) \in Nat
    BY DEF PipelineTypeOK, OutboxTypeOK
  <2>3. \A m \in Merchants :
            /\ committed'[m] <= Len(topic[m])
            /\ \A i \in 1..committed'[m] : topic[m][i] \in claimed'
    BY <1>1, <2>1, <2>2 DEF NothingSkipped, NothingPassedBy
  <2> QED  BY <1>1, <2>1, <2>2, <2>3 DEF NothingSkipped, NothingPassedBy
<1>6. ClaimsComeFirst'
  BY <1>1, <1>2 DEF ClaimsComeFirst, Applied, InTopic
<1>7. RestartsCounted'
  <2>1. GivenUp' \subseteq GivenUp \cup {msg}
    BY <1>1 DEF GivenUp, Applied, BeingHandled
  <2>2. IsFiniteSet(GivenUp)
    BY EventsFinite DEF GivenUp, PipelineTypeOK
  <2>3. /\ Cardinality(GivenUp') <= Cardinality(GivenUp) + 1
        /\ Cardinality(GivenUp) \in Nat /\ Cardinality(GivenUp') \in Nat
    BY <2>1, <2>2, OneMore
  <2> QED  BY <2>3, <1>1 DEF RestartsCounted, PipelineTypeOK
<1> QED  BY <1>3, <1>4, <1>5, <1>6, <1>7

\* A new process goes on where the stopped consumer's group is.
LEMMA RedeployKeeps ==
  ASSUME ConsumerInv, Sync!Redeploy, UNCHANGED outboxVars
  PROVE  ConsumerInv'
<1> USE DEF ConsumerInv
<1>1. /\ step = "stuck" /\ step' = "poll"
      /\ UNCHANGED <<position, committed, msg, at, claimed, applied, dead, schema, restarts, errors>>
      /\ UNCHANGED <<row, merchant, cause, batch, buffer, topic, failures, lost, overlapped>>
  BY DEF Sync!Redeploy, Sync!readDb, outboxVars
<1>2. PipelineTypeOK'
  <2>1. OutboxTypeOK'  BY <1>1 DEF PipelineTypeOK, OutboxTypeOK
  <2> QED  BY <2>1, <1>1 DEF PipelineTypeOK, Sync!Steps
<1>3. MessageInHand' /\ AppliedOnce' /\ NothingSkipped' /\ NothingPassedBy'
  BY <1>1 DEF MessageInHand, AppliedOnce, NothingSkipped, NothingPassedBy
<1>4. ClaimsComeFirst'
  BY <1>1 DEF ClaimsComeFirst, Applied, InTopic
<1>5. RestartsCounted'
  <2>1. GivenUp' \subseteq GivenUp
    BY <1>1 DEF GivenUp, Applied, BeingHandled
  <2> QED  BY <2>1, <1>1, NoneGivenUp
<1> QED  BY <1>2, <1>3, <1>4, <1>5

LEMMA ConsumerNextInvariant ==
  OutboxInv /\ ConsumerInv /\ [PipelineNext]_pipelineVars => ConsumerInv'
<1> SUFFICES ASSUME OutboxInv, ConsumerInv, [PipelineNext]_pipelineVars
             PROVE  ConsumerInv'
  OBVIOUS
<1>1. CASE [OutboxNext]_outboxVars /\ UNCHANGED syncVars
  BY <1>1, OutboxKeepsConsumer
<1>2. CASE Sync!SyncNext /\ UNCHANGED outboxVars
  BY <1>2, PollKeeps, ClaimKeeps, SchemaStepsKeep, SyncEventKeeps, StepFailsKeeps,
     DeadLetterKeeps, CommitOffsetKeeps, RestartKeeps, StopKeeps, RedeployKeeps
  DEF Sync!SyncNext, Sync!Advance
<1> QED  BY <1>1, <1>2 DEF PipelineNext, pipelineVars

-----------------------------------------------------------------------------

\* The pipeline leaves the outbox as it is on its own.
LEMMA PipelineOutbox == PipelineSpec => []OutboxInv
<1>1. PipelineInit => OutboxInv
  BY OutboxInitInvariant DEF PipelineInit
<1>2. OutboxInv /\ [PipelineNext]_pipelineVars => OutboxInv'
  <2>1. [PipelineNext]_pipelineVars => [OutboxNext]_outboxVars
    BY DEF PipelineNext, pipelineVars
  <2> QED  BY <2>1, OutboxNextInvariant
<1> QED  BY <1>1, <1>2, PTL DEF PipelineSpec

\* Whatever overlaps, crashes or is delivered twice, the consumer's bookkeeping is
\* consistent: the inductive invariant of start_db_sync_consumer.
THEOREM ConsumerInvariantHolds == PipelineSpec => []ConsumerInv
  BY ConsumerInit, ConsumerNextInvariant, PipelineOutbox, PTL DEF PipelineSpec

\* Outbox, topic, consumer and read database keep their types.
THEOREM PipelineTypeCorrect == PipelineSpec => []PipelineTypeOK
<1>1. ConsumerInv => PipelineTypeOK  BY DEF ConsumerInv
<1> QED  BY <1>1, ConsumerInvariantHolds, PTL

\* The read database applies an event at most once: the claim in processed_events
\* makes duplicates and replays harmless.
THEOREM NeverAppliedTwice == PipelineSpec => []AppliedOnce
<1>1. ConsumerInv => AppliedOnce  BY DEF ConsumerInv
<1> QED  BY <1>1, ConsumerInvariantHolds, PTL

\* Restarts at the committed offset never pass over a message: all below is claimed.
THEOREM NoMessageSkipped == PipelineSpec => []NothingSkipped
<1>1. ConsumerInv => NothingSkipped  BY DEF ConsumerInv
<1> QED  BY <1>1, ConsumerInvariantHolds, PTL

\* A claim that is neither applied nor dead-lettered was given up by a restart, one
\* for each: the claim commits before the event is applied.
THEOREM RestartsCostOneEach == PipelineSpec => []OneLossPerRestart
<1>1. ConsumerInv => OneLossPerRestart
  <2> SUFFICES ASSUME ConsumerInv  PROVE  Cardinality(Vanished) <= restarts
    BY DEF OneLossPerRestart
  <2>1. IsFiniteSet(GivenUp) /\ Vanished \subseteq GivenUp
    BY EventsFinite DEF GivenUp, Vanished, BeingHandled, ConsumerInv, PipelineTypeOK
  <2>2. /\ Cardinality(Vanished) <= Cardinality(GivenUp)
        /\ Cardinality(Vanished) \in Nat /\ Cardinality(GivenUp) \in Nat
    BY <2>1, FS_Subset, FS_CardinalityType
  <2> QED  BY <2>2 DEF ConsumerInv, RestartsCounted, PipelineTypeOK
<1> QED  BY <1>1, ConsumerInvariantHolds, PTL

-----------------------------------------------------------------------------
(* Applied events among the dead letters.                                  *)

\* A step that is no error and adds no applied event to them keeps the count.
LEMMA NoneDoubted ==
  ASSUME ConsumerInv, FiledInv, NotFiledYet', errors' = errors, Doubted' \subseteq Doubted
  PROVE  FiledInv'
<1>1. IsFiniteSet(Doubted)
  BY EventsFinite, FS_Subset DEF Doubted, ConsumerInv, ClaimsComeFirst, PipelineTypeOK
<1>2. /\ Cardinality(Doubted') <= Cardinality(Doubted)
      /\ Cardinality(Doubted) \in Nat /\ Cardinality(Doubted') \in Nat
  BY <1>1, FS_Subset, FS_CardinalityType
<1>3. Cardinality(Doubted) <= errors /\ errors \in Nat
  BY DEF FiledInv, ConsumerInv, PipelineTypeOK
<1> QED  BY <1>2, <1>3 DEF FiledInv

\* sync_event either applies the event or raises; the commit that follows may fail.
LEMMA FiledNextInvariant ==
  ConsumerInv /\ FiledInv /\ [PipelineNext]_pipelineVars => FiledInv'
<1> SUFFICES ASSUME ConsumerInv, FiledInv, [PipelineNext]_pipelineVars  PROVE  FiledInv'
  OBVIOUS
<1>1. ASSUME UNCHANGED <<applied, dead, errors>>,
             step' \notin {"ensure", "tables", "sync", "commit", "dead_letter"}
      PROVE  FiledInv'
  BY <1>1, NoneDoubted DEF Doubted, Applied, NotFiledYet
<1>2. CASE UNCHANGED syncVars
  <2>1. NotFiledYet' /\ errors' = errors /\ Doubted' \subseteq Doubted
    BY <1>2 DEF syncVars, FiledInv, NotFiledYet, Doubted, Applied
  <2> QED  BY <2>1, NoneDoubted
<1>3. ASSUME NEW m \in Merchants, Sync!Poll(m)  PROVE  FiledInv'
  BY <1>1, <1>3 DEF Sync!Poll, Sync!readDb
<1>4. CASE Sync!Claim
  <2>1. CASE msg \in claimed
    BY <2>1, <1>1, <1>4 DEF Sync!Claim
  <2>2. CASE msg \notin claimed
    <3>1. /\ msg \notin dead /\ step' # "dead_letter"
          /\ UNCHANGED <<msg, applied, dead, errors>>
      BY <2>2, <1>4 DEF Sync!Claim, Sync!FirstStep, ConsumerInv, ClaimsComeFirst
    <3>2. NotFiledYet' /\ Doubted' \subseteq Doubted
      BY <3>1 DEF NotFiledYet, Doubted, Applied
    <3> QED  BY <3>1, <3>2, NoneDoubted
  <2> QED  BY <2>1, <2>2
<1>5. CASE Sync!EnsureSchema \/ Sync!CreateTables
  <2>1. /\ step \in {"ensure", "tables"} /\ step' \in {"tables", "sync"}
        /\ UNCHANGED <<msg, applied, dead, errors>>
    BY <1>5 DEF Sync!EnsureSchema, Sync!CreateTables
  <2>2. NotFiledYet' /\ Doubted' \subseteq Doubted
    BY <2>1 DEF FiledInv, NotFiledYet, Doubted, Applied
  <2> QED  BY <2>1, <2>2, NoneDoubted
<1>6. CASE Sync!SyncEvent
  <2>1. /\ step = "sync" /\ msg \notin dead /\ msg \notin Applied
        /\ msg \in Events /\ applied \in Seq(Events)
    BY <1>6, HandHoldsEvent
    DEF Sync!SyncEvent, FiledInv, NotFiledYet, ConsumerInv, ClaimsComeFirst, PipelineTypeOK
  <2>2. CASE applied' = Append(applied, msg) /\ step' = "commit"
    <3>1. Applied' = Applied \cup {msg}
      BY <2>1, <2>2, ApplyOne
    <3>2. UNCHANGED <<msg, dead, errors>>
      BY <1>6 DEF Sync!SyncEvent
    <3>3. NotFiledYet' /\ Doubted' \subseteq Doubted
      BY <2>1, <2>2, <3>1, <3>2 DEF NotFiledYet, Doubted
    <3> QED  BY <3>2, <3>3, NoneDoubted
  <2>3. CASE applied' = applied /\ step' = "dead_letter"
    <3>1. UNCHANGED <<msg, dead, errors>>
      BY <1>6 DEF Sync!SyncEvent
    <3>2. NotFiledYet' /\ Doubted' \subseteq Doubted
      BY <2>1, <2>3, <3>1 DEF NotFiledYet, Doubted, Applied
    <3> QED  BY <3>1, <3>2, NoneDoubted
  <2> QED  BY <2>2, <2>3, <1>6 DEF Sync!SyncEvent
<1>7. CASE Sync!StepFails
  <2>1. step' = "dead_letter" /\ errors' = errors + 1 /\ UNCHANGED <<msg, applied, dead>>
    BY <1>7 DEF Sync!StepFails, Sync!readDb
  <2>2. NotFiledYet' /\ Doubted' \subseteq Doubted \cup {msg}
    BY <2>1 DEF NotFiledYet, Doubted, Applied
  <2>3. IsFiniteSet(Doubted)
    BY EventsFinite, FS_Subset DEF Doubted, ConsumerInv, ClaimsComeFirst, PipelineTypeOK
  <2>4. /\ Cardinality(Doubted') <= Cardinality(Doubted) + 1
        /\ Cardinality(Doubted) \in Nat /\ Cardinality(Doubted') \in Nat
    BY <2>2, <2>3, OneMore
  <2> QED  BY <2>1, <2>2, <2>4 DEF FiledInv, ConsumerInv, PipelineTypeOK
<1>8. CASE Sync!DeadLetter
  <2>1. /\ step = "dead_letter" /\ step' = "ack" /\ dead' = dead \cup {msg}
        /\ UNCHANGED <<msg, applied, errors>>
    BY <1>8 DEF Sync!DeadLetter
  <2>2. NotFiledYet' /\ Doubted' \subseteq Doubted
    BY <2>1 DEF NotFiledYet, Doubted, Applied
  <2> QED  BY <2>1, <2>2, NoneDoubted
<1>9. CASE Sync!CommitOffset \/ Sync!Restart \/ Sync!Redeploy
  BY <1>1, <1>9 DEF Sync!CommitOffset, Sync!Restart, Sync!Redeploy, Sync!readDb
<1>10. CASE Sync!Stop
  <2>1. /\ step' = "stuck"
        /\ dead' = dead \/ (step = "dead_letter" /\ dead' = dead \cup {msg})
        /\ UNCHANGED <<applied, errors>>
    BY <1>10 DEF Sync!Stop, Sync!Unanswered
  <2>2. NotFiledYet' /\ Doubted' \subseteq Doubted
    BY <2>1 DEF NotFiledYet, Doubted, Applied
  <2> QED  BY <2>1, <2>2, NoneDoubted
<1> QED
  BY <1>2, <1>3, <1>4, <1>5, <1>6, <1>7, <1>8, <1>9, <1>10
  DEF PipelineNext, pipelineVars, Sync!SyncNext, Sync!Advance

\* An applied event is filed as a dead letter only by an error of its own, the failed
\* commit of its offset, however many runs, restarts and redeliveries there are.
THEOREM FiledOnlyByErrors == PipelineSpec => []AppliedAndFiled
<1>1. PipelineInit => FiledInv
  <2> SUFFICES ASSUME Sync!SyncInit  PROVE  FiledInv
    BY DEF PipelineInit
  <2>1. Doubted = {}  BY DEF Doubted, Applied, Sync!SyncInit
  <2>2. Cardinality(Doubted) = 0  BY <2>1, FS_EmptySet
  <2> QED  BY <2>2 DEF FiledInv, NotFiledYet, Sync!SyncInit
<1>2. ConsumerInv /\ FiledInv => AppliedAndFiled
  <2> SUFFICES ASSUME ConsumerInv, FiledInv  PROVE  Cardinality(Applied \cap dead) <= errors
    BY DEF AppliedAndFiled
  <2>1. IsFiniteSet(Doubted) /\ Applied \cap dead \subseteq Doubted
    BY EventsFinite, FS_Subset DEF Doubted, ConsumerInv, ClaimsComeFirst, PipelineTypeOK
  <2>2. /\ Cardinality(Applied \cap dead) <= Cardinality(Doubted)
        /\ Cardinality(Applied \cap dead) \in Nat /\ Cardinality(Doubted) \in Nat
    BY <2>1, FS_Subset, FS_CardinalityType
  <2> QED  BY <2>2 DEF FiledInv, ConsumerInv, PipelineTypeOK
<1> QED
  BY <1>1, <1>2, FiledNextInvariant, ConsumerInvariantHolds, PTL DEF PipelineSpec

-----------------------------------------------------------------------------
(* What consumers may rely on: the pipeline implements AnyOrderSpec of     *)
(* EventFeed, and, up to the first send that fails and the first run of    *)
(* the publisher that fetches while another is at work, FeedSpec; until    *)
(* then dead letters have a reason.                                        *)

\* All that is proved of the pipeline's states.
PipelineInv == OutboxInv /\ ConsumerInv /\ OrderInv /\ HistoryInv

\* An empty pipeline satisfies the invariant.
LEMMA HistoryInit == PipelineInit => HistoryInv
<1> SUFFICES ASSUME OutboxInit, Sync!SyncInit  PROVE  HistoryInv
  BY DEF PipelineInit
<1>1. OneOnboarding
  BY DEF OneOnboarding, OutboxInit
<1>2. OnboardedFirst
  BY DEF OnboardedFirst, Sync!SyncInit
<1>3. ErrorsCounted
  <2>1. Troubled = {}  BY DEF Troubled, Sync!SyncInit
  <2>2. Cardinality(Troubled) = 0  BY <2>1, FS_EmptySet
  <2> QED  BY <2>2 DEF ErrorsCounted, Sync!SyncInit
<1> QED  BY <1>1, <1>2, <1>3 DEF HistoryInv

-----------------------------------------------------------------------------
(* Facts about the state the steps share.                                  *)

\* What a committed row says of its tenant and its cause stays.
LEMMA CommittedRowsStay ==
  ASSUME OutboxInv, [OutboxNext]_outboxVars, NEW e \in Events, Visible(e)
  PROVE  Visible(e)' /\ merchant'[e] = merchant[e] /\ cause'[e] = cause[e]
<1> USE DEF OutboxInv, OutboxTypeOK, Visible
<1>1. ASSUME NEW x \in Events, NEW m \in Merchants, NEW d \in Events \cup {0}, Emit(x, m, d)
      PROVE  Visible(e)' /\ merchant'[e] = merchant[e] /\ cause'[e] = cause[e]
  <2>1. x # e  BY <1>1 DEF Emit, Latest
  <2> QED  BY <1>1, <2>1 DEF Emit
<1>2. ASSUME NEW x \in Events, NEW o \in {"pending", "aborted"}, EndRequest(x, o)
      PROVE  Visible(e)' /\ merchant'[e] = merchant[e] /\ cause'[e] = cause[e]
  <2>1. x # e  BY <1>2 DEF EndRequest
  <2> QED  BY <1>2, <2>1 DEF EndRequest
<1>3. ASSUME NEW k \in Publishers, Task(k)
      PROVE  Visible(e)' /\ merchant'[e] = merchant[e] /\ cause'[e] = cause[e]
  BY <1>3 DEF Task, Fetch, Deliver, Send, LoseSend, MarkPublished, FailRun, rowVars
<1>4. CASE UNCHANGED outboxVars
  BY <1>4 DEF outboxVars
<1> QED  BY <1>1, <1>2, <1>3, <1>4 DEF OutboxNext, Requests

\* OneAtATime is over for good when a send fails or two runs overlap.
LEMMA OnceOneAtATime ==
  ASSUME OutboxInv, [OutboxNext]_outboxVars, OneAtATime'
  PROVE  OneAtATime
<1>1. lost \in Nat
  BY DEF OutboxInv, OutboxTypeOK
<1>2. CASE Requests
  BY <1>2 DEF Requests, Emit, EndRequest, OneAtATime
<1>3. ASSUME NEW k \in Publishers, Fetch(k)  PROVE  OneAtATime
  BY <1>3 DEF Fetch, OneAtATime
<1>4. ASSUME NEW k \in Publishers, NEW e \in Events, Send(k, e) \/ LoseSend(k, e)
      PROVE  OneAtATime
  BY <1>1, <1>4 DEF Send, LoseSend, OneAtATime
<1>5. ASSUME NEW k \in Publishers, MarkPublished(k) \/ FailRun(k)  PROVE  OneAtATime
  BY <1>5 DEF MarkPublished, FailRun, OneAtATime
<1>6. CASE UNCHANGED outboxVars
  BY <1>6 DEF outboxVars, OneAtATime
<1> QED  BY <1>2, <1>3, <1>4, <1>5, <1>6 DEF OutboxNext, Task, Deliver

\* A claimed event is committed, whatever overlaps.
LEMMA ClaimedAreVisible ==
  ASSUME OutboxInv, ConsumerInv, NEW e \in claimed
  PROVE  e \in Events /\ Visible(e)
<1>1. e \in Events /\ InTopic(e)
  BY DEF ConsumerInv, PipelineTypeOK, ClaimsComeFirst
<1> QED  BY <1>1 DEF OutboxInv, OnlyCommittedSent

\* So is the message in hand.
LEMMA HandIsVisible ==
  ASSUME OutboxInv, ConsumerInv, step \notin {"poll", "stuck"}
  PROVE  msg \in Events /\ Visible(msg)
<1>1. msg \in Events /\ InTopic(msg)
  BY HandHoldsEvent DEF ConsumerInv
<1> QED  BY <1>1 DEF OutboxInv, OnlyCommittedSent

\* And where the topic is in order, in the partition of its tenant.
LEMMA ClaimedAreCommitted ==
  ASSUME OutboxInv, ConsumerInv, OrderInv, OneAtATime, NEW e \in claimed
  PROVE  /\ e \in Events /\ Visible(e)
         /\ merchant[e] \in Merchants /\ topic[merchant[e]] \in Seq(Events)
         /\ Len(topic[merchant[e]]) >= 1
<1>1. e \in Events /\ InTopic(e)
  BY DEF ConsumerInv, PipelineTypeOK, ClaimsComeFirst
<1>2. Visible(e)
  BY ClaimedAreVisible
<1>3. PICK m \in Merchants : \E i \in DOMAIN topic[m] : topic[m][i] = e
  BY <1>1 DEF InTopic
<1>4. merchant[e] = m
  BY <1>3 DEF OrderInv, CausalOrder
<1>5. topic[m] \in Seq(Events)
  BY DEF OutboxInv, OutboxTypeOK
<1> QED  BY <1>1, <1>2, <1>3, <1>4, <1>5

\* The message in hand is committed and of the tenant in whose partition it was
\* found; its cause was claimed before it.
LEMMA HandInOrder ==
  ASSUME OutboxInv, ConsumerInv, OrderInv, OneAtATime, step \notin {"poll", "stuck"}
  PROVE  /\ at \in Merchants /\ msg \in Events /\ Visible(msg) /\ merchant[msg] = at
         /\ cause[msg] # 0 => cause[msg] \in claimed /\ cause[msg] # msg
<1>1. /\ at \in Merchants /\ msg \in Events /\ InTopic(msg)
      /\ position[at] \in 1..Len(topic[at]) /\ topic[at][position[at]] = msg
      /\ topic[at] \in Seq(Events)
  BY HandHoldsEvent DEF ConsumerInv
<1>2. Visible(msg)
  BY <1>1 DEF OutboxInv, OnlyCommittedSent
<1>3. position[at] \in DOMAIN topic[at]
  BY <1>1
<1>4. /\ merchant[msg] = at
      /\ cause[msg] # 0 => \E j \in 1..(position[at] - 1) : topic[at][j] = cause[msg]
  BY <1>1, <1>3 DEF OrderInv, CausalOrder
<1>5. ASSUME cause[msg] # 0  PROVE  cause[msg] \in claimed
  <2>1. PICK j \in 1..(position[at] - 1) : topic[at][j] = cause[msg]
    BY <1>4, <1>5
  <2>2. j \in 1..position[at] /\ j # position[at]
    BY <1>1, <2>1
  <2> QED  BY <1>1, <2>1, <2>2 DEF ConsumerInv, NothingPassedBy
<1>6. cause[msg] # 0 => cause[msg] # msg
  BY <1>1, <1>2 DEF OrderInv, CausesCommitted, Visible, Events
<1> QED  BY <1>1, <1>2, <1>4, <1>5, <1>6

\* A step that is no error and troubles no further event keeps the count.
LEMMA NoneTroubled ==
  ASSUME PipelineTypeOK, ErrorsCounted, errors' = errors, Troubled' \subseteq Troubled
  PROVE  ErrorsCounted'
<1>1. IsFiniteSet(Troubled)
  BY EventsFinite DEF Troubled, PipelineTypeOK
<1>2. /\ Cardinality(Troubled') <= Cardinality(Troubled)
      /\ Cardinality(Troubled) \in Nat /\ Cardinality(Troubled') \in Nat
  BY <1>1, FS_Subset, FS_CardinalityType
<1>3. Cardinality(Troubled) <= errors /\ errors \in Nat
  BY DEF ErrorsCounted, PipelineTypeOK
<1> QED  BY <1>2, <1>3 DEF ErrorsCounted

-----------------------------------------------------------------------------
(* The steps.                                                              *)

\* merchant.created is emitted again only after it was rolled back.
LEMMA OnboardedOnce ==
  ASSUME OutboxInv, OneOnboarding, [OutboxNext]_outboxVars
  PROVE  OneOnboarding'
<1> USE DEF OutboxInv, OutboxTypeOK, OneOnboarding
<1>1. ASSUME NEW x \in Events, NEW m \in Merchants, NEW d \in Events \cup {0}, Emit(x, m, d)
      PROVE  OneOnboarding'
  <2>1. /\ row' = [row EXCEPT ![x] = "open"]
        /\ merchant' = [merchant EXCEPT ![x] = m]
        /\ cause' = [cause EXCEPT ![x] = d]
        /\ d = 0 => \A y \in Events : merchant[y] = m => row[y] = "aborted"
    <3>1. 0 \notin Events  BY DEF Events
    <3> QED  BY <1>1, <3>1 DEF Emit
  <2> SUFFICES ASSUME NEW a \in Events, NEW b \in Events,
                      row'[a] \notin {"none", "aborted"}, row'[b] \notin {"none", "aborted"},
                      cause'[a] = 0, cause'[b] = 0, merchant'[a] = merchant'[b]
               PROVE  a = b
    OBVIOUS
  <2>2. CASE a = x \/ b = x  BY <2>1, <2>2
  <2>3. CASE a # x /\ b # x  BY <2>1, <2>3
  <2> QED  BY <2>2, <2>3
<1>2. ASSUME row' \in [Events -> STRING], UNCHANGED <<merchant, cause>>,
             \A e \in Events : row'[e] \notin {"none", "aborted"} => row[e] \notin {"none", "aborted"}
      PROVE  OneOnboarding'
  BY <1>2
<1>3. ASSUME NEW x \in Events, NEW o \in {"pending", "aborted"}, EndRequest(x, o)
      PROVE  OneOnboarding'
  BY <1>3 DEF EndRequest
<1>4. ASSUME NEW k \in Publishers, Task(k)  PROVE  OneOnboarding'
  <2>1. \A e \in batch[k] : row[e] = "pending"
    BY DEF BatchesSound
  <2> QED
    BY <1>4, <2>1 DEF Task, Fetch, Deliver, Send, LoseSend, MarkPublished, FailRun, rowVars
<1>5. CASE UNCHANGED outboxVars
  BY <1>5 DEF outboxVars
<1> QED  BY <1>1, <1>3, <1>4, <1>5 DEF OutboxNext, Requests

\* The publisher runs beside the consumer without disturbing its history.
LEMMA OutboxKeepsHistory ==
  ASSUME PipelineInv, [OutboxNext]_outboxVars, UNCHANGED syncVars
  PROVE  HistoryInv'
<1> USE DEF PipelineInv, HistoryInv
<1>0. OneOnboarding'
  BY OnboardedOnce
<1> SUFFICES ASSUME OneAtATime'  PROVE  OnboardedFirst' /\ ErrorsCounted'
  BY <1>0
<1>a. OneAtATime
  BY OnceOneAtATime
<1>1. UNCHANGED <<position, committed, step, msg, at, claimed, applied, dead, schema, restarts, errors>>
  BY DEF syncVars
<1>2. ASSUME NEW e \in claimed
      PROVE  /\ merchant'[e] = merchant[e] /\ cause'[e] = cause[e]
             /\ topic'[merchant[e]][1] = topic[merchant[e]][1]
  <2>1. e \in Events /\ Visible(e) /\ merchant[e] \in Merchants /\ Len(topic[merchant[e]]) >= 1
    BY <1>a, ClaimedAreCommitted
  <2>2. /\ Len(topic[merchant[e]]) \in Nat
        /\ \A i \in 1..Len(topic[merchant[e]]) : topic'[merchant[e]][i] = topic[merchant[e]][i]
    BY <2>1, TopicAppendOnly
  <2> QED  BY <2>1, <2>2, CommittedRowsStay
<1>3. OnboardedFirst'
  <2>1. step \in {"ensure", "tables"} => msg \in claimed
    BY DEF ConsumerInv, MessageInHand
  <2> QED  BY <1>a, <1>1, <1>2, <2>1 DEF OnboardedFirst
<1>4. ErrorsCounted'
  <2>1. Troubled' \subseteq Troubled
    BY <1>1, <1>2 DEF Troubled
  <2> QED  BY <2>1, <1>a, <1>1, NoneTroubled DEF ConsumerInv
<1> QED  BY <1>3, <1>4

\* A tenant's first claim is its merchant.created: no other event of the tenant is
\* claimed when the creation of its schema begins.
LEMMA ClaimKeepsHistory ==
  ASSUME PipelineInv, OneAtATime, Sync!Claim, UNCHANGED outboxVars
  PROVE  OnboardedFirst' /\ ErrorsCounted'
<1> USE DEF PipelineInv, HistoryInv
<1>1. /\ step = "claim" /\ claimed' = claimed \cup {msg}
      /\ \/ msg \notin claimed /\ step' = IF cause[msg] = 0 THEN "ensure" ELSE "sync"
         \/ msg \in claimed /\ step' = "ack"
      /\ UNCHANGED <<position, committed, msg, at, applied, dead, schema, restarts, errors>>
      /\ UNCHANGED <<row, merchant, cause, batch, buffer, topic, failures, lost, overlapped>>
  BY DEF Sync!Claim, Sync!FirstStep, Sync!Onboards, outboxVars
<1>2. at \in Merchants /\ msg \in Events /\ Visible(msg) /\ merchant[msg] = at
  BY <1>1, HandInOrder
<1>3. dead \subseteq claimed
  BY DEF ConsumerInv, ClaimsComeFirst
<1>4. topic[at][1] \in claimed \cup {msg}
  <2>1. 1 \in 1..position[at] /\ topic[at][position[at]] = msg
    BY <1>1, HandHoldsEvent DEF ConsumerInv
  <2> QED  BY <2>1, <1>2 DEF ConsumerInv, NothingPassedBy
<1>5. ASSUME msg \notin claimed, cause[msg] = 0, NEW e \in claimed, merchant[e] = at
      PROVE  FALSE
  <2> DEFINE x == topic[at][1]
  <2>1. x \in claimed
    BY <1>5 DEF OnboardedFirst
  <2>2. x \in Events /\ Visible(x)
    BY <2>1, ClaimedAreCommitted
  <2>3. 1 \in DOMAIN topic[at]
    BY <1>5, ClaimedAreCommitted
  <2>4. merchant[x] = at /\ cause[x] = 0
    BY <1>2, <2>3 DEF OrderInv, CausalOrder
  <2>5. x = msg
    BY <1>2, <1>5, <2>2, <2>4 DEF OneOnboarding, Visible
  <2> QED  BY <2>1, <2>5, <1>5
<1>6. OnboardedFirst'
  <2>1. \A e \in claimed' : topic[merchant[e]][1] \in claimed'
    BY <1>1, <1>2, <1>4 DEF OnboardedFirst
  <2>2. ASSUME step' \in {"ensure", "tables"}
        PROVE  /\ cause[msg] = 0 /\ msg \notin dead
               /\ \A e \in claimed' : merchant[e] = at => e = msg
    BY <2>2, <1>1, <1>3, <1>5
  <2> QED  BY <2>1, <2>2, <1>1 DEF OnboardedFirst
<1>7. ErrorsCounted'
  <2>1. Troubled' \subseteq Troubled
    BY <1>1, <1>3 DEF Troubled
  <2> QED  BY <2>1, <1>1, NoneTroubled DEF ConsumerInv
<1> QED  BY <1>6, <1>7

\* A stop changes no schema, and claims or files at most the message in hand.
LEMMA StopKeepsHistory ==
  ASSUME PipelineInv, OneAtATime, Sync!Stop, UNCHANGED outboxVars
  PROVE  OnboardedFirst' /\ ErrorsCounted'
<1> USE DEF PipelineInv, HistoryInv
<1>1. /\ step \in {"poll", "claim", "dead_letter", "ack"} /\ step' = "stuck"
      /\ claimed' = claimed \/ (step = "claim" /\ claimed' = claimed \cup {msg})
      /\ dead' = dead \/ (step = "dead_letter" /\ dead' = dead \cup {msg})
      /\ UNCHANGED <<schema, errors>>
      /\ UNCHANGED <<row, merchant, cause, batch, buffer, topic, failures, lost, overlapped>>
  BY DEF Sync!Stop, Sync!Unanswered, outboxVars
<1>2. dead \subseteq claimed /\ (step = "dead_letter" => msg \in claimed)
  BY DEF ConsumerInv, ClaimsComeFirst, MessageInHand
<1>3. step = "claim" => merchant[msg] = at /\ topic[at][1] \in claimed \cup {msg}
  <2> SUFFICES ASSUME step = "claim"
               PROVE  merchant[msg] = at /\ topic[at][1] \in claimed \cup {msg}
    OBVIOUS
  <2>1. 1 \in 1..position[at] /\ topic[at][position[at]] = msg
    BY HandHoldsEvent DEF ConsumerInv
  <2>2. at \in Merchants /\ merchant[msg] = at
    BY HandInOrder
  <2> QED  BY <2>1, <2>2 DEF ConsumerInv, NothingPassedBy
<1>4. OnboardedFirst'
  BY <1>1, <1>3 DEF OnboardedFirst
<1>5. ErrorsCounted'
  <2>1. Troubled' \subseteq Troubled
    BY <1>1, <1>2 DEF Troubled
  <2> QED  BY <2>1, <1>1, NoneTroubled DEF ConsumerInv
<1> QED  BY <1>4, <1>5

\* The other steps of the consumer.
LEMMA SyncKeepsHistory ==
  ASSUME PipelineInv, Sync!SyncNext, UNCHANGED outboxVars
  PROVE  HistoryInv'
<1> USE DEF PipelineInv, HistoryInv
<1>1. UNCHANGED <<row, merchant, cause, batch, buffer, topic, failures, lost, overlapped>>
  BY DEF outboxVars
<1>2. OneOnboarding' /\ (OneAtATime' <=> OneAtATime)
  BY <1>1 DEF OneOnboarding, OneAtATime
<1> SUFFICES ASSUME OneAtATime  PROVE  OnboardedFirst' /\ ErrorsCounted'
  BY <1>2
<1>3. ASSUME claimed' = claimed, dead' = dead, schema' = schema, errors' = errors,
             step' \notin {"ensure", "tables", "dead_letter"}
      PROVE  OnboardedFirst' /\ ErrorsCounted'
  <2>1. Troubled' \subseteq Troubled  BY <1>1, <1>3 DEF Troubled
  <2> QED
    BY <2>1, <1>1, <1>2, <1>3, NoneTroubled DEF OnboardedFirst, ConsumerInv
<1>4. ASSUME NEW m \in Merchants, Sync!Poll(m)  PROVE  OnboardedFirst' /\ ErrorsCounted'
  BY <1>3, <1>4 DEF Sync!Poll, Sync!readDb
<1>5. CASE Sync!Claim
  BY <1>5, ClaimKeepsHistory
<1>6. CASE Sync!EnsureSchema
  <2>1. /\ step = "ensure" /\ step' \in {"tables", "sync"}
        /\ schema' = schema \/ schema' = [schema EXCEPT ![at] = "partial"]
        /\ UNCHANGED <<msg, at, claimed, dead, errors>>
    BY <1>6 DEF Sync!EnsureSchema
  <2>2. OnboardedFirst'
    BY <2>1, <1>1 DEF OnboardedFirst
  <2>3. \A m \in Merchants : schema'[m] = "ready" => schema[m] = "ready"
    BY <2>1 DEF ConsumerInv, PipelineTypeOK
  <2>4. \A e \in claimed : merchant[e] \in Merchants
    BY ClaimedAreCommitted
  <2>5. Troubled' \subseteq Troubled
    BY <2>1, <2>3, <2>4, <1>1 DEF Troubled
  <2> QED  BY <2>1, <2>2, <2>5, <1>2, NoneTroubled DEF ConsumerInv
<1>7. CASE Sync!CreateTables
  <2>1. /\ step = "tables" /\ step' = "sync"
        /\ schema' = [schema EXCEPT ![at] = "ready"]
        /\ UNCHANGED <<msg, at, claimed, dead, errors>>
    BY <1>7 DEF Sync!CreateTables
  <2>2. OnboardedFirst'
    BY <2>1, <1>1 DEF OnboardedFirst
  <2>3. \A m \in Merchants : m # at => schema'[m] = schema[m]
    BY <2>1 DEF ConsumerInv, PipelineTypeOK
  <2>4. \A e \in claimed : merchant[e] \in Merchants
    BY ClaimedAreCommitted
  <2>5. \A e \in claimed : merchant[e] = at => e \notin dead
    BY <2>1 DEF OnboardedFirst
  <2>6. Troubled' \subseteq Troubled
    BY <2>1, <2>3, <2>4, <2>5, <1>1 DEF Troubled
  <2> QED  BY <2>1, <2>2, <2>6, <1>2, NoneTroubled DEF ConsumerInv
<1>8. CASE Sync!SyncEvent
  <2>1. CASE step' = "commit"
    BY <2>1, <1>3, <1>8 DEF Sync!SyncEvent
  <2>2. CASE step' = "dead_letter"
    <3>1. /\ step = "sync" /\ schema[at] # "ready"
          /\ UNCHANGED <<msg, at, claimed, dead, schema, errors>>
      BY <2>2, <1>8 DEF Sync!SyncEvent
    <3>2. merchant[msg] = at
      BY <3>1, HandInOrder
    <3>3. Troubled' \subseteq Troubled
      BY <3>1, <3>2, <1>1 DEF Troubled
    <3>4. OnboardedFirst'
      BY <2>2, <3>1, <1>1 DEF OnboardedFirst
    <3> QED  BY <3>1, <3>3, <3>4, <1>2, NoneTroubled DEF ConsumerInv
  <2> QED  BY <2>1, <2>2, <1>8 DEF Sync!SyncEvent
<1>9. CASE Sync!StepFails
  <2>1. /\ step' = "dead_letter" /\ errors' = errors + 1
        /\ UNCHANGED <<msg, at, claimed, dead, schema>>
    BY <1>9 DEF Sync!StepFails, Sync!readDb
  <2>2. OnboardedFirst'
    BY <2>1, <1>1 DEF OnboardedFirst
  <2>3. Troubled' \subseteq Troubled \cup {msg}
    BY <2>1, <1>1 DEF Troubled
  <2>4. IsFiniteSet(Troubled)
    BY EventsFinite DEF Troubled, ConsumerInv, PipelineTypeOK
  <2>5. /\ Cardinality(Troubled') <= Cardinality(Troubled) + 1
        /\ Cardinality(Troubled) \in Nat /\ Cardinality(Troubled') \in Nat
    BY <2>3, <2>4, OneMore
  <2>6. ErrorsCounted'
    BY <2>1, <2>5 DEF ErrorsCounted, ConsumerInv, PipelineTypeOK
  <2> QED  BY <2>2, <2>6, <1>2
<1>10. CASE Sync!DeadLetter
  <2>1. /\ step = "dead_letter" /\ step' = "ack" /\ dead' = dead \cup {msg}
        /\ UNCHANGED <<msg, at, claimed, schema, errors>>
    BY <1>10 DEF Sync!DeadLetter
  <2>2. OnboardedFirst'
    BY <2>1, <1>1 DEF OnboardedFirst
  <2>3. Troubled' \subseteq Troubled
    BY <2>1, <1>1 DEF Troubled
  <2> QED  BY <2>1, <2>2, <2>3, <1>2, NoneTroubled DEF ConsumerInv
<1>11. CASE Sync!CommitOffset
  BY <1>3, <1>11 DEF Sync!CommitOffset, Sync!readDb
<1>12. CASE Sync!Restart \/ Sync!Redeploy
  BY <1>3, <1>12 DEF Sync!Restart, Sync!Redeploy, Sync!readDb
<1>13. CASE Sync!Stop
  BY <1>13, StopKeepsHistory
<1> QED
  BY <1>4, <1>5, <1>6, <1>7, <1>8, <1>9, <1>10, <1>11, <1>12, <1>13
  DEF Sync!SyncNext, Sync!Advance

LEMMA HistoryNextInvariant ==
  PipelineInv /\ [PipelineNext]_pipelineVars => HistoryInv'
<1> SUFFICES ASSUME PipelineInv, [PipelineNext]_pipelineVars  PROVE  HistoryInv'
  OBVIOUS
<1>1. CASE [OutboxNext]_outboxVars /\ UNCHANGED syncVars
  BY <1>1, OutboxKeepsHistory
<1>2. CASE Sync!SyncNext /\ UNCHANGED outboxVars
  BY <1>2, SyncKeepsHistory
<1> QED  BY <1>1, <1>2 DEF PipelineNext, pipelineVars

\* Whatever overlaps, fails or dies, the whole pipeline is consistent from the request
\* to the read database; up to the first overlap or failed send, in causal order.
THEOREM PipelineInvariantHolds == PipelineSpec => []PipelineInv
<1>1. PipelineInit => OrderInv /\ HistoryInv
  BY OrderInit, HistoryInit DEF PipelineInit
<1>2. OutboxInv /\ OrderInv /\ [PipelineNext]_pipelineVars => OrderInv'
  <2>1. [PipelineNext]_pipelineVars => [OutboxNext]_outboxVars
    BY DEF PipelineNext, pipelineVars
  <2> QED  BY <2>1, NextKeepsOrder
<1>3. OutboxInv /\ ConsumerInv /\ OrderInv /\ HistoryInv /\ [PipelineNext]_pipelineVars => HistoryInv'
  BY HistoryNextInvariant DEF PipelineInv
<1>4. OutboxInv /\ ConsumerInv /\ OrderInv /\ HistoryInv => PipelineInv
  BY DEF PipelineInv
<1> QED
  BY <1>1, <1>2, <1>3, <1>4, PipelineOutbox, ConsumerInvariantHolds, PTL DEF PipelineSpec

\* With a working schema an event becomes a dead letter only by an error of its own, up
\* to the first overlap or failed send: until then merchant.created comes first, and
\* with it the tables.
THEOREM DeadLettersHaveErrors == PipelineSpec => [](OneAtATime => DeadLettersExplained)
<1>1. PipelineInv => (OneAtATime => DeadLettersExplained)
  <2> SUFFICES ASSUME PipelineInv, OneAtATime
               PROVE  Cardinality({e \in dead : schema[merchant[e]] = "ready"}) <= errors
    BY DEF DeadLettersExplained
  <2> DEFINE explained == {e \in dead : schema[merchant[e]] = "ready"}
  <2>1. IsFiniteSet(Troubled) /\ explained \subseteq Troubled
    BY EventsFinite DEF Troubled, PipelineInv, ConsumerInv, PipelineTypeOK, ClaimsComeFirst
  <2>2. /\ Cardinality(explained) <= Cardinality(Troubled)
        /\ Cardinality(explained) \in Nat /\ Cardinality(Troubled) \in Nat
    BY <2>1, FS_Subset, FS_CardinalityType
  <2> QED
    BY <2>2 DEF PipelineInv, HistoryInv, ErrorsCounted, ConsumerInv, PipelineTypeOK
<1> QED  BY <1>1, PipelineInvariantHolds, PTL

-----------------------------------------------------------------------------
(* The refinement: the pipeline takes the steps of EventFeed.              *)

\* A step of the feed in any order, and in causal order as long as OneAtATime.
FeedStep ==
    /\ [Feed!AnyOrderNext]_(Feed!feedVars)
    /\ OneAtATime => [Feed!FeedNext]_(Feed!feedVars)

\* A step that changes no fate and no cause is a stutter of the feed.
LEMMA FeedStutters ==
  ASSUME cause' = cause, \A x \in Events : fateOf(x)' = fateOf(x)
  PROVE  FeedStep
<1>1. UNCHANGED Feed!feedVars  BY DEF Feed!feedVars
<1> QED  BY <1>1 DEF FeedStep

\* A request begins with what it saw.
LEMMA FeedBegins ==
  ASSUME NEW e \in Events, NEW d \in Events \cup {0}, Feed!Begin(e, d)
  PROVE  FeedStep
<1>1. Feed!AnyOrderNext /\ Feed!FeedNext
  BY DEF Feed!AnyOrderNext, Feed!FeedNext, Feed!Request
<1> QED  BY <1>1 DEF FeedStep

\* The end of a committed request is CommitEvent.
LEMMA FeedCommits ==
  ASSUME NEW e \in Events, fateOf(e) = "unborn", cause' = cause,
         \A x \in Events : fateOf(x)' = IF x = e THEN "committed" ELSE fateOf(x)
  PROVE  FeedStep
<1>1. Feed!CommitEvent(e)  BY DEF Feed!CommitEvent
<1>2. Feed!AnyOrderNext /\ Feed!FeedNext
  BY <1>1 DEF Feed!AnyOrderNext, Feed!FeedNext, Feed!Request
<1> QED  BY <1>2 DEF FeedStep

\* The message in hand is decided when sync_event succeeds, a step fails, or the
\* consumer dies or stops; where the topic is in order its cause has been decided.
LEMMA FeedDecides ==
  ASSUME PipelineInv, step \notin {"poll", "stuck"}, cause' = cause,
         fateOf(msg) = "committed",
         NEW how \in {"applied", "dropped"},
         \A x \in Events : fateOf(x)' = IF x = msg THEN how ELSE fateOf(x)
  PROVE  FeedStep
<1> USE DEF PipelineInv
<1>1. msg \in Events
  BY HandIsVisible
<1>2. Feed!Decide(msg, how)
  BY <1>1 DEF Feed!Decide
<1>3. Feed!AnyOrderNext
  BY <1>1, <1>2 DEF Feed!AnyOrderNext, Feed!Decision
<1>4. ASSUME OneAtATime  PROVE  Feed!FeedNext
  <2>1. cause[msg] # 0 => cause[msg] \in claimed /\ cause[msg] # msg
    BY <1>4, HandInOrder
  <2>2. cause[msg] # 0 => cause[msg] \in Events /\ fateOf(cause[msg]) \in {"applied", "dropped"}
    BY <2>1 DEF fateOf, BeingHandled, ConsumerInv, PipelineTypeOK
  <2>3. Feed!CauseDecided(msg)
    BY <2>2 DEF Feed!CauseDecided, Feed!Decided
  <2> QED  BY <2>3, <1>1, <1>2 DEF Feed!FeedNext, Feed!Decision
<1> QED  BY <1>3, <1>4 DEF FeedStep

\* Requests begin and commit events; the publisher is invisible in the feed.
LEMMA OutboxRefines ==
  ASSUME PipelineInv, OutboxNext, UNCHANGED syncVars
  PROVE  FeedStep
<1> USE DEF PipelineInv
<1>1. UNCHANGED <<position, committed, step, msg, at, claimed, applied, dead, schema, restarts, errors>>
  BY DEF syncVars
<1>2. /\ Applied' = Applied
      /\ \A x : BeingHandled(x)' <=> BeingHandled(x)
  BY <1>1 DEF Applied, BeingHandled
<1>3. ASSUME NEW e \in Events, Visible(e)' <=> Visible(e)  PROVE  fateOf(e)' = fateOf(e)
  BY <1>1, <1>2, <1>3 DEF fateOf
<1>4. ASSUME NEW e \in Events, NEW m \in Merchants, NEW d \in Events \cup {0}, Emit(e, m, d)
      PROVE  FeedStep
  <2>1. /\ row[e] = "none" /\ row' = [row EXCEPT ![e] = "open"]
        /\ cause' = [cause EXCEPT ![e] = d]
        /\ d # 0 => d \in Events /\ Visible(d)
    BY <1>4 DEF Emit, Latest
  <2>2. \A x \in Events : Visible(x)' <=> Visible(x)
    BY <2>1 DEF Visible, OutboxInv, OutboxTypeOK
  <2>3. \A x \in Events : fateOf(x)' = fateOf(x)
    BY <2>2, <1>3
  <2>4. fateOf(e) = "unborn"
    <3>1. ~Visible(e)  BY <2>1 DEF Visible
    <3>2. e \notin claimed  BY <3>1, ClaimedAreVisible
    <3>3. e \notin Applied  BY <3>2 DEF ConsumerInv, ClaimsComeFirst
    <3> QED  BY <3>1, <3>2, <3>3 DEF fateOf
  <2>5. d # 0 => d \in Events /\ fateOf(d) # "unborn"
    BY <2>1 DEF fateOf
  <2>6. Feed!Begin(e, d)
    BY <2>1, <2>3, <2>4, <2>5 DEF Feed!Begin
  <2> QED  BY <2>6, FeedBegins
<1>5. ASSUME NEW e \in Events, NEW o \in {"pending", "aborted"}, EndRequest(e, o)
      PROVE  FeedStep
  <2>1. row[e] = "open" /\ row' = [row EXCEPT ![e] = o] /\ cause' = cause
    BY <1>5 DEF EndRequest
  <2>2. ~Visible(e) /\ (Visible(e)' <=> o = "pending")
    BY <2>1 DEF Visible, OutboxInv, OutboxTypeOK
  <2>3. \A x \in Events : x # e => (Visible(x)' <=> Visible(x))
    BY <2>1 DEF Visible, OutboxInv, OutboxTypeOK
  <2>4. e \notin claimed /\ e \notin Applied
    BY <2>2, ClaimedAreVisible DEF ConsumerInv, ClaimsComeFirst
  <2>5. fateOf(e) = "unborn"
    BY <2>2, <2>4 DEF fateOf
  <2>6. CASE o = "pending"
    <3>1. fateOf(e)' = "committed"
      BY <2>2, <2>4, <2>6, <1>1, <1>2 DEF fateOf
    <3>2. \A x \in Events : fateOf(x)' = IF x = e THEN "committed" ELSE fateOf(x)
      BY <3>1, <2>3, <1>3
    <3> QED  BY <3>2, <2>1, <2>5, FeedCommits
  <2>7. CASE o = "aborted"
    <3>1. \A x \in Events : fateOf(x)' = fateOf(x)
      BY <2>2, <2>3, <2>7, <1>3
    <3> QED  BY <3>1, <2>1, FeedStutters
  <2> QED  BY <2>6, <2>7
<1>6. ASSUME NEW k \in Publishers, Task(k)  PROVE  FeedStep
  <2>1. cause' = cause
    BY <1>6 DEF Task, Fetch, Deliver, Send, LoseSend, MarkPublished, FailRun, rowVars
  <2>2. \A x \in Events : Visible(x)' <=> Visible(x)
    <3>1. CASE row' = row  BY <3>1 DEF Visible
    <3>2. CASE row' # row
      <4>1. row' = [x \in Events |-> IF x \in batch[k] THEN "published" ELSE row[x]]
        BY <1>6, <3>2 DEF Task, Fetch, Deliver, Send, LoseSend, MarkPublished, FailRun, rowVars
      <4> QED  BY <4>1 DEF Visible, OutboxInv, BatchesSound
    <3> QED  BY <3>1, <3>2
  <2>3. \A x \in Events : fateOf(x)' = fateOf(x)
    BY <2>2, <1>3
  <2> QED  BY <2>1, <2>3, FeedStutters
<1> QED  BY <1>4, <1>5, <1>6 DEF OutboxNext, Requests

\* The consumer decides the message it has claimed, once, or does nothing the feed
\* can see.
LEMMA SyncRefines ==
  ASSUME PipelineInv, Sync!SyncNext, UNCHANGED outboxVars
  PROVE  FeedStep
<1> USE DEF PipelineInv
<1>1. UNCHANGED <<row, merchant, cause, batch, buffer, topic, failures, lost, overlapped>>
  BY DEF outboxVars
<1>2. \A x \in Events : Visible(x)' <=> Visible(x)
  BY <1>1 DEF Visible
<1>3. ASSUME NEW m \in Merchants, Sync!Poll(m)  PROVE  FeedStep
  <2>1. step = "poll" /\ step' = "claim" /\ claimed' = claimed /\ applied' = applied
    BY <1>3 DEF Sync!Poll, Sync!readDb
  <2>2. \A x \in Events : fateOf(x)' = fateOf(x)
    BY <2>1, <1>2 DEF fateOf, Applied, BeingHandled
  <2> QED  BY <2>2, <1>1, FeedStutters
<1>4. CASE Sync!Claim
  <2>1. /\ step = "claim" /\ claimed' = claimed \cup {msg} /\ applied' = applied /\ msg' = msg
        /\ msg \in claimed \/ step' \in {"ensure", "sync"}
        /\ msg \in claimed => step' = "ack"
    BY <1>4 DEF Sync!Claim, Sync!FirstStep
  <2>2. msg \in Events /\ Visible(msg) /\ (msg \notin claimed => msg \notin Applied)
    BY <2>1, HandIsVisible DEF ConsumerInv, ClaimsComeFirst
  <2>3. \A x \in Events : fateOf(x)' = fateOf(x)
    BY <2>1, <2>2, <1>2 DEF fateOf, Applied, BeingHandled
  <2> QED  BY <2>3, <1>1, FeedStutters
<1>5. CASE Sync!EnsureSchema \/ Sync!CreateTables
  <2>1. /\ step \in {"ensure", "tables"} /\ step' \in {"tables", "sync"}
        /\ UNCHANGED <<msg, claimed, applied>>
    BY <1>5 DEF Sync!EnsureSchema, Sync!CreateTables
  <2>2. \A x \in Events : fateOf(x)' = fateOf(x)
    BY <2>1, <1>2 DEF fateOf, Applied, BeingHandled
  <2> QED  BY <2>2, <1>1, FeedStutters
<1>6. ASSUME step \in {"ensure", "tables", "sync"}, step' \in {"poll", "dead_letter"},
             claimed' = claimed, applied' = applied
      PROVE  FeedStep
  <2>1. msg \in Events /\ msg \in claimed /\ msg \notin Applied /\ Visible(msg)
    BY <1>6, HandIsVisible DEF ConsumerInv, MessageInHand, ClaimsComeFirst
  <2>2. fateOf(msg) = "committed"
    BY <1>6, <2>1 DEF fateOf, BeingHandled
  <2>3. \A x \in Events : fateOf(x)' = IF x = msg THEN "dropped" ELSE fateOf(x)
    BY <2>1, <1>6, <1>2 DEF fateOf, Applied, BeingHandled
  <2> QED  BY <2>2, <2>3, <1>6, <1>1, FeedDecides
<1>7. ASSUME step \notin {"ensure", "tables", "sync"}, step' \notin {"ensure", "tables", "sync"},
             claimed' = claimed, applied' = applied
      PROVE  FeedStep
  <2>1. \A x \in Events : fateOf(x)' = fateOf(x)
    BY <1>7, <1>2 DEF fateOf, Applied, BeingHandled
  <2> QED  BY <2>1, <1>1, FeedStutters
<1>8. CASE Sync!SyncEvent
  <2>1. CASE applied' = Append(applied, msg) /\ step' = "commit"
    <3>1. step = "sync" /\ claimed' = claimed /\ msg' = msg
      BY <1>8 DEF Sync!SyncEvent
    <3>2. msg \in Events /\ Visible(msg) /\ msg \notin Applied /\ applied \in Seq(Events)
      BY <3>1, HandIsVisible DEF ConsumerInv, ClaimsComeFirst, PipelineTypeOK
    <3>3. Applied' = Applied \cup {msg}
      BY <3>2, <2>1, ApplyOne
    <3>4. fateOf(msg) = "committed"
      BY <3>1, <3>2 DEF fateOf, BeingHandled
    <3>5. \A x \in Events : fateOf(x)' = IF x = msg THEN "applied" ELSE fateOf(x)
      BY <3>1, <3>3, <2>1, <1>2 DEF fateOf, BeingHandled
    <3> QED  BY <3>1, <3>4, <3>5, <1>1, FeedDecides
  <2>2. CASE applied' = applied /\ step' = "dead_letter"
    BY <1>6, <1>8, <2>2 DEF Sync!SyncEvent
  <2> QED  BY <1>8, <2>1, <2>2 DEF Sync!SyncEvent
<1>9. CASE Sync!StepFails
  BY <1>6, <1>7, <1>9 DEF Sync!StepFails, Sync!readDb
<1>10. CASE Sync!DeadLetter
  BY <1>7, <1>10 DEF Sync!DeadLetter
<1>11. CASE Sync!CommitOffset \/ Sync!Redeploy
  BY <1>7, <1>11 DEF Sync!CommitOffset, Sync!Redeploy, Sync!readDb
<1>12. CASE Sync!Restart
  BY <1>6, <1>7, <1>12 DEF Sync!Restart, Sync!readDb, ConsumerInv, PipelineTypeOK, Sync!Steps
<1>13. CASE Sync!Stop
  <2>1. /\ step \in {"poll", "claim", "dead_letter", "ack"} /\ step' = "stuck"
        /\ claimed' = claimed \/ (step = "claim" /\ claimed' = claimed \cup {msg})
        /\ applied' = applied
    BY <1>13 DEF Sync!Stop, Sync!Unanswered
  <2>2. CASE claimed' = claimed
    BY <2>1, <2>2, <1>7
  <2>3. CASE claimed' # claimed
    <3>1. step = "claim" /\ claimed' = claimed \cup {msg} /\ msg \notin claimed
      BY <2>1, <2>3
    <3>2. msg \in Events /\ Visible(msg) /\ msg \notin Applied
      BY <3>1, HandIsVisible DEF ConsumerInv, ClaimsComeFirst
    <3>3. fateOf(msg) = "committed"
      BY <3>1, <3>2 DEF fateOf
    <3>4. \A x \in Events : fateOf(x)' = IF x = msg THEN "dropped" ELSE fateOf(x)
      BY <2>1, <3>1, <3>2, <1>2 DEF fateOf, Applied, BeingHandled
    <3> QED  BY <3>1, <3>3, <3>4, <1>1, FeedDecides
  <2> QED  BY <2>2, <2>3
<1> QED
  BY <1>3, <1>4, <1>5, <1>8, <1>9, <1>10, <1>11, <1>12, <1>13 DEF Sync!SyncNext, Sync!Advance

\* Every step of the pipeline is a step of the feed, or invisible in it.
LEMMA PipelineSteps ==
  PipelineInv /\ [PipelineNext]_pipelineVars => FeedStep
<1> SUFFICES ASSUME PipelineInv, [PipelineNext]_pipelineVars  PROVE  FeedStep
  OBVIOUS
<1>1. CASE OutboxNext /\ UNCHANGED syncVars
  BY <1>1, OutboxRefines
<1>2. CASE Sync!SyncNext /\ UNCHANGED outboxVars
  BY <1>2, SyncRefines
<1>3. CASE UNCHANGED pipelineVars
  <2>1. /\ UNCHANGED <<row, cause, step, msg, claimed, applied>>
    BY <1>3 DEF pipelineVars, outboxVars, syncVars
  <2>2. \A x \in Events : fateOf(x)' = fateOf(x)
    BY <2>1 DEF fateOf, Applied, BeingHandled, Visible
  <2> QED  BY <2>1, <2>2, FeedStutters
<1> QED  BY <1>1, <1>2, <1>3 DEF PipelineNext

\* Nothing is decided at the start.
LEMMA FeedStarts == PipelineInit => Feed!FeedInit
<1> SUFFICES ASSUME OutboxInit, Sync!SyncInit  PROVE  Feed!FeedInit
  BY DEF PipelineInit
<1>1. \A x \in Events : fateOf(x) = "unborn"
  BY DEF fateOf, Applied, Visible, OutboxInit, Sync!SyncInit
<1> QED  BY <1>1 DEF Feed!FeedInit, OutboxInit

\* Whatever overlaps, fails, dies or stops: an event is decided once, and only one
\* that a request committed.
THEOREM PipelineDecidesOnce == PipelineSpec => ImplementsAnyOrderFeed
<1>1. PipelineInv /\ [PipelineNext]_pipelineVars => [Feed!AnyOrderNext]_(Feed!feedVars)
  BY PipelineSteps DEF FeedStep
<1>2. PipelineSpec => [][Feed!AnyOrderNext]_(Feed!feedVars)
  BY <1>1, PipelineInvariantHolds, PTL DEF PipelineSpec
<1> QED
  BY <1>2, FeedStarts DEF PipelineSpec, ImplementsAnyOrderFeed, Feed!AnyOrderSpec

\* In every behaviour in which no send fails and no run of the publisher fetches while
\* another is at work, consumers of the read side see every tenant's history decided
\* once per event and causes before effects, whatever dies or stops on the way.
THEOREM PipelineImplementsFeed == PipelineSpec /\ []OneAtATime => ImplementsFeed
<1>1. PipelineInv /\ OneAtATime /\ [PipelineNext]_pipelineVars
         => [Feed!FeedNext]_(Feed!feedVars)
  BY PipelineSteps DEF FeedStep
<1>2. PipelineSpec /\ []OneAtATime => [][Feed!FeedNext]_(Feed!feedVars)
  BY <1>1, PipelineInvariantHolds, PTL DEF PipelineSpec
<1> QED
  BY <1>2, FeedStarts DEF PipelineSpec, ImplementsFeed, Feed!FeedSpec
=============================================================================
