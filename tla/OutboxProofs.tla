------------------------------- MODULE OutboxProofs -------------------------------
(***************************************************************************)
(* What holds of the outbox for any tenants, any number of overlapping     *)
(* task runs, any batch size and any number of failures.                   *)
(***************************************************************************)
EXTENDS OutboxProperties, FiniteSetTheorems, TLAPS

-----------------------------------------------------------------------------
(* Why losses and copies can be counted, and what the order of the topic rests on. *)

\* An event has left its producer: it is marked published, or a run that is alive has
\* had it sent (or lost it).
LeftProducer(e) ==
    row[e] = "published" \/ \E k \in Publishers : e \in batch[k] \ buffer[k]

\* What left its producer without reaching the topic was lost in a send of its own.
LossesCounted ==
    Cardinality({e \in Events : LeftProducer(e) /\ ~InTopic(e)}) <= lost

\* The failed runs whose producers have still to deliver an event.
Closing(e) == {k \in Publishers : e \in buffer[k] \ batch[k]}

\* The copies of an event, with those that failed runs have still to deliver, are at
\* most one for each failed run, and one more from the moment the run that will mark
\* the event published has sent it.
CopiesCounted ==
    \A e \in Events :
        /\ IsFiniteSet(Copies(e)) /\ IsFiniteSet(Closing(e))
        /\ Cardinality(Copies(e)) + Cardinality(Closing(e)) <=
               failures + (IF LeftProducer(e) THEN 1 ELSE 0)

\* Rows are inserted in the order of their stamps.
StampsInOrder == \A d, e \in Events : d < e /\ row[e] # "none" => row[d] # "none"

\* What a request saw was committed by an older row of the same tenant.
CausesCommitted ==
    \A e \in Events : row[e] # "none" /\ cause[e] # 0 =>
        /\ cause[e] < e
        /\ Visible(cause[e])
        /\ merchant[cause[e]] = merchant[e]

\* What a producer has still to deliver has its cause before it, in the topic or in
\* the producer.
BuffersClosed ==
    \A k \in Publishers : \A e \in buffer[k] :
        cause[e] # 0 => InTopic(cause[e]) \/ cause[e] \in buffer[k]

\* The order of the rows, which always holds, and that of the topic: BuffersClosed
\* breaks, and CausalOrder with it, as soon as two runs overlap or a send fails.
OrderInv ==
    /\ StampsInOrder
    /\ CausesCommitted
    /\ OneAtATime => BuffersClosed /\ CausalOrder

-----------------------------------------------------------------------------

\* An empty outbox satisfies the invariant.
LEMMA OutboxInitInvariant == OutboxInit => OutboxInv
<1> SUFFICES ASSUME OutboxInit  PROVE  OutboxInv
  OBVIOUS
<1>1. OutboxTypeOK
  <2>1. topic \in [Merchants -> Seq(Events)]
    BY DEF OutboxInit
  <2>2. failures \in 0..MaxFailures /\ lost \in 0..MaxLost
    BY BoundsAssumption DEF OutboxInit
  <2>3. /\ row \in [Events -> {"none", "open", "pending", "published", "aborted"}]
        /\ merchant \in [Events -> Merchants \cup {None}]
        /\ cause \in [Events -> Events \cup {0}]
        /\ batch \in [Publishers -> SUBSET Events]
        /\ buffer \in [Publishers -> SUBSET Events]
    BY DEF OutboxInit
  <2>4. overlapped \in BOOLEAN
    BY DEF OutboxInit
  <2> QED  BY <2>1, <2>2, <2>3, <2>4 DEF OutboxTypeOK
<1>2. BatchesSound
  BY DEF OutboxInit, BatchesSound
<1>3. RowsHaveMerchants
  BY DEF OutboxInit, RowsHaveMerchants
<1>4. OnlyCommittedSent
  <2>1. \A m \in Merchants : DOMAIN topic[m] = {}
    BY DEF OutboxInit
  <2> QED  BY <2>1 DEF OnlyCommittedSent, InTopic
<1>5. NothingLostYet
  BY DEF OutboxInit, NothingLostYet, ZeroEventLoss
<1> QED  BY <1>1, <1>2, <1>3, <1>4, <1>5 DEF OutboxInv

\* Appending a message to a merchant's partition adds it to the topic, keeps all the
\* others there and adds no third.
LEMMA TopicGrows ==
  ASSUME topic \in [Merchants -> Seq(Events)],
         NEW m \in Merchants, NEW e \in Events,
         topic' = [topic EXCEPT ![m] = Append(topic[m], e)]
  PROVE  /\ topic' \in [Merchants -> Seq(Events)]
         /\ InTopic(e)'
         /\ \A d \in Events : InTopic(d) => InTopic(d)'
         /\ \A d \in Events : InTopic(d)' => d = e \/ InTopic(d)
<1>1. topic'[m] = Append(topic[m], e) /\ topic[m] \in Seq(Events)
  OBVIOUS
<1>2. \A n \in Merchants : n # m => topic'[n] = topic[n]
  OBVIOUS
<1>3. /\ Append(topic[m], e) \in Seq(Events)
      /\ DOMAIN Append(topic[m], e) = 1..(Len(topic[m]) + 1)
      /\ Append(topic[m], e)[Len(topic[m]) + 1] = e
      /\ Len(topic[m]) \in Nat
      /\ \A i \in DOMAIN topic[m] : i \in 1..Len(topic[m]) /\ Append(topic[m], e)[i] = topic[m][i]
      /\ \A i \in 1..(Len(topic[m]) + 1) :
            i = Len(topic[m]) + 1 \/ i \in DOMAIN topic[m]
  BY <1>1
<1>4. topic' \in [Merchants -> Seq(Events)]
  BY <1>1, <1>2, <1>3
<1>5. InTopic(e)'
  <2>1. Len(topic[m]) + 1 \in DOMAIN topic'[m] /\ topic'[m][Len(topic[m]) + 1] = e
    BY <1>1, <1>3
  <2> QED  BY <2>1 DEF InTopic
<1>6. ASSUME NEW d \in Events, InTopic(d)  PROVE  InTopic(d)'
  <2>1. PICK n \in Merchants : \E i \in DOMAIN topic[n] : topic[n][i] = d
    BY <1>6 DEF InTopic
  <2>2. PICK i \in DOMAIN topic[n] : topic[n][i] = d
    BY <2>1
  <2>3. i \in DOMAIN topic'[n] /\ topic'[n][i] = d
    <3>1. CASE n = m  BY <3>1, <2>2, <1>1, <1>3
    <3>2. CASE n # m  BY <3>2, <2>2, <1>2
    <3> QED  BY <3>1, <3>2
  <2> QED  BY <2>3 DEF InTopic
<1>7. ASSUME NEW d \in Events, InTopic(d)'  PROVE  d = e \/ InTopic(d)
  <2>1. PICK n \in Merchants : \E i \in DOMAIN topic'[n] : topic'[n][i] = d
    BY <1>7 DEF InTopic
  <2>2. PICK i \in DOMAIN topic'[n] : topic'[n][i] = d
    BY <2>1
  <2>3. CASE n = m
    <3>1. i = Len(topic[m]) + 1 \/ i \in DOMAIN topic[m]
      BY <2>2, <2>3, <1>1, <1>3
    <3>2. CASE i = Len(topic[m]) + 1  BY <3>2, <2>2, <2>3, <1>1, <1>3
    <3>3. CASE i \in DOMAIN topic[m]
      <4>1. topic[m][i] = d  BY <3>3, <2>2, <2>3, <1>1, <1>3
      <4> QED  BY <3>3, <4>1 DEF InTopic
    <3> QED  BY <3>1, <3>2, <3>3
  <2>4. CASE n # m  BY <2>4, <2>2, <1>2 DEF InTopic
  <2> QED  BY <2>3, <2>4
<1> QED  BY <1>4, <1>5, <1>6, <1>7

-----------------------------------------------------------------------------
(* The steps, one lemma each.                                              *)

LEMMA EmitKeeps ==
  ASSUME OutboxInv, NEW e \in Events, NEW m \in Merchants, NEW d \in Events \cup {0},
         Emit(e, m, d)
  PROVE  OutboxInv'
<1> USE DEF OutboxInv, Emit, Latest
<1>1. OutboxTypeOK'  BY DEF OutboxTypeOK
<1>2. BatchesSound'
  <2>1. ASSUME NEW k \in Publishers, NEW x \in batch[k]  PROVE  row'[x] = "pending"
    BY <2>1 DEF BatchesSound, OutboxTypeOK
  <2>2. ASSUME NEW k \in Publishers, NEW x \in buffer[k]  PROVE  Visible(x)'
    BY <2>2 DEF BatchesSound, OutboxTypeOK, Visible
  <2> QED  BY <2>1, <2>2 DEF BatchesSound
<1>3. RowsHaveMerchants'  BY DEF RowsHaveMerchants, OutboxTypeOK
<1>4. \A x \in Events : InTopic(x)' <=> InTopic(x)  BY DEF InTopic
<1>5. \A x \in Events : Visible(x)' <=> Visible(x)  BY DEF Visible, OutboxTypeOK
<1>6. OnlyCommittedSent'  BY <1>4, <1>5 DEF OnlyCommittedSent
<1>7. NothingLostYet'
  <2>1. \A x \in Events : row'[x] = "published" => row[x] = "published"
    BY DEF OutboxTypeOK
  <2> QED  BY <1>4, <2>1 DEF NothingLostYet, ZeroEventLoss, OutboxTypeOK
<1> QED  BY <1>1, <1>2, <1>3, <1>6, <1>7

LEMMA EndRequestKeeps ==
  ASSUME OutboxInv, NEW e \in Events, NEW outcome \in {"pending", "aborted"},
         EndRequest(e, outcome)
  PROVE  OutboxInv'
<1> USE DEF OutboxInv, EndRequest
<1>1. OutboxTypeOK'  BY DEF OutboxTypeOK
<1>2. BatchesSound'
  <2>1. ASSUME NEW k \in Publishers, NEW x \in batch[k]  PROVE  row'[x] = "pending"
    BY <2>1 DEF BatchesSound, OutboxTypeOK
  <2>2. ASSUME NEW k \in Publishers, NEW x \in buffer[k]  PROVE  Visible(x)'
    BY <2>2 DEF BatchesSound, OutboxTypeOK, Visible
  <2> QED  BY <2>1, <2>2 DEF BatchesSound
<1>3. RowsHaveMerchants'  BY DEF RowsHaveMerchants, OutboxTypeOK
<1>4. \A x \in Events : InTopic(x)' <=> InTopic(x)  BY DEF InTopic
<1>5. \A x \in Events : Visible(x) => Visible(x)'  BY DEF Visible, OutboxTypeOK
<1>6. OnlyCommittedSent'  BY <1>4, <1>5 DEF OnlyCommittedSent
<1>7. NothingLostYet'
  <2>1. \A x \in Events : row'[x] = "published" => row[x] = "published"
    BY DEF OutboxTypeOK
  <2> QED  BY <1>4, <2>1 DEF NothingLostYet, ZeroEventLoss, OutboxTypeOK
<1> QED  BY <1>1, <1>2, <1>3, <1>6, <1>7

\* A run fetches only rows that no other run has locked.
LEMMA FetchKeeps ==
  ASSUME OutboxInv, NEW k \in Publishers, Fetch(k)
  PROVE  OutboxInv'
<1> USE DEF OutboxInv
<1> DEFINE oldest == {e \in Ready : Cardinality({d \in Ready : d < e}) < BatchSize}
<1>1. /\ batch' = [batch EXCEPT ![k] = oldest]
      /\ buffer' = [buffer EXCEPT ![k] = oldest]
      /\ UNCHANGED <<row, merchant, cause, topic, failures, lost>>
  BY DEF Fetch, rowVars
<1>2. /\ oldest \subseteq Events
      /\ \A e \in oldest : row[e] = "pending" /\ \A j \in Publishers : e \notin batch[j]
  BY DEF Ready, Locked
<1> HIDE DEF oldest
<1>3. OutboxTypeOK'
  <2>1. overlapped' \in BOOLEAN  BY DEF Fetch
  <2> QED  BY <2>1, <1>1, <1>2 DEF OutboxTypeOK
<1>4. BatchesSound'
  <2>1. \A j \in Publishers :
          /\ batch'[j] = IF j = k THEN oldest ELSE batch[j]
          /\ buffer'[j] = IF j = k THEN oldest ELSE buffer[j]
    BY <1>1 DEF OutboxTypeOK
  <2>2. \A j \in Publishers : /\ batch'[j] # {} => buffer'[j] \subseteq batch'[j]
                              /\ \A e \in batch'[j] : row'[e] = "pending"
                              /\ \A e \in buffer'[j] : Visible(e)'
    BY <2>1, <1>1, <1>2 DEF BatchesSound, Visible
  <2>3. \A i, j \in Publishers : i # j => batch'[i] \cap batch'[j] = {}
    BY <2>1, <1>2 DEF BatchesSound
  <2> QED  BY <2>2, <2>3 DEF BatchesSound
<1>5. RowsHaveMerchants' /\ OnlyCommittedSent'
  BY <1>1 DEF RowsHaveMerchants, OnlyCommittedSent, InTopic, Visible
<1>6. NothingLostYet'
  <2>1. \A j \in Publishers : batch'[j] \ buffer'[j] \subseteq batch[j] \ buffer[j]
    BY <1>1 DEF OutboxTypeOK
  <2> QED  BY <2>1, <1>1 DEF NothingLostYet, ZeroEventLoss, InTopic
<1> QED  BY <1>3, <1>4, <1>5, <1>6

LEMMA SendKeeps ==
  ASSUME OutboxInv, NEW k \in Publishers, NEW e \in Events, Send(k, e)
  PROVE  OutboxInv'
<1> USE DEF OutboxInv
<1>1. /\ Visible(e) /\ merchant[e] \in Merchants
      /\ topic' = [topic EXCEPT ![merchant[e]] = Append(topic[merchant[e]], e)]
      /\ buffer' = [buffer EXCEPT ![k] = buffer[k] \ {e}]
      /\ UNCHANGED <<row, merchant, cause, batch, failures, lost, overlapped>>
  BY DEF Send, rowVars, BatchesSound, RowsHaveMerchants, Visible
<1>2. /\ topic' \in [Merchants -> Seq(Events)]
      /\ InTopic(e)'
      /\ \A d \in Events : InTopic(d) => InTopic(d)'
      /\ \A d \in Events : InTopic(d)' => d = e \/ InTopic(d)
  <2>1. topic \in [Merchants -> Seq(Events)]  BY DEF OutboxTypeOK
  <2> QED  BY <1>1, <2>1, TopicGrows
<1>3. \A j \in Publishers : buffer'[j] = IF j = k THEN buffer[k] \ {e} ELSE buffer[j]
  BY <1>1 DEF OutboxTypeOK
<1>4. OutboxTypeOK'  BY <1>1, <1>2 DEF OutboxTypeOK
<1>5. BatchesSound'  BY <1>1, <1>3 DEF BatchesSound, Visible
<1>6. RowsHaveMerchants'  BY <1>1 DEF RowsHaveMerchants
<1>7. OnlyCommittedSent'  BY <1>1, <1>2 DEF OnlyCommittedSent, Visible
<1>8. NothingLostYet'
  <2> SUFFICES ASSUME lost = 0
               PROVE  /\ ZeroEventLoss'
                      /\ \A j \in Publishers : \A d \in batch'[j] \ buffer'[j] : InTopic(d)'
    BY <1>1 DEF NothingLostYet
  <2>1. ZeroEventLoss'  BY <1>1, <1>2 DEF NothingLostYet, ZeroEventLoss
  <2>2. ASSUME NEW j \in Publishers, NEW d \in batch'[j] \ buffer'[j]  PROVE  InTopic(d)'
    <3>1. d \in Events /\ (d = e \/ d \in batch[j] \ buffer[j])
      BY <2>2, <1>1, <1>3 DEF OutboxTypeOK
    <3>2. CASE d = e  BY <3>2, <1>2
    <3>3. CASE d \in batch[j] \ buffer[j]  BY <3>1, <3>3, <1>2 DEF NothingLostYet
    <3> QED  BY <3>1, <3>2, <3>3
  <2> QED  BY <2>1, <2>2
<1> QED  BY <1>4, <1>5, <1>6, <1>7, <1>8

LEMMA LoseSendKeeps ==
  ASSUME OutboxInv, NEW k \in Publishers, NEW e \in Events, LoseSend(k, e)
  PROVE  OutboxInv'
<1> USE DEF OutboxInv
<1>1. /\ lost < MaxLost /\ lost' = lost + 1
      /\ buffer' = [buffer EXCEPT ![k] = buffer[k] \ {e}]
      /\ UNCHANGED <<row, merchant, cause, batch, topic, failures, overlapped>>
  BY DEF LoseSend, rowVars
<1>2. \A j \in Publishers : buffer'[j] \subseteq buffer[j]
  BY <1>1 DEF OutboxTypeOK
<1>3. OutboxTypeOK'  BY <1>1, BoundsAssumption DEF OutboxTypeOK
<1>4. BatchesSound'  BY <1>1, <1>2 DEF BatchesSound, Visible
<1>5. RowsHaveMerchants' /\ OnlyCommittedSent'
  BY <1>1 DEF RowsHaveMerchants, OnlyCommittedSent, InTopic, Visible
<1>6. NothingLostYet'
  <2>1. lost' # 0  BY <1>1 DEF OutboxTypeOK
  <2> QED  BY <2>1 DEF NothingLostYet
<1> QED  BY <1>3, <1>4, <1>5, <1>6

LEMMA MarkPublishedKeeps ==
  ASSUME OutboxInv, NEW k \in Publishers, MarkPublished(k)
  PROVE  OutboxInv'
<1> USE DEF OutboxInv
<1>1. /\ buffer[k] = {}
      /\ row' = [e \in Events |-> IF e \in batch[k] THEN "published" ELSE row[e]]
      /\ batch' = [batch EXCEPT ![k] = {}]
      /\ UNCHANGED <<merchant, cause, buffer, topic, failures, lost, overlapped>>
  BY DEF MarkPublished
<1>2. \A j \in Publishers : batch'[j] = IF j = k THEN {} ELSE batch[j]
  BY <1>1 DEF OutboxTypeOK
<1>3. OutboxTypeOK'  BY <1>1 DEF OutboxTypeOK
<1>4. BatchesSound'
  <2>1. ASSUME NEW j \in Publishers, NEW e \in batch'[j]  PROVE  row'[e] = "pending"
    <3>1. j # k /\ e \in batch[j] /\ e \in Events  BY <2>1, <1>2 DEF OutboxTypeOK
    <3>2. e \notin batch[k] /\ row[e] = "pending"  BY <3>1 DEF BatchesSound
    <3> QED  BY <3>1, <3>2, <1>1
  <2>2. \A j \in Publishers : /\ batch'[j] # {} => buffer'[j] \subseteq batch'[j]
                              /\ \A e \in buffer'[j] : Visible(e)'
    BY <1>1, <1>2 DEF BatchesSound, Visible, OutboxTypeOK
  <2>3. \A i, j \in Publishers : i # j => batch'[i] \cap batch'[j] = {}
    BY <1>2 DEF BatchesSound
  <2> QED  BY <2>1, <2>2, <2>3 DEF BatchesSound
<1>5. RowsHaveMerchants'
  <2>1. \A e \in Events : row'[e] # "none" => row[e] # "none"
    BY <1>1 DEF BatchesSound
  <2> QED  BY <2>1, <1>1 DEF RowsHaveMerchants
<1>6. OnlyCommittedSent'
  BY <1>1 DEF OnlyCommittedSent, InTopic, Visible
<1>7. NothingLostYet'
  <2> SUFFICES ASSUME lost = 0
               PROVE  /\ ZeroEventLoss'
                      /\ \A j \in Publishers : \A d \in batch'[j] \ buffer'[j] : InTopic(d)'
    BY <1>1 DEF NothingLostYet
  <2>1. \A e \in Events : InTopic(e)' <=> InTopic(e)  BY <1>1 DEF InTopic
  <2>2. \A e \in Events : row'[e] = "published" => e \in batch[k] \/ row[e] = "published"
    BY <1>1
  <2>3. \A e \in batch[k] : InTopic(e)  BY <1>1 DEF NothingLostYet
  <2>4. ZeroEventLoss'  BY <2>1, <2>2, <2>3 DEF NothingLostYet, ZeroEventLoss
  <2>5. ASSUME NEW j \in Publishers, NEW d \in batch'[j] \ buffer'[j]  PROVE  InTopic(d)'
    <3>1. d \in batch[j] \ buffer[j] /\ d \in Events  BY <2>5, <1>1, <1>2 DEF OutboxTypeOK
    <3> QED  BY <3>1, <2>1 DEF NothingLostYet
  <2> QED  BY <2>4, <2>5
<1> QED  BY <1>3, <1>4, <1>5, <1>6, <1>7

LEMMA FailRunKeeps ==
  ASSUME OutboxInv, NEW k \in Publishers, FailRun(k)
  PROVE  OutboxInv'
<1> USE DEF OutboxInv
<1>1. /\ failures < MaxFailures /\ failures' = failures + 1
      /\ batch' = [batch EXCEPT ![k] = {}]
      /\ UNCHANGED <<row, merchant, cause, topic, lost, overlapped>>
  BY DEF FailRun, rowVars
<1>b. PICK n \in Events \cup {0} :
          buffer' = [buffer EXCEPT ![k] = {e \in buffer[k] : e <= n}]
  BY DEF FailRun
<1>2. \A j \in Publishers : /\ batch'[j] = IF j = k THEN {} ELSE batch[j]
                            /\ buffer'[j] \subseteq buffer[j]
                            /\ j # k => buffer'[j] = buffer[j]
  BY <1>1, <1>b DEF OutboxTypeOK
<1>3. OutboxTypeOK'  BY <1>1, <1>b, BoundsAssumption DEF OutboxTypeOK
<1>4. BatchesSound'  BY <1>1, <1>2 DEF BatchesSound, Visible
<1>5. RowsHaveMerchants' /\ OnlyCommittedSent'
  BY <1>1 DEF RowsHaveMerchants, OnlyCommittedSent, InTopic, Visible
<1>6. NothingLostYet'
  BY <1>1, <1>2 DEF NothingLostYet, ZeroEventLoss, InTopic
<1> QED  BY <1>3, <1>4, <1>5, <1>6

LEMMA OutboxNextInvariant == OutboxInv /\ [OutboxNext]_outboxVars => OutboxInv'
<1> SUFFICES ASSUME OutboxInv, [OutboxNext]_outboxVars  PROVE  OutboxInv'
  OBVIOUS
<1>1. CASE Requests
  BY <1>1, EmitKeeps, EndRequestKeeps DEF Requests
<1>2. ASSUME NEW k \in Publishers, Task(k)  PROVE  OutboxInv'
  BY <1>2, FetchKeeps, SendKeeps, LoseSendKeeps, MarkPublishedKeeps, FailRunKeeps
  DEF Task, Deliver
<1>3. CASE UNCHANGED outboxVars
  BY <1>3 DEF outboxVars, OutboxInv, OutboxTypeOK, BatchesSound, RowsHaveMerchants,
              OnlyCommittedSent, NothingLostYet, ZeroEventLoss, InTopic, Visible
<1> QED  BY <1>1, <1>2, <1>3 DEF OutboxNext

-----------------------------------------------------------------------------

\* However many runs of publish_pending_events overlap or fail, each works on
\* pending rows of its own.
THEOREM OutboxInvariantHolds == OutboxSpec => []OutboxInv
  BY OutboxInitInvariant, OutboxNextInvariant, PTL DEF OutboxSpec

\* Rows, batches, buffers and topic keep their types.
THEOREM OutboxTypeCorrect == OutboxSpec => []OutboxTypeOK
<1>1. OutboxInv => OutboxTypeOK  BY DEF OutboxInv
<1> QED  BY <1>1, OutboxInvariantHolds, PTL

\* Consumers of the topic never hear of a request that was rolled back.
THEOREM NothingUncommittedSent == OutboxSpec => []OnlyCommittedSent
<1>1. OutboxInv => OnlyCommittedSent  BY DEF OutboxInv
<1> QED  BY <1>1, OutboxInvariantHolds, PTL

\* Where no send fails, no event is lost: overlapping and crashing runs never mark a
\* row published that is not in the topic.
THEOREM NoLossWithoutFailedSends ==
  ASSUME MaxLost = 0
  PROVE  OutboxSpec => []ZeroEventLoss
<1>1. OutboxInv => ZeroEventLoss
  <2>1. OutboxInv => lost = 0  BY BoundsAssumption DEF OutboxInv, OutboxTypeOK
  <2> QED  BY <2>1 DEF OutboxInv, NothingLostYet
<1> QED  BY <1>1, OutboxInvariantHolds, PTL
-----------------------------------------------------------------------------
(* What is lost and what is sent twice: both are counted by the failures. *)

\* The rows are finitely many.
LEMMA EventsFinite == \A S \in SUBSET Events : IsFiniteSet(S)
<1>1. IsFiniteSet(Events)
  BY FS_Interval, BoundsAssumption DEF Events
<1> QED  BY <1>1, FS_Subset

\* A set inside another one with at most one element more has at most one more.
LEMMA OneMore ==
  ASSUME NEW S, NEW T, NEW x, IsFiniteSet(S), T \subseteq S \cup {x}
  PROVE  /\ IsFiniteSet(T)
         /\ Cardinality(S) \in Nat /\ Cardinality(T) \in Nat
         /\ Cardinality(T) <= Cardinality(S) + 1
         /\ T \subseteq S => Cardinality(T) <= Cardinality(S)
<1>1. IsFiniteSet(S \cup {x}) /\ Cardinality(S) \in Nat
  BY FS_AddElement, FS_CardinalityType
<1>2. Cardinality(S \cup {x}) \in Nat /\ Cardinality(S \cup {x}) <= Cardinality(S) + 1
  BY <1>1, FS_AddElement
<1>3. IsFiniteSet(T) /\ Cardinality(T) <= Cardinality(S \cup {x})
  BY <1>1, FS_Subset
<1>4. Cardinality(T) \in Nat
  BY <1>3, FS_CardinalityType
<1>5. T \subseteq S => Cardinality(T) <= Cardinality(S)
  BY FS_Subset
<1> QED  BY <1>1, <1>2, <1>3, <1>4, <1>5

\* A step after which nothing more is missing than before costs no send.
LEMMA FewerMissing ==
  ASSUME OutboxTypeOK, LossesCounted, lost' = lost,
         \A e \in Events : (LeftProducer(e) /\ ~InTopic(e))' => LeftProducer(e) /\ ~InTopic(e)
  PROVE  LossesCounted'
<1> DEFINE missing == {e \in Events : LeftProducer(e) /\ ~InTopic(e)}
<1>1. IsFiniteSet(missing)
  BY EventsFinite
<1>2. missing' \subseteq missing
  OBVIOUS
<1>3. /\ Cardinality(missing') <= Cardinality(missing)
      /\ Cardinality(missing) \in Nat /\ Cardinality(missing') \in Nat
  BY <1>1, <1>2, FS_Subset, FS_CardinalityType
<1>4. Cardinality(missing) <= lost /\ lost \in Nat
  BY DEF LossesCounted, OutboxTypeOK
<1> QED
  BY <1>3, <1>4 DEF LossesCounted

\* The losses are counted in every step: only LoseSend adds to what is missing.
LEMMA LossesStayCounted ==
  OutboxInv /\ LossesCounted /\ [OutboxNext]_outboxVars => LossesCounted'
<1> SUFFICES ASSUME OutboxInv, LossesCounted, [OutboxNext]_outboxVars
             PROVE  LossesCounted'
  OBVIOUS
<1> USE DEF OutboxInv
<1>1. ASSUME NEW e \in Events, NEW m \in Merchants, NEW d \in Events \cup {0}, Emit(e, m, d)
      PROVE  LossesCounted'
  BY <1>1, FewerMissing DEF Emit, Latest, OutboxTypeOK, LeftProducer, InTopic
<1>2. ASSUME NEW e \in Events, NEW o \in {"pending", "aborted"}, EndRequest(e, o)
      PROVE  LossesCounted'
  BY <1>2, FewerMissing DEF EndRequest, OutboxTypeOK, LeftProducer, InTopic
<1>3. ASSUME NEW k \in Publishers, Fetch(k)  PROVE  LossesCounted'
  <2>1. \A j \in Publishers : batch'[j] \ buffer'[j] \subseteq batch[j] \ buffer[j]
    BY <1>3 DEF Fetch, OutboxTypeOK
  <2> QED  BY <2>1, <1>3, FewerMissing DEF Fetch, rowVars, LeftProducer, InTopic
<1>4. ASSUME NEW k \in Publishers, NEW e \in Events, Send(k, e)  PROVE  LossesCounted'
  <2>1. /\ Visible(e) /\ merchant[e] \in Merchants
        /\ topic' = [topic EXCEPT ![merchant[e]] = Append(topic[merchant[e]], e)]
        /\ buffer' = [buffer EXCEPT ![k] = buffer[k] \ {e}]
        /\ UNCHANGED <<row, merchant, cause, batch, failures, lost, overlapped>>
    BY <1>4 DEF Send, rowVars, BatchesSound, RowsHaveMerchants, Visible
  <2>2. InTopic(e)' /\ \A d \in Events : InTopic(d) => InTopic(d)'
    <3>1. topic \in [Merchants -> Seq(Events)]  BY DEF OutboxTypeOK
    <3> QED  BY <2>1, <3>1, TopicGrows
  <2>3. \A j \in Publishers : buffer[j] \subseteq buffer'[j] \cup {e}
    BY <2>1 DEF OutboxTypeOK
  <2>4. \A d \in Events : LeftProducer(d)' => d = e \/ LeftProducer(d)
    BY <2>1, <2>3 DEF LeftProducer
  <2> QED  BY <2>1, <2>2, <2>4, FewerMissing
<1>5. ASSUME NEW k \in Publishers, NEW e \in Events, LoseSend(k, e)  PROVE  LossesCounted'
  <2> DEFINE missing == {x \in Events : LeftProducer(x) /\ ~InTopic(x)}
  <2>1. /\ lost' = lost + 1
        /\ buffer' = [buffer EXCEPT ![k] = buffer[k] \ {e}]
        /\ UNCHANGED <<row, merchant, cause, batch, topic, failures, overlapped>>
    BY <1>5 DEF LoseSend, rowVars
  <2>2. \A j \in Publishers : buffer[j] \subseteq buffer'[j] \cup {e}
    BY <2>1 DEF OutboxTypeOK
  <2>3. missing' \subseteq missing \cup {e}
    BY <2>1, <2>2 DEF LeftProducer, InTopic
  <2>4. IsFiniteSet(missing)
    BY EventsFinite
  <2> HIDE DEF missing
  <2>5. /\ Cardinality(missing') <= Cardinality(missing) + 1
        /\ Cardinality(missing) \in Nat /\ Cardinality(missing') \in Nat
    BY <2>3, <2>4, OneMore
  <2>6. Cardinality(missing) <= lost /\ lost \in Nat
    BY DEF LossesCounted, OutboxTypeOK, missing
  <2>7. Cardinality(missing') <= lost'
    BY <2>1, <2>5, <2>6
  <2> QED  BY <2>7 DEF LossesCounted, missing
<1>6. ASSUME NEW k \in Publishers, MarkPublished(k)  PROVE  LossesCounted'
  <2>1. \A j \in Publishers : batch'[j] \subseteq batch[j]
    BY <1>6 DEF MarkPublished, OutboxTypeOK
  <2>2. \A e \in Events : LeftProducer(e)' => LeftProducer(e)
    BY <2>1, <1>6 DEF MarkPublished, LeftProducer
  <2> QED  BY <2>2, <1>6, FewerMissing DEF MarkPublished, InTopic
<1>7. ASSUME NEW k \in Publishers, FailRun(k)  PROVE  LossesCounted'
  <2>1. \A j \in Publishers : batch'[j] = {} \/ (batch'[j] = batch[j] /\ buffer'[j] = buffer[j])
    BY <1>7 DEF FailRun, OutboxTypeOK
  <2> QED  BY <2>1, <1>7, FewerMissing DEF FailRun, rowVars, LeftProducer, InTopic
<1>8. CASE UNCHANGED outboxVars
  BY <1>8, FewerMissing DEF outboxVars, LeftProducer, InTopic
<1> QED
  BY <1>1, <1>2, <1>3, <1>4, <1>5, <1>6, <1>7, <1>8
  DEF OutboxNext, Requests, Task, Deliver

\* A row marked published has reached the topic unless its own send failed: neither
\* crashes nor overlapping runs of publish_pending_events lose an event.
THEOREM LossesAreFailedSends == OutboxSpec => []LostOnlyByFailedSends
<1>1. OutboxInit => LossesCounted
  <2> SUFFICES ASSUME OutboxInit  PROVE  LossesCounted
    OBVIOUS
  <2>1. {e \in Events : LeftProducer(e) /\ ~InTopic(e)} = {}
    BY DEF OutboxInit, LeftProducer
  <2>2. Cardinality({e \in Events : LeftProducer(e) /\ ~InTopic(e)}) = 0
    BY <2>1, FS_EmptySet
  <2> QED  BY <2>2 DEF LossesCounted, OutboxInit
<1>2. OutboxInv /\ LossesCounted => LostOnlyByFailedSends
  <2> SUFFICES ASSUME OutboxInv, LossesCounted  PROVE  LostOnlyByFailedSends
    OBVIOUS
  <2> DEFINE missing == {e \in Events : LeftProducer(e) /\ ~InTopic(e)}
             gone == {e \in Events : row[e] = "published" /\ ~InTopic(e)}
  <2>1. IsFiniteSet(missing) /\ gone \subseteq missing
    BY EventsFinite DEF LeftProducer
  <2>2. /\ Cardinality(gone) <= Cardinality(missing)
        /\ Cardinality(gone) \in Nat /\ Cardinality(missing) \in Nat
    BY <2>1, FS_Subset, FS_CardinalityType
  <2> QED  BY <2>2 DEF LossesCounted, LostOnlyByFailedSends, OutboxInv, OutboxTypeOK
<1> QED
  BY <1>1, <1>2, LossesStayCounted, OutboxInvariantHolds, PTL DEF OutboxSpec

\* A set that loses an element, keeps them or gains one.
LEMMA OneLess ==
  ASSUME NEW S, NEW T, NEW x, IsFiniteSet(S), x \in S, T \subseteq S \ {x}
  PROVE  /\ IsFiniteSet(T)
         /\ Cardinality(S) \in Nat /\ Cardinality(T) \in Nat
         /\ Cardinality(T) + 1 <= Cardinality(S)
<1>1. /\ IsFiniteSet(S \ {x}) /\ Cardinality(S) \in Nat
      /\ Cardinality(S \ {x}) = Cardinality(S) - 1
  BY FS_RemoveElement, FS_CardinalityType
<1>2. /\ IsFiniteSet(T) /\ Cardinality(T) \in Nat
      /\ Cardinality(T) <= Cardinality(S \ {x})
  BY <1>1, FS_Subset, FS_CardinalityType
<1> QED  BY <1>1, <1>2

\* What is counted of an event.
Counted(e) ==
    /\ IsFiniteSet(Copies(e)) /\ IsFiniteSet(Closing(e))
    /\ Cardinality(Copies(e)) + Cardinality(Closing(e)) <=
           failures + (IF LeftProducer(e) THEN 1 ELSE 0)

\* A step that adds no message and gives no failed run an event to deliver keeps the
\* count, if the event stays with those that left their producers or a run fails.
LEMMA SameCopies ==
  ASSUME OutboxTypeOK, topic' = topic, failures' \in Nat,
         NEW e \in Events, Counted(e), Closing(e)' \subseteq Closing(e),
         \/ failures' > failures
         \/ failures' = failures /\ (LeftProducer(e) => LeftProducer(e)')
  PROVE  Counted(e)'
<1>1. Copies(e)' = Copies(e)
  BY DEF Copies
<1>2. /\ IsFiniteSet(Copies(e)) /\ Cardinality(Copies(e)) \in Nat /\ failures \in Nat
      /\ IsFiniteSet(Closing(e)) /\ Cardinality(Closing(e)) \in Nat
      /\ Cardinality(Copies(e)) + Cardinality(Closing(e)) <=
             failures + (IF LeftProducer(e) THEN 1 ELSE 0)
  BY FS_CardinalityType DEF Counted, OutboxTypeOK
<1>3. /\ IsFiniteSet(Closing(e)') /\ Cardinality(Closing(e)') \in Nat
      /\ Cardinality(Closing(e)') <= Cardinality(Closing(e))
  BY <1>2, FS_Subset, FS_CardinalityType
<1> QED
  BY <1>1, <1>2, <1>3 DEF Counted

\* A run that fails may leave one more producer that delivers the event, and is one
\* more failure.
LEMMA FailedRunCounted ==
  ASSUME OutboxTypeOK, topic' = topic, failures' = failures + 1,
         NEW e \in Events, NEW k, Counted(e), Closing(e)' \subseteq Closing(e) \cup {k},
         LeftProducer(e) => LeftProducer(e)'
  PROVE  Counted(e)'
<1>1. Copies(e)' = Copies(e)
  BY DEF Copies
<1>2. /\ IsFiniteSet(Copies(e)) /\ Cardinality(Copies(e)) \in Nat /\ failures \in Nat
      /\ IsFiniteSet(Closing(e)) /\ Cardinality(Closing(e)) \in Nat
      /\ Cardinality(Copies(e)) + Cardinality(Closing(e)) <=
             failures + (IF LeftProducer(e) THEN 1 ELSE 0)
  BY FS_CardinalityType DEF Counted, OutboxTypeOK
<1>3. /\ IsFiniteSet(Closing(e)') /\ Cardinality(Closing(e)') \in Nat
      /\ Cardinality(Closing(e)') <= Cardinality(Closing(e)) + 1
  BY <1>2, OneMore
<1> QED
  BY <1>1, <1>2, <1>3 DEF Counted

\* A message appended to a partition is one more copy of its event, and of no other.
LEMMA SendAddsCopy ==
  ASSUME topic \in [Merchants -> Seq(Events)],
         NEW m \in Merchants, NEW e \in Events,
         topic' = [topic EXCEPT ![m] = Append(topic[m], e)],
         NEW d \in Events
  PROVE  /\ Copies(d)' \subseteq Copies(d) \cup {<<m, Len(topic[m]) + 1>>}
         /\ d # e => Copies(d)' \subseteq Copies(d)
<1>1. topic[m] \in Seq(Events) /\ topic'[m] = Append(topic[m], e)
  OBVIOUS
<1>2. \A n \in Merchants : n # m => topic'[n] = topic[n]
  OBVIOUS
<1>3. /\ Len(topic[m]) \in Nat
      /\ DOMAIN topic'[m] = 1..(Len(topic[m]) + 1) /\ DOMAIN topic[m] = 1..Len(topic[m])
      /\ topic'[m][Len(topic[m]) + 1] = e
      /\ \A i \in 1..Len(topic[m]) : topic'[m][i] = topic[m][i]
  BY <1>1
<1>4. ASSUME NEW n \in Merchants, NEW i \in 1..(MaxEvents * (1 + MaxFailures)),
             i \in DOMAIN topic'[n], topic'[n][i] = d
      PROVE  \/ n = m /\ i = Len(topic[m]) + 1 /\ d = e
             \/ i \in DOMAIN topic[n] /\ topic[n][i] = d
  <2>1. CASE n # m  BY <2>1, <1>2, <1>4
  <2>2. CASE n = m
    <3>1. i \in 1..(Len(topic[m]) + 1)  BY <2>2, <1>3, <1>4
    <3>2. i = Len(topic[m]) + 1 \/ i \in 1..Len(topic[m])  BY <3>1, <1>3
    <3> QED  BY <2>2, <3>2, <1>3, <1>4
  <2> QED  BY <2>1, <2>2
<1>5. ASSUME NEW c \in Copies(d)'
      PROVE  (c = <<m, Len(topic[m]) + 1>> /\ d = e) \/ c \in Copies(d)
  <2>1. PICK n \in Merchants, i \in 1..(MaxEvents * (1 + MaxFailures)) : c = <<n, i>>
    BY DEF Copies
  <2>2. i \in DOMAIN topic'[n] /\ topic'[n][i] = d
    BY <2>1 DEF Copies
  <2> QED  BY <2>1, <2>2, <1>4 DEF Copies
<1> QED  BY <1>5

\* The copies are counted in every step.
LEMMA CopiesStayCounted ==
  OutboxInv /\ CopiesCounted /\ [OutboxNext]_outboxVars => CopiesCounted'
<1> SUFFICES ASSUME OutboxInv, CopiesCounted, [OutboxNext]_outboxVars
             PROVE  CopiesCounted'
  OBVIOUS
<1> USE DEF OutboxInv
<1>a. failures \in Nat /\ \A e \in Events : Counted(e)
  BY DEF OutboxTypeOK, CopiesCounted, Counted
<1> DEFINE Kept(e) == /\ Closing(e)' \subseteq Closing(e)
                      /\ LeftProducer(e) => LeftProducer(e)'
<1>b. ASSUME topic' = topic, failures' = failures, \A e \in Events : Kept(e)
      PROVE  CopiesCounted'
  <2>1. \A e \in Events : Counted(e)'
    BY <1>a, <1>b, SameCopies
  <2> QED  BY <2>1 DEF CopiesCounted, Counted
<1>1. ASSUME NEW e \in Events, NEW m \in Merchants, NEW d \in Events \cup {0}, Emit(e, m, d)
      PROVE  CopiesCounted'
  <2>1. \A x \in Events : Kept(x)
    BY <1>1 DEF Emit, Latest, OutboxTypeOK, LeftProducer, Closing
  <2> QED  BY <2>1, <1>1, <1>b DEF Emit
<1>2. ASSUME NEW e \in Events, NEW o \in {"pending", "aborted"}, EndRequest(e, o)
      PROVE  CopiesCounted'
  <2>1. \A x \in Events : Kept(x)
    BY <1>2 DEF EndRequest, OutboxTypeOK, LeftProducer, Closing
  <2> QED  BY <2>1, <1>2, <1>b DEF EndRequest
<1>3. ASSUME NEW k \in Publishers, Fetch(k)  PROVE  CopiesCounted'
  <2>1. /\ \A j \in Publishers : batch[j] \ buffer[j] \subseteq batch'[j] \ buffer'[j]
        /\ \A j \in Publishers : buffer'[j] \ batch'[j] \subseteq buffer[j] \ batch[j]
    BY <1>3 DEF Fetch, OutboxTypeOK
  <2>2. \A x \in Events : Kept(x)
    BY <2>1, <1>3 DEF Fetch, rowVars, LeftProducer, Closing
  <2> QED  BY <2>2, <1>3, <1>b DEF Fetch
<1>4. ASSUME NEW k \in Publishers, NEW e \in Events, Send(k, e)  PROVE  CopiesCounted'
  <2>1. /\ e \in buffer[k] /\ merchant[e] \in Merchants
        /\ topic' = [topic EXCEPT ![merchant[e]] = Append(topic[merchant[e]], e)]
        /\ buffer' = [buffer EXCEPT ![k] = buffer[k] \ {e}]
        /\ UNCHANGED <<row, merchant, cause, batch, failures, lost, overlapped>>
    BY <1>4 DEF Send, rowVars, BatchesSound, RowsHaveMerchants, Visible
  <2>2. \A j \in Publishers : buffer'[j] = IF j = k THEN buffer[k] \ {e} ELSE buffer[j]
    BY <2>1 DEF OutboxTypeOK
  <2>3. \A x \in Events : x # e => (LeftProducer(x) <=> LeftProducer(x)')
    BY <2>1, <2>2 DEF LeftProducer
  <2>4. \A x \in Events : Closing(x)' \subseteq Closing(x)
    BY <2>1, <2>2 DEF Closing
  <2>5. ASSUME NEW x \in Events
        PROVE  Counted(x)'
    <3>1. /\ Copies(x)' \subseteq Copies(x) \cup {<<merchant[e], Len(topic[merchant[e]]) + 1>>}
          /\ x # e => Copies(x)' \subseteq Copies(x)
      BY <2>1, SendAddsCopy DEF OutboxTypeOK
    <3>2. /\ IsFiniteSet(Copies(x)) /\ IsFiniteSet(Closing(x))
          /\ Cardinality(Copies(x)) + Cardinality(Closing(x)) <=
                 failures + (IF LeftProducer(x) THEN 1 ELSE 0)
      BY <1>a DEF Counted
    <3>3. /\ IsFiniteSet(Copies(x)')
          /\ Cardinality(Copies(x)) \in Nat /\ Cardinality(Copies(x)') \in Nat
          /\ Cardinality(Copies(x)') <= Cardinality(Copies(x)) + 1
          /\ x # e => Cardinality(Copies(x)') <= Cardinality(Copies(x))
      BY <3>1, <3>2, OneMore
    <3>4. /\ IsFiniteSet(Closing(x)')
          /\ Cardinality(Closing(x)) \in Nat /\ Cardinality(Closing(x)') \in Nat
          /\ Cardinality(Closing(x)') <= Cardinality(Closing(x))
      BY <2>4, <3>2, FS_Subset, FS_CardinalityType
    <3>5. CASE x # e
      BY <3>2, <3>3, <3>4, <3>5, <2>1, <2>3, <1>a DEF Counted
    <3>6. CASE x = e /\ e \in batch[k]
      <4>1. ~LeftProducer(e)
        BY <2>1, <3>6 DEF LeftProducer, BatchesSound
      <4>2. LeftProducer(e)'
        BY <2>1, <2>2, <3>6 DEF LeftProducer
      <4> QED  BY <4>1, <4>2, <3>2, <3>3, <3>4, <3>6, <2>1, <1>a DEF Counted
    <3>7. CASE x = e /\ e \notin batch[k]
      <4>1. LeftProducer(e) <=> LeftProducer(e)'
        BY <2>1, <2>2, <3>7 DEF LeftProducer
      <4>2. k \in Closing(e) /\ Closing(e)' \subseteq Closing(e) \ {k}
        BY <2>1, <2>2, <3>7 DEF Closing
      <4>3. Cardinality(Closing(e)') + 1 <= Cardinality(Closing(e))
        BY <4>2, <3>2, <3>7, OneLess
      <4> QED  BY <4>1, <4>3, <3>2, <3>3, <3>4, <3>7, <2>1, <1>a DEF Counted
    <3> QED  BY <3>5, <3>6, <3>7
  <2> QED  BY <2>5 DEF CopiesCounted, Counted
<1>5. ASSUME NEW k \in Publishers, NEW e \in Events, LoseSend(k, e)  PROVE  CopiesCounted'
  <2>1. /\ \A j \in Publishers : batch[j] \ buffer[j] \subseteq batch'[j] \ buffer'[j]
        /\ \A j \in Publishers : buffer'[j] \ batch'[j] \subseteq buffer[j] \ batch[j]
    BY <1>5 DEF LoseSend, OutboxTypeOK
  <2>2. \A x \in Events : Kept(x)
    BY <2>1, <1>5 DEF LoseSend, rowVars, LeftProducer, Closing
  <2> QED  BY <2>2, <1>5, <1>b DEF LoseSend
<1>6. ASSUME NEW k \in Publishers, MarkPublished(k)  PROVE  CopiesCounted'
  <2>1. /\ row' = [e \in Events |-> IF e \in batch[k] THEN "published" ELSE row[e]]
        /\ batch' = [batch EXCEPT ![k] = {}] /\ buffer' = buffer /\ buffer[k] = {}
    BY <1>6 DEF MarkPublished
  <2>2. \A j \in Publishers : j # k => batch'[j] = batch[j]
    BY <2>1 DEF OutboxTypeOK
  <2>3. \A x \in Events : Kept(x)
    BY <2>1, <2>2 DEF LeftProducer, Closing
  <2> QED  BY <2>3, <1>6, <1>b DEF MarkPublished
<1>7. ASSUME NEW k \in Publishers, FailRun(k)  PROVE  CopiesCounted'
  <2>1. /\ failures' = failures + 1 /\ topic' = topic /\ row' = row
        /\ batch' = [batch EXCEPT ![k] = {}]
    BY <1>7 DEF FailRun, rowVars
  <2>2. PICK n \in Events \cup {0} :
            buffer' = [buffer EXCEPT ![k] = {e \in buffer[k] : e <= n}]
    BY <1>7 DEF FailRun
  <2>3. \A j \in Publishers :
            /\ j # k => batch'[j] = batch[j] /\ buffer'[j] = buffer[j]
            /\ j = k => batch'[j] = {} /\ buffer'[j] \subseteq buffer[k]
    BY <2>1, <2>2 DEF OutboxTypeOK
  <2>4. ASSUME NEW x \in Events  PROVE  Counted(x)'
    <3>1. CASE x \in batch[k] \ buffer[k]
      <4>1. Closing(x)' \subseteq Closing(x)
        BY <2>3, <3>1 DEF Closing
      <4> QED  BY <4>1, <2>1, <1>a, SameCopies
    <3>2. CASE x \notin batch[k] \ buffer[k]
      <4>1. LeftProducer(x) => LeftProducer(x)'
        BY <2>1, <2>3, <3>2 DEF LeftProducer
      <4>2. Closing(x)' \subseteq Closing(x) \cup {k}
        BY <2>3 DEF Closing
      <4> QED  BY <4>1, <4>2, <2>1, <1>a, FailedRunCounted
    <3> QED  BY <3>1, <3>2
  <2> QED  BY <2>4 DEF CopiesCounted, Counted
<1>8. CASE UNCHANGED outboxVars
  <2>1. \A x \in Events : Kept(x)
    BY <1>8 DEF outboxVars, LeftProducer, Closing
  <2> QED  BY <2>1, <1>8, <1>b DEF outboxVars
<1> QED
  BY <1>1, <1>2, <1>3, <1>4, <1>5, <1>6, <1>7, <1>8
  DEF OutboxNext, Requests, Task, Deliver

\* An event is in the topic at most once more than runs of the task have failed:
\* overlapping runs never send the same row.
THEOREM DuplicatesAreFailedRuns == OutboxSpec => []CopiesFromFailures
<1>1. OutboxInit => CopiesCounted
  <2> SUFFICES ASSUME OutboxInit, NEW e \in Events  PROVE  Counted(e)
    BY DEF CopiesCounted, Counted
  <2>1. Copies(e) = {} /\ Closing(e) = {} /\ failures = 0
    BY DEF OutboxInit, Copies, Closing
  <2> QED  BY <2>1, FS_EmptySet DEF Counted
<1>2. OutboxInv /\ CopiesCounted => CopiesFromFailures
  <2> SUFFICES ASSUME OutboxInv, CopiesCounted, NEW e \in Events
               PROVE  Cardinality(Copies(e)) <= 1 + failures
    BY DEF CopiesFromFailures
  <2>1. /\ Cardinality(Copies(e)) \in Nat /\ Cardinality(Closing(e)) \in Nat
        /\ failures \in Nat
        /\ Cardinality(Copies(e)) + Cardinality(Closing(e)) <=
               failures + (IF LeftProducer(e) THEN 1 ELSE 0)
    BY FS_CardinalityType DEF CopiesCounted, OutboxInv, OutboxTypeOK
  <2> QED  BY <2>1
<1> QED
  BY <1>1, <1>2, CopiesStayCounted, OutboxInvariantHolds, PTL DEF OutboxSpec

-----------------------------------------------------------------------------
(* The order of the topic, up to the first send that fails and the first   *)
(* run that fetches while another is at work, for any number of crashes.   *)

\* An empty outbox is in order.
LEMMA OrderInit == OutboxInit => OrderInv
<1> SUFFICES ASSUME OutboxInit  PROVE  OrderInv
  OBVIOUS
<1>1. StampsInOrder /\ CausesCommitted /\ BuffersClosed
  BY DEF OutboxInit, StampsInOrder, CausesCommitted, BuffersClosed
<1>2. CausalOrder
  <2>1. \A m \in Merchants : DOMAIN topic[m] = {}
    BY DEF OutboxInit
  <2> QED  BY <2>1 DEF CausalOrder
<1> QED  BY <1>1, <1>2 DEF OrderInv

-----------------------------------------------------------------------------
(* The steps that matter to the order, one lemma each.                     *)

\* A new row is the youngest, names an older row of its tenant as its cause, and
\* is in no batch.
LEMMA EmitKeepsOrder ==
  ASSUME OutboxInv, OrderInv, NEW e \in Events, NEW m \in Merchants,
         NEW d \in Events \cup {0}, Emit(e, m, d)
  PROVE  OrderInv'
<1> USE DEF OrderInv, OutboxInv
<1>1. /\ row[e] = "none" /\ \A x \in Events : x < e => row[x] # "none"
      /\ d # 0 => Visible(d) /\ merchant[d] = m
      /\ row' = [row EXCEPT ![e] = "open"]
      /\ merchant' = [merchant EXCEPT ![e] = m]
      /\ cause' = [cause EXCEPT ![e] = d]
      /\ UNCHANGED <<batch, buffer, topic, failures, lost, overlapped>>
  <2>1. 0 \notin Events  BY DEF Events
  <2> QED  BY <2>1 DEF Emit, Latest
<1>2. \A x \in Events : x # e =>
         row'[x] = row[x] /\ merchant'[x] = merchant[x] /\ cause'[x] = cause[x]
  BY <1>1 DEF OutboxTypeOK
<1>3. row'[e] = "open" /\ merchant'[e] = m /\ cause'[e] = d
  BY <1>1 DEF OutboxTypeOK
<1>4. StampsInOrder'
  BY <1>1, <1>2, <1>3 DEF StampsInOrder
<1>5. d # 0 => d \in Events /\ d # e /\ d < e
  <2>1. d # 0 => d \in Events /\ d # e
    BY <1>1 DEF Visible
  <2>2. d # 0 => row[d] # "none"
    BY <1>1 DEF Visible
  <2> QED  BY <2>1, <2>2, <1>1 DEF StampsInOrder, Events
<1>6. CausesCommitted'
  <2> SUFFICES ASSUME NEW x \in Events, row'[x] # "none", cause'[x] # 0
               PROVE  /\ cause'[x] < x
                      /\ row'[cause'[x]] \in {"pending", "published"}
                      /\ merchant'[cause'[x]] = merchant'[x]
    BY DEF CausesCommitted, Visible
  <2>1. CASE x = e  BY <2>1, <1>1, <1>2, <1>3, <1>5 DEF Visible
  <2>2. CASE x # e
    <3>1. /\ cause[x] \in Events /\ cause[x] < x /\ Visible(cause[x])
          /\ merchant[cause[x]] = merchant[x]
      BY <2>2, <1>2 DEF CausesCommitted, OutboxTypeOK
    <3>2. cause[x] # e  BY <3>1, <1>1 DEF Visible
    <3> QED  BY <3>1, <3>2, <2>2, <1>2 DEF Visible
  <2> QED  BY <2>1, <2>2
<1>7. BuffersClosed => BuffersClosed'
  <2> SUFFICES ASSUME BuffersClosed, NEW k \in Publishers, NEW x \in buffer[k], cause'[x] # 0
               PROVE  InTopic(cause'[x]) \/ cause'[x] \in buffer[k]
    BY <1>1 DEF BuffersClosed, InTopic
  <2>1. x \in Events /\ x # e
    BY <1>1 DEF BatchesSound, OutboxTypeOK, Visible
  <2> QED  BY <2>1, <1>2 DEF BuffersClosed
<1>8. CausalOrder => CausalOrder'
  <2> SUFFICES ASSUME CausalOrder, NEW n \in Merchants, NEW i \in DOMAIN topic[n]
               PROVE  /\ merchant'[topic[n][i]] = n
                      /\ cause'[topic[n][i]] # 0 =>
                            \E j \in 1..(i - 1) : topic[n][j] = cause'[topic[n][i]]
    BY <1>1 DEF CausalOrder
  <2>1. topic[n][i] \in Events  BY DEF OutboxTypeOK
  <2>2. topic[n][i] # e  BY <2>1, <1>1 DEF OnlyCommittedSent, InTopic, Visible
  <2> QED  BY <2>1, <2>2, <1>2 DEF CausalOrder
<1> QED  BY <1>1, <1>4, <1>6, <1>7, <1>8 DEF OneAtATime

\* The end of a request changes a row nobody depends on yet.
LEMMA EndRequestKeepsOrder ==
  ASSUME OutboxInv, OrderInv, NEW e \in Events, NEW o \in {"pending", "aborted"},
         EndRequest(e, o)
  PROVE  OrderInv'
<1> USE DEF OrderInv, OutboxInv
<1>1. /\ row[e] = "open" /\ row' = [row EXCEPT ![e] = o]
      /\ UNCHANGED <<merchant, cause, batch, buffer, topic, failures, lost, overlapped>>
  BY DEF EndRequest
<1>2. /\ \A x \in Events : x # e => row'[x] = row[x]
      /\ row'[e] = o
  BY <1>1 DEF OutboxTypeOK
<1>3. StampsInOrder'  BY <1>1, <1>2 DEF StampsInOrder
<1>4. CausesCommitted'
  <2>1. \A x \in Events : row'[x] # "none" => row[x] # "none"
    BY <1>1, <1>2
  <2>2. \A x \in Events : Visible(x) => x # e /\ Visible(x)'
    BY <1>1, <1>2 DEF Visible
  <2>3. \A x \in Events : cause[x] # 0 => cause[x] \in Events
    BY DEF OutboxTypeOK
  <2> QED  BY <1>1, <2>1, <2>2, <2>3 DEF CausesCommitted
<1>5. BuffersClosed <=> BuffersClosed'
  BY <1>1 DEF BuffersClosed, InTopic
<1>6. CausalOrder <=> CausalOrder'
  BY <1>1 DEF CausalOrder
<1> QED  BY <1>1, <1>3, <1>4, <1>5, <1>6 DEF OneAtATime

\* A run that fetches alone takes the oldest of all pending rows: with a row, its cause,
\* unless the cause was published.
LEMMA FetchKeepsOrder ==
  ASSUME OutboxInv, OrderInv, NEW k \in Publishers, Fetch(k)
  PROVE  OrderInv'
<1> USE DEF OrderInv, OutboxInv
<1> DEFINE Older(e) == {d \in Ready : d < e}
           oldest == {e \in Ready : Cardinality(Older(e)) < BatchSize}
<1>1. /\ batch[k] \cup buffer[k] = {}
      /\ buffer' = [buffer EXCEPT ![k] = oldest]
      /\ overlapped' = (overlapped \/ \E j \in Publishers : batch[j] \cup buffer[j] # {})
      /\ UNCHANGED <<row, merchant, cause, topic, failures, lost>>
  BY DEF Fetch, rowVars
<1>2. StampsInOrder' /\ CausesCommitted' /\ (CausalOrder => CausalOrder')
  BY <1>1 DEF StampsInOrder, CausesCommitted, CausalOrder, Visible
<1> SUFFICES ASSUME OneAtATime'  PROVE  BuffersClosed' /\ CausalOrder'
  BY <1>2
<1>3. /\ OneAtATime /\ lost = 0
      /\ \A j \in Publishers : batch[j] = {} /\ buffer[j] = {}
  BY <1>1 DEF OneAtATime
<1>4. Ready = {e \in Events : row[e] = "pending"}
  BY <1>3 DEF Ready, Locked
<1>5. ASSUME NEW e \in oldest, cause[e] # 0
      PROVE  InTopic(cause[e]) \/ cause[e] \in oldest
  <2> DEFINE d == cause[e]
  <2>1. e \in Events /\ row[e] = "pending" /\ Cardinality(Older(e)) < BatchSize
    BY <1>4
  <2>2. d \in Events /\ d < e /\ Visible(d)
    BY <2>1, <1>5 DEF CausesCommitted, OutboxTypeOK
  <2>3. ASSUME row[d] = "pending"  PROVE  d \in oldest
    <3>1. d \in Ready  BY <2>2, <2>3, <1>4
    <3>2. Older(d) \subseteq Older(e)
      BY <2>1, <2>2, <1>4 DEF Events
    <3>3. IsFiniteSet(Older(e)) /\ IsFiniteSet(Older(d))
      BY EventsFinite, <1>4
    <3>4. /\ Cardinality(Older(d)) <= Cardinality(Older(e))
          /\ Cardinality(Older(d)) \in Nat /\ Cardinality(Older(e)) \in Nat
      BY <3>2, <3>3, FS_Subset, FS_CardinalityType
    <3>5. Cardinality(Older(d)) < BatchSize
      BY <3>4, <2>1, BatchSizeAssumption
    <3> QED  BY <3>1, <3>5
  <2>4. row[d] = "published" => InTopic(d)
    BY <2>2, <1>3 DEF NothingLostYet, ZeroEventLoss
  <2> QED  BY <2>2, <2>3, <2>4 DEF Visible
<1> HIDE DEF oldest
<1>6. BuffersClosed'
  <2>1. \A j \in Publishers : buffer'[j] = IF j = k THEN oldest ELSE {}
    BY <1>1, <1>3 DEF OutboxTypeOK
  <2>2. \A x : InTopic(x)' <=> InTopic(x)
    BY <1>1 DEF InTopic
  <2> QED  BY <2>1, <2>2, <1>1, <1>5 DEF BuffersClosed
<1> QED  BY <1>2, <1>3, <1>6

\* The producer keeps the rows of a tenant in order, so when it sends an event the
\* event's cause is in the topic already.
LEMMA SendKeepsOrder ==
  ASSUME OutboxInv, OrderInv, NEW k \in Publishers, NEW e \in Events, Send(k, e)
  PROVE  OrderInv'
<1> USE DEF OrderInv, OutboxInv
<1> DEFINE m == merchant[e]
           d == cause[e]
<1>1. /\ e \in buffer[k] /\ Visible(e) /\ m \in Merchants
      /\ \A x \in buffer[k] : merchant[x] = m => e <= x
      /\ topic' = [topic EXCEPT ![m] = Append(topic[m], e)]
      /\ buffer' = [buffer EXCEPT ![k] = buffer[k] \ {e}]
      /\ UNCHANGED <<row, merchant, cause, batch, failures, lost, overlapped>>
  BY DEF Send, rowVars, BatchesSound, RowsHaveMerchants, Visible
<1>2. StampsInOrder' /\ CausesCommitted'
  BY <1>1 DEF StampsInOrder, CausesCommitted, Visible
<1> SUFFICES ASSUME OneAtATime'  PROVE  BuffersClosed' /\ CausalOrder'
  BY <1>2
<1>3. BuffersClosed /\ CausalOrder
  BY <1>1 DEF OneAtATime
<1>a. /\ InTopic(e)'
      /\ \A x \in Events : InTopic(x) => InTopic(x)'
  <2>1. topic \in [Merchants -> Seq(Events)]  BY DEF OutboxTypeOK
  <2> QED  BY <1>1, <2>1, TopicGrows
<1>b. BuffersClosed'
  <2> SUFFICES ASSUME NEW j \in Publishers, NEW x \in buffer'[j], cause[x] # 0
               PROVE  InTopic(cause[x])' \/ cause[x] \in buffer'[j]
    BY <1>1 DEF BuffersClosed
  <2>1. buffer'[j] = IF j = k THEN buffer[k] \ {e} ELSE buffer[j]
    BY <1>1 DEF OutboxTypeOK
  <2>2. x \in buffer[j] /\ x \in Events /\ cause[x] \in Events
    BY <2>1 DEF OutboxTypeOK
  <2>3. InTopic(cause[x]) \/ cause[x] \in buffer[j]
    BY <2>2, <1>3 DEF BuffersClosed
  <2>4. CASE InTopic(cause[x])
    BY <2>2, <2>4, <1>a, <1>1
  <2>5. CASE cause[x] = e
    BY <2>5, <1>a, <1>1
  <2>6. CASE cause[x] \in buffer[j] /\ cause[x] # e
    BY <2>1, <2>6
  <2> QED  BY <2>3, <2>4, <2>5, <2>6
<1>4. ASSUME d # 0  PROVE  \E j \in 1..Len(topic[m]) : topic[m][j] = d
  <2>1. d \in Events /\ d < e /\ merchant[d] = m
    BY <1>1, <1>4 DEF CausesCommitted, OutboxTypeOK, Visible
  <2>2. d \notin buffer[k]
    BY <2>1, <1>1 DEF Events
  <2>3. InTopic(d)
    BY <2>2, <1>1, <1>3, <1>4 DEF BuffersClosed
  <2>4. PICK n \in Merchants : \E j \in DOMAIN topic[n] : topic[n][j] = d
    BY <2>3 DEF InTopic
  <2>5. n = m
    BY <2>1, <2>4, <1>3 DEF CausalOrder
  <2>6. topic[m] \in Seq(Events)
    BY <1>1 DEF OutboxTypeOK
  <2> QED  BY <2>4, <2>5, <2>6
<1>5. CausalOrder'
  <2> SUFFICES ASSUME NEW n \in Merchants, NEW i \in DOMAIN topic'[n]
               PROVE  /\ merchant[topic'[n][i]] = n
                      /\ cause[topic'[n][i]] # 0 =>
                            \E j \in 1..(i - 1) : topic'[n][j] = cause[topic'[n][i]]
    BY <1>1 DEF CausalOrder
  <2>1. topic \in [Merchants -> Seq(Events)] /\ topic[m] \in Seq(Events)
    BY <1>1 DEF OutboxTypeOK
  <2>2. CASE n # m
    <3>1. topic'[n] = topic[n]  BY <2>1, <2>2, <1>1
    <3> QED  BY <3>1, <1>3 DEF CausalOrder
  <2>3. CASE n = m
    <3>1. /\ topic'[n] = Append(topic[m], e) /\ Len(topic[m]) \in Nat
          /\ i \in 1..(Len(topic[m]) + 1)
          /\ topic'[n][Len(topic[m]) + 1] = e
          /\ \A j \in 1..Len(topic[m]) : topic'[n][j] = topic[m][j]
      BY <2>1, <2>3, <1>1
    <3>2. CASE i = Len(topic[m]) + 1
      <4>1. topic'[n][i] = e /\ i - 1 = Len(topic[m])  BY <3>1, <3>2
      <4> QED  BY <4>1, <3>1, <2>3, <1>4
    <3>3. CASE i \in 1..Len(topic[m])
      <4>1. topic'[n][i] = topic[m][i] /\ i \in DOMAIN topic[m]
        BY <3>1, <3>3, <2>1
      <4>2. \A j \in 1..(i - 1) : topic'[n][j] = topic[m][j]
        BY <3>1, <3>3
      <4> QED  BY <4>1, <4>2, <2>3, <1>3 DEF CausalOrder
    <3> QED  BY <3>1, <3>2, <3>3
  <2> QED  BY <2>2, <2>3
<1> QED  BY <1>b, <1>5

\* Marking a batch published moves no message, and no row back.
LEMMA MarkPublishedKeepsOrder ==
  ASSUME OutboxInv, OrderInv, NEW k \in Publishers, MarkPublished(k)
  PROVE  OrderInv'
<1> USE DEF OrderInv, OutboxInv
<1>1. /\ row' = [e \in Events |-> IF e \in batch[k] THEN "published" ELSE row[e]]
      /\ UNCHANGED <<merchant, cause, buffer, topic, failures, lost, overlapped>>
  BY DEF MarkPublished
<1>2. \A e \in batch[k] : row[e] = "pending"
  BY DEF BatchesSound
<1>3. StampsInOrder'  BY <1>1, <1>2 DEF StampsInOrder
<1>4. CausesCommitted'
  <2>1. \A e \in Events : (row'[e] # "none" <=> row[e] # "none") /\ (Visible(e) => Visible(e)')
    BY <1>1, <1>2 DEF Visible
  <2>2. \A e \in Events : cause[e] # 0 => cause[e] \in Events
    BY DEF OutboxTypeOK
  <2> QED  BY <1>1, <2>1, <2>2 DEF CausesCommitted
<1>5. (BuffersClosed <=> BuffersClosed') /\ (CausalOrder <=> CausalOrder')
  BY <1>1 DEF BuffersClosed, CausalOrder, InTopic
<1> QED  BY <1>1, <1>3, <1>4, <1>5 DEF OneAtATime

\* A failed run's producer still delivers what is older than something it delivers,
\* causes before effects.
LEMMA FailRunKeepsOrder ==
  ASSUME OutboxInv, OrderInv, NEW k \in Publishers, FailRun(k)
  PROVE  OrderInv'
<1> USE DEF OrderInv, OutboxInv
<1>1. UNCHANGED <<row, merchant, cause, topic, lost, overlapped>>
  BY DEF FailRun, rowVars
<1>2. StampsInOrder' /\ CausesCommitted' /\ (CausalOrder <=> CausalOrder')
  BY <1>1 DEF StampsInOrder, CausesCommitted, CausalOrder, Visible
<1>3. PICK n \in Events \cup {0} :
          buffer' = [buffer EXCEPT ![k] = {e \in buffer[k] : e <= n}]
  BY DEF FailRun
<1>4. BuffersClosed => BuffersClosed'
  <2> SUFFICES ASSUME BuffersClosed, NEW j \in Publishers, NEW x \in buffer'[j], cause[x] # 0
               PROVE  InTopic(cause[x]) \/ cause[x] \in buffer'[j]
    BY <1>1 DEF BuffersClosed, InTopic
  <2>1. buffer'[j] = IF j = k THEN {e \in buffer[k] : e <= n} ELSE buffer[j]
    BY <1>3 DEF OutboxTypeOK
  <2>2. x \in buffer[j] /\ x \in Events /\ Visible(x)
    BY <2>1 DEF BatchesSound, OutboxTypeOK
  <2>3. cause[x] \in Events /\ cause[x] < x
    BY <2>2 DEF CausesCommitted, Visible, OutboxTypeOK
  <2>4. cause[x] \in buffer[j] => cause[x] \in buffer'[j]
    BY <2>1, <2>2, <2>3 DEF Events
  <2> QED  BY <2>2, <2>4 DEF BuffersClosed
<1> QED  BY <1>1, <1>2, <1>4 DEF OneAtATime

\* Every step of the outbox keeps the order.
LEMMA NextKeepsOrder == OutboxInv /\ OrderInv /\ [OutboxNext]_outboxVars => OrderInv'
<1> SUFFICES ASSUME OutboxInv, OrderInv, [OutboxNext]_outboxVars  PROVE  OrderInv'
  OBVIOUS
<1>1. CASE Requests
  BY <1>1, EmitKeepsOrder, EndRequestKeepsOrder DEF Requests
<1>2. ASSUME NEW k \in Publishers, NEW e \in Events, LoseSend(k, e)  PROVE  OrderInv'
  <2>1. lost' # 0
    BY <1>2 DEF LoseSend, OutboxInv, OutboxTypeOK
  <2>2. StampsInOrder' /\ CausesCommitted'
    BY <1>2 DEF LoseSend, rowVars, OrderInv, StampsInOrder, CausesCommitted, Visible
  <2> QED  BY <2>1, <2>2 DEF OrderInv, OneAtATime
<1>3. ASSUME NEW k \in Publishers, Task(k)  PROVE  OrderInv'
  BY <1>2, <1>3, FetchKeepsOrder, SendKeepsOrder, MarkPublishedKeepsOrder, FailRunKeepsOrder
  DEF Task, Deliver
<1>4. CASE UNCHANGED outboxVars
  BY <1>4 DEF outboxVars, OrderInv, StampsInOrder, CausesCommitted, BuffersClosed,
              CausalOrder, Visible, InTopic, OneAtATime
<1> QED  BY <1>1, <1>3, <1>4 DEF OutboxNext

\* Until a send fails or a run fetches while another is at work, every tenant's
\* partition holds an event only after the event that caused it, however often runs
\* crash, whatever their producers still deliver, and although their rows are sent
\* again.  The beat schedule excludes neither of the two.
THEOREM TopicInCausalOrder == OutboxSpec => [](OneAtATime => CausalOrder)
<1>1. OrderInv => (OneAtATime => CausalOrder)  BY DEF OrderInv
<1> QED
  BY <1>1, OrderInit, NextKeepsOrder, OutboxInvariantHolds, PTL DEF OutboxSpec
=============================================================================
