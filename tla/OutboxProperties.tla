---------------------------- MODULE OutboxProperties ----------------------------
(***************************************************************************)
(* What the outbox owes the consumers of the topic.                        *)
(***************************************************************************)
EXTENDS Outbox

OutboxTypeOK ==
    /\ row \in [Events -> {"none", "open", "pending", "published", "aborted"}]
    /\ merchant \in [Events -> Merchants \cup {None}]
    /\ cause \in [Events -> Events \cup {0}]
    /\ batch \in [Publishers -> SUBSET Events]
    /\ buffer \in [Publishers -> SUBSET Events]
    /\ topic \in [Merchants -> Seq(Events)]
    /\ failures \in 0..MaxFailures
    /\ lost \in 0..MaxLost
    /\ overlapped \in BOOLEAN

InTopic(e) == \E m \in Merchants : \E i \in DOMAIN topic[m] : topic[m][i] = e

\* A message is in the topic only if its transaction committed: consumers never
\* hear of a request that was rolled back, whenever its row was stamped.
OnlyCommittedSent == \A e \in Events : InTopic(e) => Visible(e)

\* README.md: "Zero event loss, ever."  A row marked published is in the topic.
ZeroEventLoss == \A e \in Events : row[e] = "published" => InTopic(e)

\* A row marked published has reached the topic unless its send failed: neither a
\* crash nor an overlap of task runs loses an event.
LostOnlyByFailedSends ==
    Cardinality({e \in Events : row[e] = "published" /\ ~InTopic(e)}) <= lost

\* The places <<merchant, offset>> of the messages for an event.
Copies(e) == {c \in Merchants \X (1..(MaxEvents * (1 + MaxFailures))) :
                  c[2] \in DOMAIN topic[c[1]] /\ topic[c[1]][c[2]] = e}

\* An event is duplicated only by failed runs, one copy each: overlapping runs
\* never send the same row.
CopiesFromFailures == \A e \in Events : Cardinality(Copies(e)) <= 1 + failures

\* The merchant of a message is the one whose partition it is in, and an event
\* first appears there after the event that caused it.
CausalOrder ==
    \A m \in Merchants : \A i \in DOMAIN topic[m] :
        LET e == topic[m][i] IN
        /\ merchant[e] = m
        /\ cause[e] # 0 => \E j \in 1..(i - 1) : topic[m][j] = cause[e]

\* No send has failed so far, and no run has fetched while another was at work.
OneAtATime == lost = 0 /\ ~overlapped

\* Every committed event is taken to the topic, whatever runs fail before.
CommittedArePublished == \A e \in Events : row[e] = "pending" ~> row[e] = "published"

-----------------------------------------------------------------------------
(* Why they hold.                                                          *)

\* A run works on pending rows of its own, and its producer on rows of the run; the
\* producer of a failed run delivers rows that others may have fetched since.
BatchesSound ==
    /\ \A k \in Publishers :
        /\ batch[k] # {} => buffer[k] \subseteq batch[k]
        /\ \A e \in batch[k] : row[e] = "pending"
        /\ \A e \in buffer[k] : Visible(e)
    /\ \A j, k \in Publishers : j # k => batch[j] \cap batch[k] = {}

\* A row belongs to a tenant from its insertion on.
RowsHaveMerchants == \A e \in Events : row[e] # "none" => merchant[e] \in Merchants

\* As long as no send has failed, what a producer no longer holds, and all that is
\* marked published, is in the topic.
NothingLostYet ==
    lost = 0 => /\ ZeroEventLoss
                /\ \A k \in Publishers : \A e \in batch[k] \ buffer[k] : InTopic(e)

\* The inductive invariant of the outbox: runs keep to their own rows until they
\* commit or fail, and rows outlive the runs that send them.
OutboxInv ==
    /\ OutboxTypeOK
    /\ BatchesSound
    /\ RowsHaveMerchants
    /\ OnlyCommittedSent
    /\ NothingLostYet
=============================================================================
