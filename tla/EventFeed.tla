-------------------------------- MODULE EventFeed --------------------------------
(***************************************************************************)
(* What the event pipeline promises, from the commit of a request to the   *)
(* read database: an event is decided once, applied or dropped, and only   *)
(* after the event that caused it.  EventPipeline implements it while one  *)
(* run publishes at a time, and AnyOrderSpec whatever overlaps.            *)
(***************************************************************************)
EXTENDS Naturals

CONSTANT Events

VARIABLES
    fate,   \* fate[e]: "unborn", "committed", "applied" or "dropped"
    cause   \* cause[e]: the event whose effect the request saw, 0 if none

feedVars == <<fate, cause>>

Decided(e) == fate[e] \in {"applied", "dropped"}

FeedInit ==
    /\ fate = [e \in Events |-> "unborn"]
    /\ cause = [e \in Events |-> 0]

\* A request reads what a committed event left, and may yet roll back.
Begin(e, d) ==
    /\ fate[e] = "unborn"
    /\ d # 0 => fate[d] # "unborn"
    /\ cause' = [cause EXCEPT ![e] = d]
    /\ UNCHANGED fate

CommitEvent(e) ==
    /\ fate[e] = "unborn"
    /\ fate' = [fate EXCEPT ![e] = "committed"]
    /\ UNCHANGED cause

Decide(e, how) ==
    /\ fate[e] = "committed"
    /\ fate' = [fate EXCEPT ![e] = how]
    /\ UNCHANGED cause

CauseDecided(e) == cause[e] # 0 => Decided(cause[e])

Request(e) == (\E d \in Events \cup {0} : Begin(e, d)) \/ CommitEvent(e)
Decision(e) == \E how \in {"applied", "dropped"} : Decide(e, how)

FeedNext == \E e \in Events : Request(e) \/ (CauseDecided(e) /\ Decision(e))

FeedSpec == FeedInit /\ [][FeedNext]_feedVars

\* What is left of the promise where the publishers overlap or sends fail.
AnyOrderNext == \E e \in Events : Request(e) \/ Decision(e)

AnyOrderSpec == FeedInit /\ [][AnyOrderNext]_feedVars
=============================================================================
