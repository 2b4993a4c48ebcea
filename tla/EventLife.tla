------------------------------ MODULE EventLife ------------------------------
(***************************************************************************)
(* What the outbox promises about one event, whichever workers and batches *)
(* it goes through: it is attempted one time after the other, every        *)
(* attempt notifies customers at most once, what is known to be accepted   *)
(* is not attempted again, and it is given up after Limit attempts and not *)
(* before.  It may also be lost in the middle of an attempt: the outbox    *)
(* does not promise that the event is delivered.  Outbox implements it.    *)
(***************************************************************************)
EXTENDS Naturals

CONSTANT Limit   \* how many attempts may fail

VARIABLES
  stage,
  failures,      \* the attempts that failed
  notified       \* how often customers were notified

lifeVars == <<stage, failures, notified>>

LifeInit == stage = "none" /\ failures = 0 /\ notified = 0

MayNotify == notified' \in {notified, notified + 1}

Moves(from, to) == stage = from /\ stage' = to

Write == Moves("none", "waiting") /\ UNCHANGED <<failures, notified>>
Claim == Moves("waiting", "held") /\ UNCHANGED <<failures, notified>>
Accept == Moves("held", "told") /\ notified' = notified + 1 /\ UNCHANGED failures
Miss == Moves("held", "missed") /\ MayNotify /\ UNCHANGED failures
Settle == Moves("told", "sent") /\ UNCHANGED <<failures, notified>>

Retry ==
  /\ Moves("missed", IF failures + 1 = Limit THEN "dead" ELSE "waiting")
  /\ failures' = failures + 1
  /\ UNCHANGED notified

Lose ==
  /\ stage \in {"held", "told", "missed"} /\ stage' = "lost"
  /\ IF stage = "held" THEN MayNotify ELSE UNCHANGED notified
  /\ UNCHANGED failures

LifeNext == Write \/ Claim \/ Accept \/ Miss \/ Settle \/ Retry \/ Lose

LifeSpec == LifeInit /\ [][LifeNext]_lifeVars
=============================================================================
