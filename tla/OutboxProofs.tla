---------------------------- MODULE OutboxProofs ----------------------------
(***************************************************************************)
(* Theorems about Outbox: for any number of workers and events and any      *)
(* limit of retries, whatever stops in between, no two workers hold one     *)
(* event, an accepted notification is not sent again, and an event is a     *)
(* dead letter exactly after its last attempt.                              *)
(***************************************************************************)
EXTENDS Outbox, TLAPS

Holds(w, e) == e \in claimed[w]

\* Claims end with the batch.
IdleHoldsNothing == \A w \in Worker : pc[w] = "idle" => claimed[w] = {}

ClaimsAreProcessing ==
  \A w \in Worker, e \in Event : Holds(w, e) => status[e] = "PROCESSING"

CurrentIsClaimed ==
  \A w \in Worker :
    pc[w] \in {"send", "sent", "failed"} => current[w] \in claimed[w]

\* What is known to be accepted waits for its mark, or nobody claims it again.
AnsweredIsDone ==
  \A e \in answered :
    /\ status[e] \in {"PROCESSING", "SENT"}
    /\ \A w \in Worker : Holds(w, e) => pc[w] = "sent" /\ current[w] = e

IInv ==
  /\ TypeOK
  /\ OneWorkerPerEvent
  /\ IdleHoldsNothing
  /\ ClaimsAreProcessing
  /\ CurrentIsClaimed
  /\ AnsweredIsDone
  /\ DeadAfterLastRetry

LEMMA InitInvariant == Init => IInv
BY MaxRetriesAssumption DEF Init, IInv, TypeOK, OneWorkerPerEvent, IdleHoldsNothing, ClaimsAreProcessing, CurrentIsClaimed,
  AnsweredIsDone, DeadAfterLastRetry, Nothing, Holds, OutboxStatus

\* The event that a worker is about to send or to mark.
LEMMA CurrentEvent ==
  ASSUME IInv, NEW w \in Worker, pc[w] \in {"send", "sent", "failed"}
  PROVE  /\ current[w] \in Event
         /\ current[w] \in claimed[w]
         /\ status[current[w]] = "PROCESSING"
         /\ seen[w][current[w]] = retries[current[w]]
         /\ retries[current[w]] < MaxRetries
         /\ pc[w] # "sent" => current[w] \notin answered
         /\ \A v \in Worker : current[w] \in claimed[v] => v = w
<1>1. current[w] \in claimed[w] /\ claimed[w] \subseteq Event
  BY DEF IInv, TypeOK, CurrentIsClaimed
<1>2. status[current[w]] = "PROCESSING"
  BY <1>1 DEF IInv, ClaimsAreProcessing, Holds
<1>3. retries[current[w]] < MaxRetries /\ seen[w][current[w]] = retries[current[w]]
  <2>1. retries[current[w]] \in 0..MaxRetries /\ retries[current[w]] # MaxRetries
    BY <1>1, <1>2 DEF IInv, TypeOK, DeadAfterLastRetry
  <2>2. seen[w][current[w]] = retries[current[w]]
    BY <1>1 DEF IInv, DeadAfterLastRetry
  <2> QED BY <2>1, <2>2, MaxRetriesAssumption
<1>4. pc[w] # "sent" => current[w] \notin answered
  BY <1>1 DEF IInv, AnsweredIsDone, Holds
<1>5. \A v \in Worker : current[w] \in claimed[v] => v = w
  BY <1>1 DEF IInv, OneWorkerPerEvent
<1> QED BY <1>1, <1>2, <1>3, <1>4, <1>5

LEMMA CreateInvariant ==
  ASSUME IInv, NEW e \in Event, CreateOutboxEvent(e) \/ RetryDue(e)
  PROVE  IInv'
<1>1. /\ \/ status[e] = "none" /\ status' = [status EXCEPT ![e] = "PENDING"]
         \/ status' = status
      /\ due' = due \cup {e}
      /\ UNCHANGED <<retries, pc, claimed, current, seen, accepted, answered>>
  BY DEF CreateOutboxEvent, RetryDue, workers, firebase
<1> USE DEF IInv, TypeOK
<1>2. TypeOK'
  BY <1>1 DEF OutboxStatus
<1>3. OneWorkerPerEvent' /\ CurrentIsClaimed' /\ IdleHoldsNothing'
  BY <1>1 DEF OneWorkerPerEvent, CurrentIsClaimed, IdleHoldsNothing
<1>4. ClaimsAreProcessing' /\ AnsweredIsDone'
  BY <1>1 DEF ClaimsAreProcessing, AnsweredIsDone, Holds
<1>5. DeadAfterLastRetry'
  BY <1>1 DEF DeadAfterLastRetry
<1> QED BY <1>2, <1>3, <1>4, <1>5

LEMMA LockInvariant ==
  ASSUME IInv, NEW w \in Worker, LockPendingOutboxEvents(w)
  PROVE  IInv'
<1> USE DEF IInv, TypeOK, firebase
<1>1. PICK B \in OldestOf(Waiting) :
        /\ status' = Marked(B)
        /\ claimed' = [claimed EXCEPT ![w] = B]
        /\ seen' = [seen EXCEPT ![w] = [e \in Event |-> IF e \in B THEN retries[e] ELSE 0]]
  BY DEF LockPendingOutboxEvents
<1>2. /\ pc[w] = "idle"
      /\ pc' = [pc EXCEPT ![w] = "next"]
      /\ UNCHANGED <<retries, due, current, accepted, answered>>
  BY DEF LockPendingOutboxEvents
<1>3. B \subseteq Event /\ \A e \in B : status[e] \in {"PENDING", "RETRY"}
  BY <1>1 DEF OldestOf, Waiting
<1>4. TypeOK'
  BY <1>1, <1>2, <1>3, MaxRetriesAssumption DEF Marked, OutboxStatus
<1>5. OneWorkerPerEvent'
  BY <1>1, <1>3 DEF OneWorkerPerEvent, ClaimsAreProcessing, Holds
<1>6. ClaimsAreProcessing'
  BY <1>1, <1>3 DEF ClaimsAreProcessing, Holds, Marked
<1>7. CurrentIsClaimed' /\ IdleHoldsNothing'
  BY <1>1, <1>2 DEF CurrentIsClaimed, IdleHoldsNothing
<1>8. AnsweredIsDone'
  <2>1. \A e \in answered : e \notin B /\ e \in Event
    BY <1>3 DEF AnsweredIsDone
  <2>2. \A e \in answered : status'[e] = status[e]
    BY <1>1, <2>1 DEF Marked
  <2>3. \A e \in answered, v \in Worker : Holds(v, e)' => v # w /\ Holds(v, e)
    BY <1>1, <2>1 DEF Holds
  <2> QED
    BY <1>2, <2>2, <2>3 DEF AnsweredIsDone
<1>9. DeadAfterLastRetry'
  BY <1>1, <1>2, <1>3 DEF DeadAfterLastRetry, Marked
<1> QED BY <1>4, <1>5, <1>6, <1>7, <1>8, <1>9

LEMMA MarkProcessingInvariant ==
  ASSUME IInv, NEW w \in Worker, MarkOutboxProcessing(w)
  PROVE  IInv'
<1> USE DEF IInv, TypeOK, firebase
<1>1. PICK e \in claimed[w] :
        /\ status' = [status EXCEPT ![e] = "PROCESSING"]
        /\ current' = [current EXCEPT ![w] = e]
  BY DEF MarkOutboxProcessing
<1>2. /\ pc[w] = "next"
      /\ pc' = [pc EXCEPT ![w] = "send"]
      /\ UNCHANGED <<retries, due, claimed, seen, accepted, answered>>
  BY DEF MarkOutboxProcessing
<1>3. e \in Event /\ status[e] = "PROCESSING" /\ status' = status
  BY <1>1 DEF ClaimsAreProcessing, Holds
<1>4. TypeOK'
  BY <1>1, <1>2, <1>3 DEF OutboxStatus
<1>5. OneWorkerPerEvent' /\ ClaimsAreProcessing' /\ DeadAfterLastRetry'
  BY <1>2, <1>3 DEF OneWorkerPerEvent, ClaimsAreProcessing, DeadAfterLastRetry, Holds
<1>6. CurrentIsClaimed' /\ IdleHoldsNothing'
  BY <1>1, <1>2 DEF CurrentIsClaimed, IdleHoldsNothing
<1>7. AnsweredIsDone'
  BY <1>1, <1>2, <1>3 DEF AnsweredIsDone, Holds
<1> QED BY <1>4, <1>5, <1>6, <1>7

LEMMA SendInvariant ==
  ASSUME IInv, NEW w \in Worker, SendProductCreated(w)
  PROVE  IInv'
<1> DEFINE e == current[w]
<1>1. /\ pc[w] = "send"
      /\ UNCHANGED <<status, retries, due, claimed, current, seen>>
  BY DEF SendProductCreated, rows
<1>2. /\ e \in Event
      /\ status[e] = "PROCESSING"
      /\ \A v \in Worker : e \in claimed[v] => v = w
  BY <1>1, CurrentEvent
<1> USE DEF IInv, TypeOK
<1>3. /\ accepted' \in [Event -> Nat]
      /\ \/ pc' = [pc EXCEPT ![w] = "sent"] /\ answered' = answered \cup {e}
         \/ pc' = [pc EXCEPT ![w] = "failed"] /\ answered' = answered
  <2>1. accepted' = accepted \/ accepted' = [accepted EXCEPT ![e] = @ + 1]
    BY DEF SendProductCreated
  <2>2. accepted' \in [Event -> Nat]
    BY <1>2, <2>1
  <2> QED BY <2>2 DEF SendProductCreated
<1>4. TypeOK'
  BY <1>1, <1>2, <1>3
<1>5. OneWorkerPerEvent' /\ ClaimsAreProcessing' /\ DeadAfterLastRetry'
  BY <1>1 DEF OneWorkerPerEvent, ClaimsAreProcessing, DeadAfterLastRetry, Holds
<1>6. CurrentIsClaimed' /\ IdleHoldsNothing'
  BY <1>1, <1>3 DEF CurrentIsClaimed, IdleHoldsNothing
<1>7. AnsweredIsDone'
  BY <1>1, <1>2, <1>3 DEF AnsweredIsDone, Holds
<1> QED BY <1>4, <1>5, <1>6, <1>7

LEMMA MarkSentInvariant ==
  ASSUME IInv, NEW w \in Worker, MarkOutboxSent(w)
  PROVE  IInv'
<1> DEFINE e == current[w]
<1>1. /\ pc[w] = "sent"
      /\ status' = [status EXCEPT ![e] = "SENT"]
      /\ Finish(w)
      /\ UNCHANGED <<retries, due, accepted, answered>>
  BY DEF MarkOutboxSent, firebase
<1>2. /\ e \in Event
      /\ status[e] = "PROCESSING"
      /\ \A v \in Worker : e \in claimed[v] => v = w
  BY <1>1, CurrentEvent
<1> USE DEF IInv, TypeOK, Finish
<1>3. TypeOK'
  BY <1>1, <1>2, MaxRetriesAssumption DEF OutboxStatus
<1>4. OneWorkerPerEvent'
  BY <1>1 DEF OneWorkerPerEvent
<1>5. ClaimsAreProcessing'
  BY <1>1, <1>2 DEF ClaimsAreProcessing, Holds
<1>6. CurrentIsClaimed' /\ IdleHoldsNothing'
  BY <1>1 DEF CurrentIsClaimed, IdleHoldsNothing
<1>7. AnsweredIsDone'
  BY <1>1, <1>2 DEF AnsweredIsDone, Holds
<1>8. DeadAfterLastRetry'
  BY <1>1, <1>2 DEF DeadAfterLastRetry
<1> QED BY <1>3, <1>4, <1>5, <1>6, <1>7, <1>8

LEMMA MarkRetryInvariant ==
  ASSUME IInv, NEW w \in Worker, MarkOutboxRetry(w)
  PROVE  IInv'
<1> DEFINE e == current[w]
<1>1. /\ pc[w] = "failed"
      /\ status' = [status EXCEPT ![e] = IF LastAttempt(seen[w][e]) THEN "DEAD" ELSE "RETRY"]
      /\ retries' = [retries EXCEPT ![e] = @ + 1]
      /\ due' = due \ {e}
      /\ Finish(w)
      /\ UNCHANGED <<accepted, answered>>
  BY DEF MarkOutboxRetry, firebase
<1>2. /\ e \in Event /\ e \notin answered
      /\ status[e] = "PROCESSING"
      /\ seen[w][e] = retries[e] /\ retries[e] < MaxRetries
      /\ \A v \in Worker : e \in claimed[v] => v = w
  BY <1>1, CurrentEvent
<1> USE DEF IInv, TypeOK, Finish
<1>3. TypeOK'
  BY <1>1, <1>2, MaxRetriesAssumption DEF OutboxStatus
<1>4. OneWorkerPerEvent'
  BY <1>1 DEF OneWorkerPerEvent
<1>5. ClaimsAreProcessing'
  BY <1>1, <1>2 DEF ClaimsAreProcessing, Holds
<1>6. CurrentIsClaimed' /\ IdleHoldsNothing'
  BY <1>1 DEF CurrentIsClaimed, IdleHoldsNothing
<1>7. AnsweredIsDone'
  BY <1>1, <1>2 DEF AnsweredIsDone, Holds
<1>8. DeadAfterLastRetry'
  <2>1. status'[e] = "DEAD" <=> retries'[e] = MaxRetries
    BY <1>1, <1>2, MaxRetriesAssumption DEF LastAttempt
  <2>2. \A f \in Event \ {e} : status'[f] = status[f] /\ retries'[f] = retries[f]
    BY <1>1, <1>2
  <2>3. \A f \in Event, v \in Worker :
          f \in claimed'[v] => f \in claimed[v] /\ f # e /\ seen'[v][f] = seen[v][f]
    BY <1>1, <1>2
  <2> QED BY <2>1, <2>2, <2>3 DEF DeadAfterLastRetry
<1> QED BY <1>3, <1>4, <1>5, <1>6, <1>7, <1>8

LEMMA StopInvariant ==
  ASSUME IInv, NEW w \in Worker, Stop(w)
  PROVE  IInv'
<1>1. /\ pc' = [pc EXCEPT ![w] = "idle"]
      /\ claimed' = [claimed EXCEPT ![w] = {}]
      /\ current' = [current EXCEPT ![w] = NoEvent]
      /\ seen' = [seen EXCEPT ![w] = Nothing]
      /\ UNCHANGED <<status, retries, due, answered>>
  BY DEF Stop, rows
<1>2. accepted' \in [Event -> Nat]
  <2>1. CASE accepted' = accepted
    BY <2>1 DEF IInv, TypeOK
  <2>2. CASE pc[w] = "send" /\ accepted' = [accepted EXCEPT ![current[w]] = @ + 1]
    <3>1. current[w] \in Event
      BY <2>2, CurrentEvent
    <3> QED BY <2>2, <3>1 DEF IInv, TypeOK
  <2> QED BY <2>1, <2>2 DEF Stop
<1> USE DEF IInv, TypeOK
<1>3. TypeOK'
  BY <1>1, <1>2, MaxRetriesAssumption DEF Nothing
<1>4. OneWorkerPerEvent' /\ CurrentIsClaimed' /\ IdleHoldsNothing'
  BY <1>1 DEF OneWorkerPerEvent, CurrentIsClaimed, IdleHoldsNothing
<1>5. ClaimsAreProcessing' /\ AnsweredIsDone'
  BY <1>1 DEF ClaimsAreProcessing, AnsweredIsDone, Holds
<1>6. DeadAfterLastRetry'
  BY <1>1 DEF DeadAfterLastRetry
<1> QED BY <1>3, <1>4, <1>5, <1>6

LEMMA StepInvariant == IInv /\ [Next]_vars => IInv'
<1> SUFFICES ASSUME IInv, [Next]_vars
             PROVE  IInv'
  OBVIOUS
<1>1. CASE \E e \in Event : CreateOutboxEvent(e) \/ RetryDue(e)
  BY <1>1, CreateInvariant
<1>2. ASSUME NEW w \in Worker, Work(w)
      PROVE  IInv'
  BY <1>2, LockInvariant, MarkProcessingInvariant, SendInvariant, MarkSentInvariant,
    MarkRetryInvariant DEF Work
<1>3. CASE \E w \in Worker : Stop(w)
  BY <1>3, StopInvariant
<1>4. CASE UNCHANGED vars
  BY <1>4 DEF vars, rows, workers, firebase, IInv, TypeOK, OneWorkerPerEvent,
    IdleHoldsNothing, ClaimsAreProcessing, CurrentIsClaimed, AnsweredIsDone,
    DeadAfterLastRetry, Holds
<1> QED
  BY <1>1, <1>2, <1>3, <1>4 DEF Next

\* The invariant that the theorems below rest on.
THEOREM Invariance == Spec => []IInv
BY InitInvariant, StepInvariant, PTL DEF Spec

\* The rows of outbox_events and the workers keep their types; no retry_count
\* passes the limit.
THEOREM TypeCorrect == Spec => []TypeOK
<1>1. IInv => TypeOK
  BY DEF IInv
<1> QED BY <1>1, Invariance, PTL

\* No two workers process one event at a time.
THEOREM Exclusive == Spec => []OneWorkerPerEvent
<1>1. IInv => OneWorkerPerEvent
  BY DEF IInv
<1> QED BY <1>1, Invariance, PTL

\* An event is DEAD exactly after MaxRetries failed attempts.
THEOREM DeadLetters == Spec => []DeadAfterLastRetry
<1>1. IInv => DeadAfterLastRetry
  BY DEF IInv
<1> QED BY <1>1, Invariance, PTL

\* A notification that is known to be accepted is not sent again, and SENT and
\* DEAD are final.
THEOREM SentOnce == Spec => NeverSentAgain
<1> DEFINE Once == \A e \in Event :
       /\ e \in answered => accepted'[e] = accepted[e]
       /\ Settled(e) => status'[e] = status[e]
<1>1. IInv /\ [Next]_vars => [Once]_vars
  <2> SUFFICES ASSUME IInv, Next, NEW e \in Event
               PROVE  /\ e \in answered => accepted'[e] = accepted[e]
                      /\ Settled(e) => status'[e] = status[e]
    OBVIOUS
  <2> USE DEF Settled, rows, firebase
  <2>1. CASE \E f \in Event : CreateOutboxEvent(f) \/ RetryDue(f)
    BY <2>1 DEF CreateOutboxEvent, RetryDue, IInv, TypeOK
  <2>2. ASSUME NEW w \in Worker, LockPendingOutboxEvents(w)
        PROVE  Once!(e)
    BY <2>2 DEF LockPendingOutboxEvents, OldestOf, Waiting, Marked
  <2>3. ASSUME NEW w \in Worker, MarkOutboxProcessing(w)
        PROVE  Once!(e)
    BY <2>3 DEF MarkOutboxProcessing, IInv, TypeOK, ClaimsAreProcessing, Holds
  <2>4. ASSUME NEW w \in Worker, SendProductCreated(w)
        PROVE  Once!(e)
    BY <2>4, CurrentEvent DEF SendProductCreated, IInv, TypeOK
  <2>5. ASSUME NEW w \in Worker, MarkOutboxSent(w)
        PROVE  Once!(e)
    BY <2>5, CurrentEvent DEF MarkOutboxSent, IInv, TypeOK
  <2>6. ASSUME NEW w \in Worker, MarkOutboxRetry(w)
        PROVE  Once!(e)
    BY <2>6, CurrentEvent DEF MarkOutboxRetry, IInv, TypeOK
  <2>7. ASSUME NEW w \in Worker, Stop(w)
        PROVE  Once!(e)
    BY <2>7, CurrentEvent DEF Stop, IInv, TypeOK
  <2> QED
    BY <2>1, <2>2, <2>3, <2>4, <2>5, <2>6, <2>7 DEF Next, Work
<1>2. Spec => [][Once]_vars
  BY <1>1, Invariance, PTL DEF Spec
<1> QED BY <1>2 DEF NeverSentAgain

-----------------------------------------------------------------------------
(***************************************************************************)
(* The life of one event.                                                  *)
(***************************************************************************)

\* The stage of an event in a batch tells where its worker is.
StagesInBatch ==
  \A w \in Worker : \A e \in claimed[w] :
    Stage(e) = IF current[w] = e /\ pc[w] = "sent" THEN "told"
               ELSE IF current[w] = e /\ pc[w] = "failed" THEN "missed" ELSE "held"

LEMMA StageInBatch == IInv => StagesInBatch
<1> SUFFICES ASSUME IInv, NEW w \in Worker, NEW e \in claimed[w]
             PROVE  Stage(e) = IF current[w] = e /\ pc[w] = "sent" THEN "told"
                               ELSE IF current[w] = e /\ pc[w] = "failed" THEN "missed"
                               ELSE "held"
  BY DEF StagesInBatch
<1>1. e \in Event /\ status[e] = "PROCESSING" /\ ~Stranded(e)
  BY DEF IInv, TypeOK, ClaimsAreProcessing, Holds, Stranded
<1>2. \A v \in Worker, at \in {"sent", "failed"} :
        pc[v] = at /\ current[v] = e => v = w
  BY <1>1 DEF IInv, TypeOK, CurrentIsClaimed, OneWorkerPerEvent
<1>3. \A at \in {"sent", "failed"} : Attempted(e, at) <=> current[w] = e /\ pc[w] = at
  BY <1>2 DEF Attempted
<1> QED
  BY <1>1, <1>3 DEF Stage

\* An event that a step does not concern keeps its stage.
LEMMA StageStays ==
  ASSUME NEW e \in Event, status'[e] = status[e],
         \A w \in Worker : e \in claimed'[w] <=> e \in claimed[w],
         \A w \in Worker, at \in {"sent", "failed"} :
           (pc'[w] = at /\ current'[w] = e) <=> (pc[w] = at /\ current[w] = e)
  PROVE  Stage(e)' = Stage(e)
<1>1. Stranded(e)' <=> Stranded(e)
  BY DEF Stranded
<1>2. \A at \in {"sent", "failed"} : Attempted(e, at)' <=> Attempted(e, at)
  BY DEF Attempted
<1> QED
  BY <1>1, <1>2 DEF Stage

\* A step that does not concern an event is none of its life.
LEMMA LifeStays ==
  ASSUME NEW e \in Event, Stage(e)' = Stage(e), retries'[e] = retries[e],
         accepted'[e] = accepted[e]
  PROVE  LivesOn(e)
BY DEF LivesOn

LEMMA CreateLives ==
  ASSUME IInv, NEW f \in Event, CreateOutboxEvent(f) \/ RetryDue(f), NEW e \in Event
  PROVE  LivesOn(e)
<1>1. /\ \/ status[f] = "none" /\ status' = [status EXCEPT ![f] = "PENDING"]
         \/ status' = status
      /\ UNCHANGED <<retries, pc, claimed, current, accepted>>
  BY DEF CreateOutboxEvent, RetryDue, workers, firebase
<1>2. CASE status'[e] = status[e]
  BY <1>1, <1>2, StageStays, LifeStays
<1>3. CASE status'[e] # status[e]
  <2>1. status[e] = "none" /\ status'[e] = "PENDING"
    BY <1>1, <1>3 DEF IInv, TypeOK
  <2>2. Stage(e) = "none" /\ Stage(e)' = "waiting"
    BY <2>1 DEF Stage, RowStage
  <2> QED
    BY <1>1, <2>2 DEF LivesOn, Life!LifeNext, Life!Write, Life!Moves
<1> QED BY <1>2, <1>3

LEMMA LockLives ==
  ASSUME IInv, IInv', NEW w \in Worker, LockPendingOutboxEvents(w), NEW e \in Event
  PROVE  LivesOn(e)
<1>1. PICK B \in OldestOf(Waiting) : status' = Marked(B) /\ claimed' = [claimed EXCEPT ![w] = B]
  BY DEF LockPendingOutboxEvents
<1>2. /\ pc[w] = "idle" /\ pc' = [pc EXCEPT ![w] = "next"]
      /\ UNCHANGED <<retries, current, accepted>>
  BY DEF LockPendingOutboxEvents, firebase
<1>3. /\ pc \in [Worker -> {"idle", "next", "send", "sent", "failed"}]
      /\ claimed \in [Worker -> SUBSET Event]
      /\ claimed[w] = {}
  BY <1>2 DEF IInv, TypeOK, IdleHoldsNothing
<1>4. B \subseteq Event /\ \A f \in B : status[f] \in {"PENDING", "RETRY"}
  BY DEF OldestOf, Waiting, IInv, TypeOK
<1>5. CASE e \in B
  <2>1. Stage(e) = "waiting"
    BY <1>4, <1>5 DEF Stage, RowStage
  <2>2. e \in claimed'[w] /\ pc'[w] = "next"
    BY <1>1, <1>2, <1>3, <1>5
  <2>3. StagesInBatch'
    BY StageInBatch, PTL
  <2>4. Stage(e)' = "held"
    BY <2>2, <2>3 DEF StagesInBatch
  <2> QED
    BY <1>2, <2>1, <2>4 DEF LivesOn, Life!LifeNext, Life!Claim, Life!Moves
<1>6. CASE e \notin B
  <2>1. status'[e] = status[e]
    BY <1>1, <1>6 DEF Marked
  <2>2. \A v \in Worker : e \in claimed'[v] <=> e \in claimed[v]
    BY <1>1, <1>3, <1>6
  <2>3. \A v \in Worker, at \in {"sent", "failed"} :
          (pc'[v] = at /\ current'[v] = e) <=> (pc[v] = at /\ current[v] = e)
    BY <1>2, <1>3
  <2> QED
    BY <1>2, <2>1, <2>2, <2>3, StageStays, LifeStays
<1> QED BY <1>5, <1>6

LEMMA MarkProcessingLives ==
  ASSUME IInv, NEW w \in Worker, MarkOutboxProcessing(w), NEW e \in Event
  PROVE  LivesOn(e)
<1>1. PICK f \in claimed[w] :
        /\ status' = [status EXCEPT ![f] = "PROCESSING"]
        /\ current' = [current EXCEPT ![w] = f]
  BY DEF MarkOutboxProcessing
<1>2. /\ pc[w] = "next" /\ pc' = [pc EXCEPT ![w] = "send"]
      /\ UNCHANGED <<retries, claimed, accepted>>
  BY DEF MarkOutboxProcessing, firebase
<1>3. status' = status
  BY <1>1 DEF IInv, TypeOK, ClaimsAreProcessing, Holds
<1>4. \A v \in Worker, at \in {"sent", "failed"} :
        (pc'[v] = at /\ current'[v] = e) <=> (pc[v] = at /\ current[v] = e)
  BY <1>1, <1>2 DEF IInv, TypeOK
<1> QED
  BY <1>2, <1>3, <1>4, StageStays, LifeStays

LEMMA SendLives ==
  ASSUME IInv, IInv', NEW w \in Worker, SendProductCreated(w), NEW e \in Event
  PROVE  LivesOn(e)
<1> DEFINE f == current[w]
<1>1. /\ pc[w] = "send"
      /\ UNCHANGED <<status, retries, claimed, current>>
      /\ \/ pc' = [pc EXCEPT ![w] = "sent"] /\ accepted' = [accepted EXCEPT ![f] = @ + 1]
         \/ /\ pc' = [pc EXCEPT ![w] = "failed"]
            /\ accepted' = accepted \/ accepted' = [accepted EXCEPT ![f] = @ + 1]
  BY DEF SendProductCreated, rows
<1>2. f \in Event /\ f \in claimed[w]
  BY <1>1, CurrentEvent
<1>3. pc \in [Worker -> {"idle", "next", "send", "sent", "failed"}] /\ accepted \in [Event -> Nat]
  BY DEF IInv, TypeOK
<1>4. CASE e = f
  <2>1. Stage(e) = "held"
    BY <1>1, <1>2, <1>4, StageInBatch DEF StagesInBatch
  <2>2. StagesInBatch'
    BY StageInBatch, PTL
  <2>3. Stage(e)' = IF pc'[w] = "sent" THEN "told"
                    ELSE IF pc'[w] = "failed" THEN "missed" ELSE "held"
    BY <1>1, <1>2, <1>4, <2>2 DEF StagesInBatch
  <2>4. \/ Stage(e)' = "told" /\ accepted'[e] = accepted[e] + 1
        \/ Stage(e)' = "missed" /\ accepted'[e] \in {accepted[e], accepted[e] + 1}
    BY <1>1, <1>2, <1>3, <1>4, <2>3
  <2> QED
    BY <1>1, <2>1, <2>4
    DEF LivesOn, Life!LifeNext, Life!Accept, Life!Miss, Life!Moves, Life!MayNotify
<1>5. CASE e # f
  <2>1. \A v \in Worker, at \in {"sent", "failed"} :
          (pc'[v] = at /\ current'[v] = e) <=> (pc[v] = at /\ current[v] = e)
    BY <1>1, <1>3, <1>5
  <2>2. accepted'[e] = accepted[e]
    BY <1>1, <1>3, <1>5
  <2> QED
    BY <1>1, <2>1, <2>2, StageStays, LifeStays
<1> QED BY <1>4, <1>5

\* A mark concerns the event it marks.
LEMMA FinishStays ==
  ASSUME IInv, NEW w \in Worker, pc[w] \in {"sent", "failed"}, Finish(w),
         NEW e \in Event, e # current[w], status'[e] = status[e]
  PROVE  Stage(e)' = Stage(e)
<1>1. \A v \in Worker : e \in claimed'[v] <=> e \in claimed[v]
  BY DEF Finish, IInv, TypeOK
<1>2. current'[w] = NoEvent /\ \A v \in Worker \ {w} : current'[v] = current[v] /\ pc'[v] = pc[v]
  BY DEF Finish, IInv, TypeOK
<1>3. \A v \in Worker, at \in {"sent", "failed"} :
        (pc'[v] = at /\ current'[v] = e) <=> (pc[v] = at /\ current[v] = e)
  BY <1>2, EventAssumption
<1> QED
  BY <1>1, <1>3, StageStays

LEMMA MarkSentLives ==
  ASSUME IInv, NEW w \in Worker, MarkOutboxSent(w), NEW e \in Event
  PROVE  LivesOn(e)
<1>1. /\ pc[w] = "sent"
      /\ status' = [status EXCEPT ![current[w]] = "SENT"]
      /\ Finish(w)
      /\ UNCHANGED <<retries, accepted>>
  BY DEF MarkOutboxSent, firebase
<1>2. current[w] \in Event /\ current[w] \in claimed[w]
  BY <1>1, CurrentEvent
<1>3. CASE e = current[w]
  <2>1. Stage(e) = "told"
    BY <1>1, <1>2, <1>3, StageInBatch DEF StagesInBatch
  <2>2. status'[e] = "SENT"
    BY <1>1, <1>3 DEF IInv, TypeOK
  <2>3. Stage(e)' = "sent"
    BY <2>2 DEF Stage, RowStage
  <2> QED
    BY <1>1, <2>1, <2>3 DEF LivesOn, Life!LifeNext, Life!Settle, Life!Moves
<1>4. CASE e # current[w]
  <2>1. status'[e] = status[e]
    BY <1>1, <1>4 DEF IInv, TypeOK
  <2> QED
    BY <1>1, <1>4, <2>1, FinishStays, LifeStays
<1> QED BY <1>3, <1>4

LEMMA MarkRetryLives ==
  ASSUME IInv, NEW w \in Worker, MarkOutboxRetry(w), NEW e \in Event
  PROVE  LivesOn(e)
<1> DEFINE f == current[w]
<1>1. /\ pc[w] = "failed"
      /\ status' = [status EXCEPT ![f] = IF LastAttempt(seen[w][f]) THEN "DEAD" ELSE "RETRY"]
      /\ retries' = [retries EXCEPT ![f] = @ + 1]
      /\ Finish(w)
      /\ UNCHANGED accepted
  BY DEF MarkOutboxRetry, firebase
<1>2. /\ f \in Event /\ f \in claimed[w]
      /\ seen[w][f] = retries[f] /\ retries[f] < MaxRetries
  BY <1>1, CurrentEvent
<1>3. /\ status \in [Event -> OutboxStatus \cup {"none"}]
      /\ retries \in [Event -> 0..MaxRetries]
  BY DEF IInv, TypeOK
<1>4. CASE e = f
  <2>1. Stage(e) = "missed"
    BY <1>1, <1>2, <1>4, StageInBatch DEF StagesInBatch
  <2>2. status'[e] = IF retries[e] + 1 = MaxRetries THEN "DEAD" ELSE "RETRY"
    BY <1>1, <1>2, <1>3, <1>4, MaxRetriesAssumption DEF LastAttempt
  <2>3. Stage(e)' = IF retries[e] + 1 = MaxRetries THEN "dead" ELSE "waiting"
    BY <2>2 DEF Stage, RowStage
  <2>4. retries'[e] = retries[e] + 1 /\ accepted'[e] = accepted[e]
    BY <1>1, <1>3, <1>4
  <2> QED
    BY <2>1, <2>3, <2>4 DEF LivesOn, Life!LifeNext, Life!Retry, Life!Moves
<1>5. CASE e # f
  <2>1. status'[e] = status[e] /\ retries'[e] = retries[e]
    BY <1>1, <1>3, <1>5
  <2> QED
    BY <1>1, <1>5, <2>1, FinishStays, LifeStays
<1> QED BY <1>4, <1>5

LEMMA StopLives ==
  ASSUME IInv, NEW w \in Worker, Stop(w), NEW e \in Event
  PROVE  LivesOn(e)
<1>1. /\ pc' = [pc EXCEPT ![w] = "idle"]
      /\ claimed' = [claimed EXCEPT ![w] = {}]
      /\ current' = [current EXCEPT ![w] = NoEvent]
      /\ UNCHANGED <<status, retries>>
      /\ \/ UNCHANGED accepted
         \/ pc[w] = "send" /\ accepted' = [accepted EXCEPT ![current[w]] = @ + 1]
  BY DEF Stop, rows
<1>2. /\ pc \in [Worker -> {"idle", "next", "send", "sent", "failed"}]
      /\ claimed \in [Worker -> SUBSET Event]
      /\ current \in [Worker -> Event \cup {NoEvent}]
      /\ accepted \in [Event -> Nat]
  BY DEF IInv, TypeOK
<1>3. pc[w] = "send" => current[w] \in claimed[w]
  BY DEF IInv, CurrentIsClaimed
<1>4. CASE e \in claimed[w]
  <2>1. Stage(e) = IF current[w] = e /\ pc[w] = "sent" THEN "told"
                   ELSE IF current[w] = e /\ pc[w] = "failed" THEN "missed" ELSE "held"
    BY <1>4, StageInBatch DEF StagesInBatch
  <2>2. status'[e] = "PROCESSING" /\ \A v \in Worker : e \notin claimed'[v]
    BY <1>1, <1>2, <1>4 DEF IInv, ClaimsAreProcessing, OneWorkerPerEvent, Holds
  <2>3. Stage(e)' = "lost"
    BY <2>2 DEF Stage, Stranded
  <2>4. \/ accepted'[e] = accepted[e]
        \/ pc[w] = "send" /\ accepted'[e] = accepted[e] + 1
    BY <1>1, <1>2
  <2>5. Stage(e) \in {"held", "told", "missed"} /\ (pc[w] = "send" => Stage(e) = "held")
    BY <2>1
  <2> QED
    BY <1>1, <2>3, <2>4, <2>5 DEF LivesOn, Life!LifeNext, Life!Lose, Life!MayNotify
<1>5. CASE e \notin claimed[w]
  <2>1. \A v \in Worker : e \in claimed'[v] <=> e \in claimed[v]
    BY <1>1, <1>2, <1>5
  <2>2. ~(pc[w] \in {"sent", "failed"} /\ current[w] = e)
    BY <1>5 DEF IInv, CurrentIsClaimed
  <2>3. \A v \in Worker, at \in {"sent", "failed"} :
          (pc'[v] = at /\ current'[v] = e) <=> (pc[v] = at /\ current[v] = e)
    BY <1>1, <1>2, <2>2
  <2>4. accepted'[e] = accepted[e]
    BY <1>1, <1>2, <1>3, <1>5
  <2> QED
    BY <1>1, <2>1, <2>3, <2>4, StageStays, LifeStays
<1> QED BY <1>4, <1>5

LEMMA EveryStepLives == IInv /\ IInv' /\ [Next]_vars => \A e \in Event : LivesOn(e)
<1> SUFFICES ASSUME IInv, IInv', [Next]_vars, NEW e \in Event
             PROVE  LivesOn(e)
  OBVIOUS
<1>1. CASE \E f \in Event : CreateOutboxEvent(f) \/ RetryDue(f)
  BY <1>1, CreateLives
<1>2. ASSUME NEW w \in Worker, Work(w)
      PROVE  LivesOn(e)
  BY <1>2, LockLives, MarkProcessingLives, SendLives, MarkSentLives, MarkRetryLives DEF Work
<1>3. CASE \E w \in Worker : Stop(w)
  BY <1>3, StopLives
<1>4. CASE UNCHANGED vars
  <2>1. UNCHANGED <<status, retries, pc, claimed, current, accepted>>
    BY <1>4 DEF vars, rows, workers, firebase
  <2> QED BY <2>1, StageStays, LifeStays
<1> QED
  BY <1>1, <1>2, <1>3, <1>4 DEF Next

\* Whatever the workers do at the same time, each event goes through the life
\* that EventLife promises.
THEOREM OutboxImplementsLives == Spec => EachEventLives
<1>1. Init => \A e \in Event : Life(e)!LifeInit
  BY DEF Init, Nothing, Life!LifeInit, Stage, RowStage
<1>2. Spec => [][\A e \in Event : LivesOn(e)]_vars
  BY EveryStepLives, Invariance, PTL DEF Spec
<1> QED
  BY <1>1, <1>2, PTL DEF Spec, EachEventLives

\* The same of one event, as a refinement of EventLife.
THEOREM EveryEventIsALife ==
  ASSUME NEW e \in Event
  PROVE  Spec => Life(e)!LifeSpec
<1>1. Init => Life(e)!LifeInit
  BY DEF Init, Nothing, Life!LifeInit, Stage, RowStage
<1>2. IInv /\ IInv' /\ [Next]_vars => [Life(e)!LifeNext]_(Life(e)!lifeVars)
  BY EveryStepLives DEF LivesOn, Life!lifeVars
<1> QED
  BY <1>1, <1>2, Invariance, PTL DEF Spec, Life!LifeSpec

\* A worker that goes on leaves no event behind in PROCESSING: only one that ends
\* in the middle of its batch does.
THEOREM StoppedWorkersStrand == Spec => OnlyStopsStrand
<1> DEFINE Stopped == \A e \in Event :
       Stranded(e)' => Stranded(e) \/ \E w \in Worker : e \in claimed[w] /\ Stop(w)
<1>1. IInv /\ [Next]_vars => [Stopped]_vars
  <2> SUFFICES ASSUME IInv, Next, NEW e \in Event, Stranded(e)', ~Stranded(e),
                      \A w \in Worker : ~(e \in claimed[w] /\ Stop(w))
               PROVE  FALSE
    OBVIOUS
  <2> USE DEF Stranded, IInv, TypeOK
  <2>1. CASE \E f \in Event : CreateOutboxEvent(f) \/ RetryDue(f)
    BY <2>1 DEF CreateOutboxEvent, RetryDue, workers
  <2>2. ASSUME NEW w \in Worker, LockPendingOutboxEvents(w)
        PROVE  FALSE
    <3>1. PICK B \in OldestOf(Waiting) :
            status' = Marked(B) /\ claimed' = [claimed EXCEPT ![w] = B]
      BY <2>2 DEF LockPendingOutboxEvents
    <3>2. claimed[w] = {}
      BY <2>2 DEF LockPendingOutboxEvents, IdleHoldsNothing
    <3>3. e \notin B /\ status'[e] = status[e]
      BY <3>1 DEF Marked
    <3> QED BY <3>1, <3>2, <3>3
  <2>3. ASSUME NEW w \in Worker, MarkOutboxProcessing(w)
        PROVE  FALSE
    BY <2>3 DEF MarkOutboxProcessing, ClaimsAreProcessing, Holds
  <2>4. ASSUME NEW w \in Worker, SendProductCreated(w)
        PROVE  FALSE
    BY <2>4 DEF SendProductCreated, rows
  <2>5. ASSUME NEW w \in Worker, MarkOutboxSent(w) \/ MarkOutboxRetry(w)
        PROVE  FALSE
    <3>1. current[w] \in Event /\ current[w] \in claimed[w]
      BY <2>5, CurrentEvent DEF MarkOutboxSent, MarkOutboxRetry
    <3>2. /\ status'[current[w]] # "PROCESSING"
          /\ e # current[w] => status'[e] = status[e]
      BY <2>5, <3>1 DEF MarkOutboxSent, MarkOutboxRetry
    <3>3. claimed' = [claimed EXCEPT ![w] = @ \ {current[w]}]
      BY <2>5 DEF MarkOutboxSent, MarkOutboxRetry, Finish
    <3> QED BY <3>2, <3>3
  <2>6. ASSUME NEW w \in Worker, Stop(w)
        PROVE  FALSE
    <3>1. e \notin claimed[w] /\ status' = status /\ claimed' = [claimed EXCEPT ![w] = {}]
      BY <2>6 DEF Stop, rows
    <3> QED BY <3>1
  <2> QED
    BY <2>1, <2>2, <2>3, <2>4, <2>5, <2>6 DEF Next, Work
<1>2. Spec => [][Stopped]_vars
  BY <1>1, Invariance, PTL DEF Spec
<1> QED BY <1>2 DEF OnlyStopsStrand

\* Between attempts an event notified once per attempt that failed, at most; in
\* an attempt, or after the one that ended it, once more.
CountInv ==
  \A e \in Event :
    /\ accepted[e] <= retries[e] + 1
    /\ Stage(e) \in {"none", "waiting", "held", "dead"}
         => accepted[e] <= retries[e]
    /\ Stage(e) \in {"told", "sent"} => accepted[e] > 0

LEMMA CountStep == IInv /\ CountInv /\ IInv' /\ [Next]_vars => CountInv'
<1> SUFFICES ASSUME IInv, CountInv, IInv', \A e \in Event : LivesOn(e), NEW e \in Event
             PROVE  /\ accepted'[e] <= retries'[e] + 1
                    /\ Stage(e)' \in {"none", "waiting", "held", "dead"}
                         => accepted'[e] <= retries'[e]
                    /\ Stage(e)' \in {"told", "sent"} => accepted'[e] > 0
  BY EveryStepLives DEF CountInv
<1> DEFINE s == Stage(e)
           t == Stage(e)'
<1>1. /\ accepted[e] \in Nat /\ retries[e] \in Nat
      /\ accepted[e] <= retries[e] + 1
      /\ s \in {"none", "waiting", "held", "dead"} => accepted[e] <= retries[e]
      /\ s \in {"told", "sent"} => accepted[e] > 0
  BY MaxRetriesAssumption DEF IInv, TypeOK, CountInv
<1>2. LivesOn(e)
  OBVIOUS
<1>3. \/ s = "none" /\ t = "waiting" /\ UNCHANGED <<retries[e], accepted[e]>>
      \/ s = "waiting" /\ t = "held" /\ UNCHANGED <<retries[e], accepted[e]>>
      \/ s = "held" /\ t = "told" /\ accepted'[e] = accepted[e] + 1 /\ retries'[e] = retries[e]
      \/ s = "held" /\ t = "missed" /\ accepted'[e] \in {accepted[e], accepted[e] + 1}
         /\ retries'[e] = retries[e]
      \/ s = "told" /\ t = "sent" /\ UNCHANGED <<retries[e], accepted[e]>>
      \/ s = "missed" /\ t \in {"dead", "waiting"} /\ retries'[e] = retries[e] + 1
         /\ accepted'[e] = accepted[e]
      \/ s \in {"held", "told", "missed"} /\ t = "lost" /\ retries'[e] = retries[e]
         /\ accepted'[e] \in {accepted[e], accepted[e] + 1}
         /\ (s # "held" => accepted'[e] = accepted[e])
      \/ t = s /\ UNCHANGED <<retries[e], accepted[e]>>
  BY <1>2 DEF LivesOn, Life!LifeNext, Life!Write, Life!Claim, Life!Accept, Life!Miss,
     Life!Settle, Life!Retry, Life!Lose, Life!Moves, Life!MayNotify
<1> HIDE DEF s, t
<1>4. /\ accepted'[e] <= retries'[e] + 1
      /\ t \in {"none", "waiting", "held", "dead"} => accepted'[e] <= retries'[e]
      /\ t \in {"told", "sent"} => accepted'[e] > 0
  BY <1>1, <1>3
<1> QED BY <1>4 DEF t

LEMMA CountInit == Init => CountInv
BY DEF Init, Nothing, CountInv, Stage, RowStage

\* Lost answers and retries notify customers MaxRetries times at most, and what
\* is SENT did reach them.
THEOREM NotifiedSeldom == Spec => []NotifiedWithinRetries
<1>1. Spec => []CountInv
  BY CountInit, CountStep, Invariance, PTL DEF Spec
<1>2. IInv /\ CountInv => NotifiedWithinRetries
  <2> SUFFICES ASSUME IInv, CountInv, NEW e \in Event
               PROVE  accepted[e] <= MaxRetries /\ (status[e] = "SENT" => accepted[e] > 0)
    BY DEF NotifiedWithinRetries
  <2>1. /\ accepted[e] \in Nat /\ retries[e] \in 0..MaxRetries
        /\ status[e] = "DEAD" <=> retries[e] = MaxRetries
        /\ accepted[e] <= retries[e] + 1
        /\ Stage(e) = "dead" => accepted[e] <= retries[e]
        /\ Stage(e) = "sent" => accepted[e] > 0
    BY DEF IInv, TypeOK, CountInv, DeadAfterLastRetry
  <2>2. /\ status[e] = "DEAD" => Stage(e) = "dead"
        /\ status[e] = "SENT" => Stage(e) = "sent"
    BY DEF Stage, RowStage
  <2> QED BY <2>1, <2>2, MaxRetriesAssumption
<1> QED BY <1>1, <1>2, Invariance, PTL
=============================================================================
