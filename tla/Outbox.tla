------------------------------- MODULE Outbox -------------------------------
(***************************************************************************)
(* The outbox: CreateProduct writes an event, workers claim batches of      *)
(* events with SELECT FOR UPDATE SKIP LOCKED, send each one to Firebase and *)
(* mark what became of it.  Every statement is a transaction of its own     *)
(* (the worker's repository is the pool), so a worker can end between any   *)
(* two of them: at a signal, a crash, or the first statement that fails.    *)
(***************************************************************************)
EXTENDS Naturals, FiniteSets

CONSTANTS
  Event,
  Worker,
  NoEvent,
  CreatedAt,   \* the order of created_at among events
  MaxRetries,  \* FCM_OUTBOX_MAX_RETRIES
  Batch        \* FCM_OUTBOX_BATCH_SIZE

ASSUME EventAssumption == NoEvent \notin Event
ASSUME CreatedAtAssumption == CreatedAt \in [Event -> Nat]
ASSUME MaxRetriesAssumption == MaxRetries \in Nat \ {0}
ASSUME BatchAssumption == Batch \in Nat \ {0}

VARIABLES
  status,      \* the rows of outbox_events
  retries,     \* retry_count
  due,         \* the events whose next_retry_at has passed
  pc,          \* where ProcessBatch of each worker is
  claimed,     \* claimed[w]: the events of its batch it has not finished
  current,     \* current[w]: the event it is processing
  seen,        \* seen[w]: the retry_count that came with the batch
  accepted,    \* how often Firebase accepted each event's notification
  answered     \* the events for which a worker saw Firebase accept

rows == <<status, retries, due>>
workers == <<pc, claimed, current, seen>>
firebase == <<accepted, answered>>
vars == <<rows, workers, firebase>>

OutboxStatus == {"PENDING", "PROCESSING", "RETRY", "SENT", "DEAD"}

TypeOK ==
  /\ status \in [Event -> OutboxStatus \cup {"none"}]
  /\ retries \in [Event -> 0..MaxRetries]
  /\ due \in SUBSET Event
  /\ pc \in [Worker -> {"idle", "next", "send", "sent", "failed"}]
  /\ claimed \in [Worker -> SUBSET Event]
  /\ current \in [Worker -> Event \cup {NoEvent}]
  /\ seen \in [Worker -> [Event -> 0..MaxRetries]]
  /\ accepted \in [Event -> Nat]
  /\ answered \in SUBSET Event

Nothing == [e \in Event |-> 0]

Init ==
  /\ status = [e \in Event |-> "none"]
  /\ retries = Nothing
  /\ due = {}
  /\ pc = [w \in Worker |-> "idle"]
  /\ claimed = [w \in Worker |-> {}]
  /\ current = [w \in Worker |-> NoEvent]
  /\ seen = [w \in Worker |-> Nothing]
  /\ accepted = Nothing
  /\ answered = {}

-----------------------------------------------------------------------------
\* The transaction of CreateProduct commits the product and its event together;
\* the event is due at once.
CreateOutboxEvent(e) ==
  /\ status[e] = "none"
  /\ status' = [status EXCEPT ![e] = "PENDING"]
  /\ due' = due \cup {e}
  /\ UNCHANGED <<retries, workers, firebase>>

\* next_retry_at passes.
RetryDue(e) ==
  /\ status[e] = "RETRY" /\ e \notin due
  /\ due' = due \cup {e}
  /\ UNCHANGED <<status, retries, workers, firebase>>

\* LockPendingOutboxEvents: the oldest events that are waiting, Batch of them
\* at most.  The row locks end with the statement, so the status has to keep
\* other workers away.  Faulty: only events that never failed are waiting; what
\* a worker left behind is taken for waiting.
WaitingOnce == {e \in due : status[e] = "PENDING"}
WaitingOrLeft == {e \in due : status[e] \in {"PENDING", "RETRY", "PROCESSING"}}
Waiting == {e \in due : status[e] \in {"PENDING", "RETRY"}}

OldestOf(S) ==
  {B \in SUBSET S :
     /\ \A e \in B, f \in S \ B : CreatedAt[e] <= CreatedAt[f]
     /\ \/ Cardinality(B) = Batch
        \/ B = S /\ Cardinality(S) < Batch}

\* Faulty: the events are selected and locked, but not updated; the limit is not
\* that of the update.
NotMarked(B) == status
MarkedBeyond(B) == [e \in Event |-> IF e \in Waiting THEN "PROCESSING" ELSE status[e]]
Marked(B) == [e \in Event |-> IF e \in B THEN "PROCESSING" ELSE status[e]]

LockPendingOutboxEvents(w) ==
  /\ pc[w] = "idle"
  /\ Waiting # {}
  /\ \E B \in OldestOf(Waiting) :
       /\ status' = Marked(B)
       /\ claimed' = [claimed EXCEPT ![w] = B]
       /\ seen' = [seen EXCEPT ![w] = [e \in Event |-> IF e \in B THEN retries[e] ELSE 0]]
  /\ pc' = [pc EXCEPT ![w] = "next"]
  /\ UNCHANGED <<retries, due, current, firebase>>

-----------------------------------------------------------------------------
\* processEvent, for the events in the order UPDATE ... RETURNING gave them,
\* which is any.
MarkOutboxProcessing(w) ==
  /\ pc[w] = "next"
  /\ \E e \in claimed[w] :
       /\ status' = [status EXCEPT ![e] = "PROCESSING"]
       /\ current' = [current EXCEPT ![w] = e]
  /\ pc' = [pc EXCEPT ![w] = "send"]
  /\ UNCHANGED <<retries, due, claimed, seen, firebase>>

\* SendProductCreated ends well, or with an error: Firebase did not accept the
\* notification, or it did and the answer was lost.
SendProductCreated(w) ==
  LET e == current[w]
  IN
  /\ pc[w] = "send"
  /\ \/ /\ accepted' = [accepted EXCEPT ![e] = @ + 1]
        /\ answered' = answered \cup {e}
        /\ pc' = [pc EXCEPT ![w] = "sent"]
     \/ /\ \/ accepted' = [accepted EXCEPT ![e] = @ + 1]
           \/ accepted' = accepted
        /\ pc' = [pc EXCEPT ![w] = "failed"]
        /\ UNCHANGED answered
  /\ UNCHANGED <<rows, claimed, current, seen>>

\* The event is done; ProcessBatch goes on with the next one.
Finish(w) ==
  /\ claimed' = [claimed EXCEPT ![w] = @ \ {current[w]}]
  /\ pc' = [pc EXCEPT ![w] = IF claimed[w] = {current[w]} THEN "idle" ELSE "next"]
  /\ current' = [current EXCEPT ![w] = NoEvent]
  /\ seen' = [seen EXCEPT ![w][current[w]] = 0]

MarkOutboxSent(w) ==
  /\ pc[w] = "sent"
  /\ status' = [status EXCEPT ![current[w]] = "SENT"]
  /\ Finish(w)
  /\ UNCHANGED <<retries, due, firebase>>

\* Was that the last attempt?  Faulty: one attempt more.
LastAttemptLate(n) == n >= MaxRetries
LastAttempt(n) == n + 1 >= MaxRetries

MarkOutboxRetry(w) ==
  LET e == current[w]
  IN
  /\ pc[w] = "failed"
  /\ status' = [status EXCEPT ![e] = IF LastAttempt(seen[w][e]) THEN "DEAD" ELSE "RETRY"]
  /\ retries' = [retries EXCEPT ![e] = @ + 1]
  /\ due' = due \ {e}
  /\ Finish(w)
  /\ UNCHANGED firebase

\* A statement fails and ProcessBatch returns, SIGTERM cancels its context, or
\* the worker crashes.  The next one starts with an empty batch.  A request to
\* Firebase that is under way may still be accepted.
Stop(w) ==
  /\ pc[w] # "idle"
  /\ pc' = [pc EXCEPT ![w] = "idle"]
  /\ claimed' = [claimed EXCEPT ![w] = {}]
  /\ current' = [current EXCEPT ![w] = NoEvent]
  /\ seen' = [seen EXCEPT ![w] = Nothing]
  /\ \/ UNCHANGED accepted
     \/ pc[w] = "send" /\ accepted' = [accepted EXCEPT ![current[w]] = @ + 1]
  /\ UNCHANGED <<rows, answered>>

Work(w) ==
  \/ LockPendingOutboxEvents(w)
  \/ MarkOutboxProcessing(w)
  \/ SendProductCreated(w)
  \/ MarkOutboxSent(w)
  \/ MarkOutboxRetry(w)

Next ==
  \/ \E e \in Event : CreateOutboxEvent(e) \/ RetryDue(e)
  \/ \E w \in Worker : Work(w) \/ Stop(w)

Spec == Init /\ [][Next]_vars

\* The ticker calls ProcessBatch again and again, statements return, Firebase
\* answers and time passes.
Fairness ==
  /\ \A w \in Worker : WF_vars(Work(w))
  /\ \A e \in Event : WF_vars(RetryDue(e))

FairSpec == Spec /\ Fairness

-----------------------------------------------------------------------------
(***************************************************************************)
(* Properties.                                                             *)
(***************************************************************************)
Settled(e) == status[e] \in {"SENT", "DEAD"}

\* An event that no worker holds and no query will claim.
Stranded(e) == status[e] = "PROCESSING" /\ \A w \in Worker : e \notin claimed[w]

\* No two workers process one event: the marks update by id alone and the send
\* cannot be undone, so all rests on the claim (SKIP LOCKED and PROCESSING).
OneWorkerPerEvent ==
  \A v, w \in Worker : v # w => claimed[v] \cap claimed[w] = {}

\* The dead letter boundary: an event is DEAD after MaxRetries failed attempts
\* and not before, and the retry_count read with the batch is still the row's.
DeadAfterLastRetry ==
  \A e \in Event :
    /\ status[e] = "DEAD" <=> retries[e] = MaxRetries
    /\ \A w \in Worker : e \in claimed[w] => seen[w][e] = retries[e]

\* A notification that a worker knows was accepted is not sent again, nor does
\* an event that is SENT or DEAD change, whatever crashes and retries follow.
NeverSentAgain ==
  [][\A e \in Event :
       /\ e \in answered => accepted'[e] = accepted[e]
       /\ Settled(e) => status'[e] = status[e]]_vars

\* Customers get a notification MaxRetries times at most, though answers are
\* lost and every attempt may notify them, and an event is SENT only if they
\* did get it.
NotifiedWithinRetries ==
  \A e \in Event :
    /\ accepted[e] <= MaxRetries
    /\ status[e] = "SENT" => accepted[e] > 0

\* Only a worker that ends in the middle of its batch leaves an event behind in
\* PROCESSING: every event that the claim marks is in the batch, and each one
\* leaves the batch with its mark.
OnlyStopsStrand ==
  [][\A e \in Event :
       Stranded(e)' => Stranded(e) \/ \E w \in Worker : e \in claimed[w] /\ Stop(w)]_vars

\* Where an event is in its life: what its row says and, of a claimed row, where
\* the worker is that holds it.
RowStage ==
  [none |-> "none", PENDING |-> "waiting", RETRY |-> "waiting",
   SENT |-> "sent", DEAD |-> "dead"]

Attempted(e, at) == \E w \in Worker : pc[w] = at /\ current[w] = e

Stage(e) ==
  IF status[e] # "PROCESSING" THEN RowStage[status[e]]
  ELSE IF Stranded(e) THEN "lost"
  ELSE IF Attempted(e, "sent") THEN "told"
  ELSE IF Attempted(e, "failed") THEN "missed" ELSE "held"

Life(e) == INSTANCE EventLife WITH
  Limit <- MaxRetries, stage <- Stage(e), failures <- retries[e], notified <- accepted[e]

\* Batches, claims and workers are invisible to an event: whatever they do at
\* the same time, each event goes through the life of EventLife.
LivesOn(e) == Life(e)!LifeNext \/ UNCHANGED <<Stage(e), retries[e], accepted[e]>>
EachEventLives ==
  /\ \A e \in Event : Life(e)!LifeInit
  /\ [][\A e \in Event : LivesOn(e)]_vars

\* Every event is sent or dead at last, or was left behind in PROCESSING.
SettledOrStranded ==
  \A e \in Event : status[e] # "none" ~> Settled(e) \/ Stranded(e)

\* Every event is sent or becomes a dead letter.
EventSettles == \A e \in Event : status[e] # "none" ~> Settled(e)
=============================================================================
