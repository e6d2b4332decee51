--------------------------- MODULE OutboxPipeline ---------------------------
(***************************************************************************)
(* The transactional outbox of the API: rows of the table outbox_events    *)
(* (outbox.service.js), the publisher that turns a row into a BullMQ job   *)
(* (outbox.publisher.js, queues.js), the worker process that runs the jobs *)
(* (chatEvents.worker.js, outbox.processor.js) and, as far as they rely on *)
(* it, BullMQ itself: job ids that deduplicate, retries with backoff,      *)
(* stalled jobs, removal of finished jobs.                                 *)
(*                                                                         *)
(* An event is its row id.  Rows are created in id order, as the table's   *)
(* AUTO_INCREMENT does.  Payloads are abstract.                            *)
(***************************************************************************)
EXTENDS Integers, FiniteSets

CONSTANTS
  N,            \* number of outbox rows ever created
  Messages,     \* rows of type message.created: the only ones published after commit
  Handled,      \* rows whose event_type is in the handler registry
  Slots,        \* concurrency slots of the worker
  MaxAttempts,  \* jobAttempts
  MaxStalls,    \* BullMQ's maxStalledCount
  Batch,        \* publisherBatchSize
  MaxRestarts,  \* bound: crashes and stops of the worker
  Faults,       \* what may throw: the "read" of a row, a "write" to it, a "handler"
  LiveStalls    \* a job may be taken from a slot that is still running it

Events == 1..N

ASSUME OutboxAssumption ==
  /\ N \in Nat /\ MaxAttempts \in Nat \ {0} /\ MaxStalls \in Nat
  /\ Batch \in Nat /\ MaxRestarts \in Nat
  /\ Messages \subseteq Handled /\ Handled \subseteq Events
  /\ Faults \subseteq {"read", "write", "handler"} /\ LiveStalls \in BOOLEAN

VARIABLES
  row,       \* status of the outbox row, "none" before its transaction commits
  attempts,  \* the row's attempts column
  ran,       \* events whose handler has run to completion (history)
  shown,     \* events whose handler reached a user (history)
  prod,      \* the request that created the row: what it still has to do
  job,       \* state of the BullMQ job outbox-event-<id>
  made,      \* the job's attemptsMade
  stalls,    \* the job's stalled counter
  pc,        \* step of handleChatEventJob a slot is about to take
  ev,        \* event of the job a slot is running
  lost,      \* slots whose job lock was taken over by the stalled check
  listening, \* events the 'failed' listener is about to mark
  boot,      \* the worker process: "down", "fetch" (before the sweep's query), "up"
  sweep,     \* pending rows the startup sweep has read and not yet enqueued
  restarts   \* crashes and stops so far

rowVars  == <<row, attempts, ran, shown>>
jobVars  == <<job, made, stalls>>
slotVars == <<pc, ev, lost>>
bootVars == <<boot, sweep, restarts>>
vars == <<rowVars, prod, jobVars, slotVars, listening, bootVars>>

RowStates == {"none", "pending", "processing", "failed", "published"}
JobStates == {"none", "waiting", "active", "delayed", "completed", "failed"}
Steps == {"idle", "load", "unknown", "mark", "handle", "publish", "fail",
          "done", "throw"}
Finished == {"completed", "failed"}

TypeOK ==
  /\ row \in [Events -> RowStates]
  /\ attempts \in [Events -> Nat]
  /\ ran \subseteq Events
  /\ shown \subseteq Events
  /\ prod \in [Events -> {"none", "enqueue", "done"}]
  /\ job \in [Events -> JobStates]
  /\ made \in [Events -> 0..MaxAttempts]
  /\ stalls \in [Events -> 0..(MaxStalls + 1)]
  /\ pc \in [Slots -> Steps]
  /\ ev \in [Slots -> Events \cup {0}]
  /\ lost \subseteq Slots
  /\ listening \subseteq Events
  /\ boot \in {"down", "fetch", "up"}
  /\ sweep \subseteq Events
  /\ restarts \in 0..MaxRestarts

Init ==
  /\ row = [e \in Events |-> "none"]
  /\ attempts = [e \in Events |-> 0]
  /\ ran = {} /\ shown = {}
  /\ prod = [e \in Events |-> "none"]
  /\ job = [e \in Events |-> "none"]
  /\ made = [e \in Events |-> 0]
  /\ stalls = [e \in Events |-> 0]
  /\ pc = [s \in Slots |-> "idle"]
  /\ ev = [s \in Slots |-> 0]
  /\ lost = {} /\ listening = {}
  /\ boot = "down" /\ sweep = {} /\ restarts = 0

-----------------------------------------------------------------------------
(* Who works on an event.  A slot holds the job's lock unless it lost it.  *)

Workers(e) == {s \in Slots : pc[s] # "idle" /\ ev[s] = e}
Holders(e) == Workers(e) \ lost

Goto(s, step) == pc' = [pc EXCEPT ![s] = step]
SetRow(e, status) == row' = [row EXCEPT ![e] = status]

-----------------------------------------------------------------------------
(* Producers.                                                              *)

(* The domain transaction commits with its outbox row. *)
Commit(e) ==
  /\ row[e] = "none"
  /\ \A f \in Events : f < e => row[f] # "none"
  /\ SetRow(e, "pending")
  /\ prod' = [prod EXCEPT ![e] = IF e \in Messages THEN "enqueue" ELSE "done"]
  /\ UNCHANGED <<attempts, ran, shown, jobVars, slotVars, listening, bootVars>>

(* Variant: a second add starts the job again. *)
AddJobUndeduped(e) ==
  /\ job' = [job EXCEPT ![e] = "waiting"]
  /\ made' = [made EXCEPT ![e] = 0]
  /\ stalls' = [stalls EXCEPT ![e] = 0]

(* queue.add with the deterministic job id: a second add is a no-op. *)
AddJob(e) ==
  IF job[e] = "none"
    THEN /\ job' = [job EXCEPT ![e] = "waiting"]
         /\ made' = [made EXCEPT ![e] = 0]
         /\ stalls' = [stalls EXCEPT ![e] = 0]
    ELSE UNCHANGED jobVars

(* sendMessage, after its commit: enqueue the row ... *)
Enqueue(e) ==
  /\ prod[e] = "enqueue"
  /\ prod' = [prod EXCEPT ![e] = "done"]
  /\ AddJob(e)
  /\ UNCHANGED <<rowVars, slotVars, listening, bootVars>>

(* ... or do not: Redis is unavailable, add throws, or the API dies here. *)
EnqueueSkipped(e) ==
  /\ prod[e] = "enqueue"
  /\ prod' = [prod EXCEPT ![e] = "done"]
  /\ UNCHANGED <<rowVars, jobVars, slotVars, listening, bootVars>>

-----------------------------------------------------------------------------
(* The worker process: start with a recovery sweep, stop, crash.           *)

Start ==
  /\ boot = "down"
  /\ boot' = "fetch"
  /\ UNCHANGED <<rowVars, prod, jobVars, slotVars, listening, sweep, restarts>>

Pending == {e \in Events : row[e] = "pending"}

(* The rows a sweep reads: the Batch oldest of a set. *)
Oldest(S) == {e \in S : Cardinality({f \in S : f < e}) < Batch}

(* Variant: the sweep selects failed rows as well. *)
FetchFailedToo ==
  /\ boot = "fetch"
  /\ boot' = "up"
  /\ sweep' = Oldest(Pending \cup {e \in Events : row[e] = "failed"})
  /\ UNCHANGED <<rowVars, prod, jobVars, slotVars, listening, restarts>>

Fetch ==
  /\ boot = "fetch"
  /\ boot' = "up"
  /\ sweep' = Oldest(Pending)
  /\ UNCHANGED <<rowVars, prod, jobVars, slotVars, listening, restarts>>

(* publishPendingEvents goes through its snapshot in order; publishing one
   row fails without stopping the loop. *)
SweepOne(e) ==
  /\ e \in sweep /\ \A f \in sweep : e <= f
  /\ sweep' = sweep \ {e}
  /\ AddJob(e) \/ UNCHANGED jobVars
  /\ UNCHANGED <<rowVars, prod, slotVars, listening, boot, restarts>>

(* The process dies: everything it held in memory is gone, its jobs stay
   active in Redis until the stalled check of a later worker finds them. *)
Crash ==
  /\ boot # "down" /\ restarts < MaxRestarts
  /\ boot' = "down" /\ sweep' = {} /\ restarts' = restarts + 1
  /\ pc' = [s \in Slots |-> "idle"] /\ ev' = [s \in Slots |-> 0]
  /\ lost' = {} /\ listening' = {}
  /\ UNCHANGED <<rowVars, prod, jobVars>>

(* stopChatEventsWorker waits for the active jobs before it closes. *)
Stop ==
  /\ boot = "up" /\ sweep = {} /\ listening = {} /\ restarts < MaxRestarts
  /\ \A s \in Slots : pc[s] = "idle"
  /\ boot' = "down" /\ restarts' = restarts + 1
  /\ UNCHANGED <<rowVars, prod, jobVars, slotVars, listening, sweep>>

-----------------------------------------------------------------------------
(* BullMQ: hand out a job, retry it, notice that it stalled, forget it.    *)

Take(s, e) ==
  /\ boot # "down" /\ pc[s] = "idle" /\ job[e] = "waiting"
  /\ job' = [job EXCEPT ![e] = "active"]
  /\ Goto(s, "load")
  /\ ev' = [ev EXCEPT ![s] = e]
  /\ UNCHANGED <<rowVars, prod, made, stalls, lost, listening, bootVars>>

Promote(e) ==
  /\ boot # "down" /\ job[e] = "delayed"
  /\ job' = [job EXCEPT ![e] = "waiting"]
  /\ UNCHANGED <<rowVars, prod, made, stalls, slotVars, listening, bootVars>>

(* Variant: no stalled check. *)
NeverStalled(e) == FALSE

(* The stalled check: the lock of an active job expired. *)
Stalled(e) ==
  /\ boot # "down" /\ job[e] = "active"
  /\ LiveStalls \/ Holders(e) = {}
  /\ stalls' = [stalls EXCEPT ![e] = @ + 1]
  /\ job' = [job EXCEPT ![e] = IF stalls[e] + 1 > MaxStalls THEN "failed" ELSE "waiting"]
  /\ lost' = lost \cup Holders(e)
  /\ UNCHANGED <<rowVars, prod, made, pc, ev, listening, bootVars>>

(* removeOnComplete and removeOnFail forget a finished job after a day and a
   week: by then no request, sweep or slot still holds its event. *)
Evict(e) ==
  /\ job[e] \in Finished
  /\ prod[e] # "enqueue" /\ e \notin sweep /\ Workers(e) = {} /\ e \notin listening
  /\ job' = [job EXCEPT ![e] = "none"]
  /\ UNCHANGED <<rowVars, prod, made, stalls, slotVars, listening, bootVars>>

-----------------------------------------------------------------------------
(* handleChatEventJob and processEvent, one step per database access.      *)

(* Variant: a published row is not skipped. *)
LoadWithoutCheck(s) ==
  /\ pc[s] = "load"
  /\ \/ Goto(s, IF ev[s] \notin Handled THEN "unknown" ELSE "mark")
     \/ "read" \in Faults /\ Goto(s, "throw")
  /\ UNCHANGED <<rowVars, prod, jobVars, ev, lost, listening, bootVars>>

(* Load the row: skip a published one, route the others. *)
Load(s) ==
  /\ pc[s] = "load"
  /\ \/ row[ev[s]] = "published" /\ Goto(s, "done")
     \/ row[ev[s]] # "published" /\ ev[s] \notin Handled /\ Goto(s, "unknown")
     \/ row[ev[s]] # "published" /\ ev[s] \in Handled /\ Goto(s, "mark")
     \/ "read" \in Faults /\ Goto(s, "throw")
  /\ UNCHANGED <<rowVars, prod, jobVars, ev, lost, listening, bootVars>>

(* An event_type without a handler is a permanent failure: no retry.  The
   write is outside the try block, so its error is thrown. *)
MarkUnknown(s) ==
  /\ pc[s] = "unknown"
  /\ \/ SetRow(ev[s], "failed") /\ Goto(s, "done")
     \/ "write" \in Faults /\ UNCHANGED row /\ Goto(s, "throw")
  /\ UNCHANGED <<attempts, ran, shown, prod, jobVars, ev, lost, listening, bootVars>>

(* Variant: the handler is not run. *)
SkipHandler(s) ==
  /\ pc[s] = "mark"
  /\ SetRow(ev[s], "processing")
  /\ attempts' = [attempts EXCEPT ![ev[s]] = @ + 1]
  /\ Goto(s, "publish")
  /\ UNCHANGED <<ran, shown, prod, jobVars, ev, lost, listening, bootVars>>

(* markProcessing, in the try block of processEvent. *)
MarkProcessing(s) ==
  /\ pc[s] = "mark"
  /\ \/ /\ SetRow(ev[s], "processing")
        /\ attempts' = [attempts EXCEPT ![ev[s]] = @ + 1]
        /\ Goto(s, "handle")
     \/ "write" \in Faults /\ UNCHANGED <<row, attempts>> /\ Goto(s, "fail")
  /\ UNCHANGED <<ran, shown, prod, jobVars, ev, lost, listening, bootVars>>

(* The handler.  message.created broadcasts through the context, and the
   worker passes none; the others insert notifications through
   emitNotification, which swallows its own errors. *)
Handle(s) ==
  /\ pc[s] = "handle"
  /\ \/ /\ ran' = ran \cup {ev[s]}
        /\ \/ shown' = shown \cup ({ev[s]} \ Messages)
           \/ "handler" \in Faults /\ UNCHANGED shown
        /\ Goto(s, "publish")
     \/ /\ "handler" \in Faults /\ ev[s] \notin Messages
        /\ Goto(s, "fail")
        /\ UNCHANGED <<ran, shown>>
  /\ UNCHANGED <<row, attempts, prod, jobVars, ev, lost, listening, bootVars>>

MarkPublished(s) ==
  /\ pc[s] = "publish"
  /\ \/ SetRow(ev[s], "published") /\ Goto(s, "done")
     \/ "write" \in Faults /\ UNCHANGED row /\ Goto(s, "fail")
  /\ UNCHANGED <<attempts, ran, shown, prod, jobVars, ev, lost, listening, bootVars>>

(* Variant: the catch block only throws. *)
ForgetToMarkFailed(s) ==
  /\ pc[s] = "fail"
  /\ Goto(s, "throw")
  /\ UNCHANGED <<rowVars, prod, jobVars, ev, lost, listening, bootVars>>

(* The catch block: markFailed, whose own error is swallowed. *)
MarkFailed(s) ==
  /\ pc[s] = "fail"
  /\ \/ SetRow(ev[s], "failed")
     \/ "write" \in Faults /\ UNCHANGED row
  /\ Goto(s, "throw")
  /\ UNCHANGED <<attempts, ran, shown, prod, jobVars, ev, lost, listening, bootVars>>

(* The slot settles its job; BullMQ refuses a slot that lost the lock. *)
Release(s) ==
  /\ pc' = [pc EXCEPT ![s] = "idle"]
  /\ ev' = [ev EXCEPT ![s] = 0]
  /\ lost' = lost \ {s}

SettleOk(s) ==
  /\ pc[s] = "done"
  /\ Release(s)
  /\ job' = IF s \in lost THEN job ELSE [job EXCEPT ![ev[s]] = "completed"]
  /\ UNCHANGED <<rowVars, prod, made, stalls, listening, bootVars>>

(* Variant: the failure is reported to BullMQ as a success. *)
SwallowFailure(s) ==
  /\ pc[s] = "throw"
  /\ Release(s)
  /\ job' = IF s \in lost THEN job ELSE [job EXCEPT ![ev[s]] = "completed"]
  /\ UNCHANGED <<rowVars, prod, made, stalls, listening, bootVars>>

(* The job threw: retry with backoff, or fail for good and emit 'failed',
   whose listener marks the row after the last attempt. *)
SettleError(s) ==
  LET e == ev[s]
      last == made[e] + 1 >= MaxAttempts
  IN /\ pc[s] = "throw"
     /\ Release(s)
     /\ IF s \in lost
          THEN UNCHANGED <<job, made, listening>>
          ELSE /\ made' = [made EXCEPT ![e] = @ + 1]
               /\ job' = [job EXCEPT ![e] = IF last THEN "failed" ELSE "delayed"]
               /\ listening' = IF last THEN listening \cup {e} ELSE listening
     /\ UNCHANGED <<rowVars, prod, stalls, bootVars>>

(* The listener's markFailed, whose error is only logged. *)
Listener(e) ==
  /\ e \in listening
  /\ listening' = listening \ {e}
  /\ \/ SetRow(e, "failed")
     \/ "write" \in Faults /\ UNCHANGED row
  /\ UNCHANGED <<attempts, ran, shown, prod, jobVars, slotVars, bootVars>>

-----------------------------------------------------------------------------
Work(s) == \/ Load(s) \/ MarkUnknown(s) \/ MarkProcessing(s) \/ Handle(s)
           \/ MarkPublished(s) \/ MarkFailed(s) \/ SettleOk(s) \/ SettleError(s)

Next ==
  \/ \E e \in Events : \/ Commit(e) \/ Enqueue(e) \/ EnqueueSkipped(e) \/ SweepOne(e)
                       \/ Promote(e) \/ Stalled(e) \/ Evict(e) \/ Listener(e)
  \/ \E s \in Slots, e \in Events : Take(s, e)
  \/ \E s \in Slots : Work(s)
  \/ Start \/ Fetch \/ Crash \/ Stop

Spec == Init /\ [][Next]_vars

(* The scheduling the code relies on: the worker is restarted when it is
   down, its event loop runs every continuation, BullMQ hands out, promotes
   and checks jobs; nobody has to create rows, crash, stop or evict. *)
Fairness ==
  /\ WF_vars(Start) /\ WF_vars(Fetch)
  /\ \A e \in Events : /\ WF_vars(Enqueue(e) \/ EnqueueSkipped(e))
                       /\ WF_vars(SweepOne(e)) /\ WF_vars(Promote(e))
                       /\ WF_vars(Stalled(e)) /\ WF_vars(Listener(e))
                       /\ WF_vars(\E s \in Slots : Take(s, e))
  /\ \A s \in Slots : WF_vars(Work(s))

FairSpec == Spec /\ Fairness

-----------------------------------------------------------------------------
(* Safety.                                                                 *)

(* "Never mark outbox published before" the work is done: a row reaches
   published only after its handler returned, whatever crashed, stalled or
   was retried on the way. *)
PublishedWasHandled == \A e \in Events : row[e] = "published" => e \in ran

(* A slot whose lock was not taken over is the only one running its event:
   request, sweep, retry and stalled check never put one row in two slots. *)
ExclusiveProcessing ==
  \A s, t \in Slots : pc[s] # "idle" /\ pc[t] # "idle" /\ ev[s] = ev[t] => s = t

(* A pending row is one no worker has touched, so the sweep, which selects
   pending rows only, never runs a handler a second time. *)
PendingUntouched ==
  \A e \in Events : row[e] = "pending" => attempts[e] = 0 /\ e \notin ran

(* BullMQ's retries and the stalled check together bound how often a row is
   taken up, over any number of restarts, sweeps and evictions. *)
AttemptsBounded == \A e \in Events : attempts[e] <= MaxAttempts + MaxStalls

(* A job reported completed left its row published, or failed for want of a
   handler: no failure is reported to BullMQ as a success. *)
CompletedMeansSettled ==
  \A e \in Events : job[e] = "completed" =>
    \/ row[e] = "published"
    \/ row[e] = "failed" /\ e \notin Handled

(* Unless a write to the row was lost, a job that is over leaves a final row
   behind, except when the stalled check gave up on it. *)
NoStrandedRow ==
  \A e \in Events :
    job[e] \in Finished /\ e \notin listening /\ stalls[e] <= MaxStalls
      => row[e] \in {"failed", "published"}

(* Once published, a row is never reopened or marked failed by a retry, a
   late listener, a sweep or a second run of its job. *)
PublishedIsFinal ==
  [][\A e \in Events : row[e] = "published" => row'[e] = "published"]_row

(* A handler never starts again once its row is published. *)
NoRerunAfterPublish ==
  [][\A s \in Slots : pc[s] = "mark" /\ pc'[s] = "handle"
       => row[ev[s]] # "published"]_<<row, pc>>

-----------------------------------------------------------------------------
(* Liveness.                                                               *)

(* Every job BullMQ accepted finishes, through crashes, stalls and retries. *)
AcceptedJobFinishes ==
  \A e \in Events : job[e] = "waiting" ~> job[e] \in Finished

-----------------------------------------------------------------------------
(* What comments of the code promise and its behaviour does not keep.      *)

(* outbox_event.model.js: the worker polls for pending rows.  So a pending
   row would be taken up while the worker runs. *)
PendingIsPolled == \A e \in Events : row[e] = "pending" ~> row[e] # "pending"

(* outbox.publisher.js: "Prefer duplicate processing over lost events".  A
   row left processing by a job BullMQ gave up on is lost: no sweep selects
   it, and no failure is recorded on it. *)
NoLostEvent ==
  \A e \in Events : row[e] = "processing" => job[e] \notin {"failed", "none"}

(* outbox.processor.js: message.created is broadcast to the chat room and
   pushed by the time its row is published. *)
MessageWasBroadcast ==
  \A e \in Messages : row[e] = "published" => e \in shown

(* outbox.processor.js: "At-least-once delivery", so a published event
   reached its recipients at least once. *)
DeliveredAtLeastOnce ==
  \A e \in Handled \ Messages : row[e] = "published" => e \in shown

-----------------------------------------------------------------------------
(* The promise to the rest of the system (OutboxDelivery).                 *)

deliveryState ==
  [e \in Events |->
    IF row[e] = "none" THEN "absent"
    ELSE IF row[e] = "published" THEN "delivered"
    ELSE IF row[e] = "failed" /\ job[e] \in Finished \cup {"none"} THEN "abandoned"
    ELSE "recorded"]

Delivery == INSTANCE OutboxDelivery WITH state <- deliveryState

(* The pipeline implements at-least-once delivery with a final verdict. *)
DeliverySpec == Delivery!Spec
=============================================================================
