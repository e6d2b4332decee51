------------------------ MODULE OutboxPipelineProofs ------------------------
(***************************************************************************)
(* Proofs about the outbox pipeline, for any number of rows, slots,        *)
(* attempts, stalls and restarts.                                          *)
(***************************************************************************)
EXTENDS OutboxPipeline, TLAPS

(* A busy slot has an event; a slot that was not robbed of its job's lock
   runs an active job, and is the only such slot of that job. *)
SlotInv ==
  /\ \A s \in Slots : pc[s] # "idle" => ev[s] \in Events
  /\ \A s \in lost : pc[s] # "idle"
  /\ \A s \in Slots : pc[s] # "idle" /\ s \notin lost => job[ev[s]] = "active"
  /\ \A s, t \in Slots :
       pc[s] # "idle" /\ pc[t] # "idle" /\ s \notin lost /\ t \notin lost
         /\ ev[s] = ev[t] => s = t

(* A job that is not over has attempts and stalls to spare. *)
JobInv ==
  \A e \in Events : job[e] \in {"waiting", "active", "delayed"} =>
                      made[e] < MaxAttempts /\ stalls[e] <= MaxStalls

(* The type invariant is inductive together with the two. *)
IInv == TypeOK /\ SlotInv /\ JobInv

LEMMA InitIInv == Init => IInv
  BY OutboxAssumption DEF Init, IInv, TypeOK, SlotInv, JobInv, RowStates, JobStates, Steps

LEMMA NextIInv == IInv /\ [Next]_vars => IInv'
<1> SUFFICES ASSUME IInv, [Next]_vars PROVE IInv'
  OBVIOUS
<1> USE OutboxAssumption DEF IInv, TypeOK, SlotInv, JobInv, RowStates, JobStates, Steps, Finished,
        rowVars, jobVars, slotVars, bootVars
<1>1. ASSUME NEW e \in Events, Commit(e) PROVE IInv'
  BY <1>1 DEF Commit, SetRow
<1>2. ASSUME NEW e \in Events, Enqueue(e) PROVE IInv'
  BY <1>2 DEF Enqueue, AddJob
<1>3. ASSUME NEW e \in Events, EnqueueSkipped(e) PROVE IInv'
  BY <1>3 DEF EnqueueSkipped
<1>4. ASSUME NEW e \in Events, SweepOne(e) PROVE IInv'
  BY <1>4 DEF SweepOne, AddJob
<1>5. ASSUME NEW e \in Events, Promote(e) PROVE IInv'
  BY <1>5 DEF Promote
<1>6. ASSUME NEW e \in Events, Stalled(e) PROVE IInv'
  BY <1>6 DEF Stalled, Holders, Workers
<1>7. ASSUME NEW e \in Events, Evict(e) PROVE IInv'
  BY <1>7 DEF Evict, Workers
<1>8. ASSUME NEW e \in Events, Listener(e) PROVE IInv'
  BY <1>8 DEF Listener, SetRow
<1>9. ASSUME NEW s \in Slots, NEW e \in Events, Take(s, e) PROVE IInv'
  BY <1>9 DEF Take, Goto
<1>10. ASSUME NEW s \in Slots, Load(s) PROVE IInv'
  BY <1>10 DEF Load, Goto
<1>11. ASSUME NEW s \in Slots, MarkUnknown(s) PROVE IInv'
  BY <1>11 DEF MarkUnknown, Goto, SetRow
<1>12. ASSUME NEW s \in Slots, MarkProcessing(s) PROVE IInv'
  BY <1>12 DEF MarkProcessing, Goto, SetRow
<1>13. ASSUME NEW s \in Slots, Handle(s) PROVE IInv'
  BY <1>13 DEF Handle, Goto
<1>14. ASSUME NEW s \in Slots, MarkPublished(s) PROVE IInv'
  BY <1>14 DEF MarkPublished, Goto, SetRow
<1>15. ASSUME NEW s \in Slots, MarkFailed(s) PROVE IInv'
  BY <1>15 DEF MarkFailed, Goto, SetRow
<1>16. ASSUME NEW s \in Slots, SettleOk(s) PROVE IInv'
  BY <1>16 DEF SettleOk, Release
<1>17. ASSUME NEW s \in Slots, SettleError(s) PROVE IInv'
  BY <1>17 DEF SettleError, Release
<1>18. CASE Start
  BY <1>18 DEF Start
<1>19. CASE Fetch
  BY <1>19 DEF Fetch, Oldest, Pending
<1>20. CASE Crash
  BY <1>20 DEF Crash
<1>21. CASE Stop
  BY <1>21 DEF Stop
<1>22. CASE UNCHANGED vars
  BY <1>22 DEF vars
<1> QED
  BY <1>1, <1>2, <1>3, <1>4, <1>5, <1>6, <1>7, <1>8, <1>9, <1>10, <1>11, <1>12,
     <1>13, <1>14, <1>15, <1>16, <1>17, <1>18, <1>19, <1>20, <1>21, <1>22 DEF Next, Work

(* Every reachable state of the pipeline is well typed; in particular
   BullMQ's attemptsMade never exceeds jobAttempts, however jobs stall,
   because a slot that lost its lock cannot settle the job. *)
THEOREM TypeCorrect == Spec => []TypeOK
<1>1. Spec => []IInv
  BY InitIInv, NextIInv, PTL DEF Spec
<1>2. IInv => TypeOK
  BY DEF IInv
<1> QED
  BY <1>1, <1>2, PTL

-----------------------------------------------------------------------------
(* A row that is not there has no traces; a pending one was never worked
   on; a published one was handled. *)
RowInv ==
  \A e \in Events :
    /\ row[e] = "none" => /\ job[e] = "none" /\ prod[e] = "none"
                          /\ attempts[e] = 0 /\ e \notin ran
    /\ row[e] = "pending" => attempts[e] = 0 /\ e \notin ran
    /\ row[e] = "published" => e \in ran

(* Where the steps of a slot stand with the row they work on. *)
StepInv ==
  \A s \in Slots :
    /\ pc[s] \in {"handle", "publish"} => row[ev[s]] # "pending"
    /\ pc[s] = "publish" => ev[s] \in ran

(* An event without a job is held by nobody but, if its row is pending, a
   request or a sweep. *)
QuietInv ==
  \A e \in Events : job[e] = "none" =>
    /\ e \notin listening
    /\ \A s \in Slots : pc[s] # "idle" => ev[s] # e
    /\ prod[e] = "enqueue" \/ e \in sweep => row[e] = "pending"

HistoryInv == RowInv /\ StepInv /\ QuietInv

LEMMA InitHistoryInv == Init => HistoryInv
  BY OutboxAssumption DEF Init, HistoryInv, RowInv, StepInv, QuietInv

LEMMA NextHistoryInv == IInv /\ HistoryInv /\ [Next]_vars => HistoryInv'
<1> SUFFICES ASSUME IInv, HistoryInv, [Next]_vars PROVE HistoryInv'
  OBVIOUS
<1> USE OutboxAssumption DEF IInv, TypeOK, SlotInv, RowStates, JobStates, Steps, Finished,
        HistoryInv, RowInv, StepInv, QuietInv, rowVars, jobVars, slotVars, bootVars
<1>1. ASSUME NEW e \in Events, Commit(e) PROVE HistoryInv'
  BY <1>1 DEF Commit, SetRow
<1>2. ASSUME NEW e \in Events, Enqueue(e) PROVE HistoryInv'
  BY <1>2 DEF Enqueue, AddJob
<1>3. ASSUME NEW e \in Events, EnqueueSkipped(e) PROVE HistoryInv'
  BY <1>3 DEF EnqueueSkipped
<1>4. ASSUME NEW e \in Events, SweepOne(e) PROVE HistoryInv'
  BY <1>4 DEF SweepOne, AddJob
<1>5. ASSUME NEW e \in Events, Promote(e) PROVE HistoryInv'
  BY <1>5 DEF Promote
<1>6. ASSUME NEW e \in Events, Stalled(e) PROVE HistoryInv'
  BY <1>6 DEF Stalled, Holders, Workers
<1>7. ASSUME NEW e \in Events, Evict(e) PROVE HistoryInv'
  BY <1>7 DEF Evict, Workers
<1>8. ASSUME NEW e \in Events, Listener(e) PROVE HistoryInv'
  BY <1>8 DEF Listener, SetRow
<1>9. ASSUME NEW s \in Slots, NEW e \in Events, Take(s, e) PROVE HistoryInv'
  BY <1>9 DEF Take, Goto
<1>10. ASSUME NEW s \in Slots, Load(s) PROVE HistoryInv'
  BY <1>10 DEF Load, Goto
<1>11. ASSUME NEW s \in Slots, MarkUnknown(s) PROVE HistoryInv'
  BY <1>11 DEF MarkUnknown, Goto, SetRow
<1>12. ASSUME NEW s \in Slots, MarkProcessing(s) PROVE HistoryInv'
  BY <1>12 DEF MarkProcessing, Goto, SetRow
<1>13. ASSUME NEW s \in Slots, Handle(s) PROVE HistoryInv'
  BY <1>13 DEF Handle, Goto
<1>14. ASSUME NEW s \in Slots, MarkPublished(s) PROVE HistoryInv'
  BY <1>14 DEF MarkPublished, Goto, SetRow
<1>15. ASSUME NEW s \in Slots, MarkFailed(s) PROVE HistoryInv'
  BY <1>15 DEF MarkFailed, Goto, SetRow
<1>16. ASSUME NEW s \in Slots, SettleOk(s) PROVE HistoryInv'
  BY <1>16 DEF SettleOk, Release
<1>17. ASSUME NEW s \in Slots, SettleError(s) PROVE HistoryInv'
  BY <1>17 DEF SettleError, Release
<1>18. CASE Start
  BY <1>18 DEF Start
<1>19. CASE Fetch
  BY <1>19 DEF Fetch, Oldest, Pending
<1>20. CASE Crash
  BY <1>20 DEF Crash
<1>21. CASE Stop
  BY <1>21 DEF Stop
<1>22. CASE UNCHANGED vars
  BY <1>22 DEF vars
<1> QED
  BY <1>1, <1>2, <1>3, <1>4, <1>5, <1>6, <1>7, <1>8, <1>9, <1>10, <1>11, <1>12,
     <1>13, <1>14, <1>15, <1>16, <1>17, <1>18, <1>19, <1>20, <1>21, <1>22 DEF Next, Work

LEMMA HistoryInvariance == Spec => [](IInv /\ HistoryInv)
  BY InitIInv, NextIInv, InitHistoryInv, NextHistoryInv, PTL DEF Spec

(* A row is marked published only after its handler ran to completion,
   whatever crashes, stalls (of live slots too), retries and faults occur. *)
THEOREM PublishedOnlyAfterHandling == Spec => []PublishedWasHandled
<1>1. HistoryInv => PublishedWasHandled
  BY DEF HistoryInv, RowInv, PublishedWasHandled
<1> QED
  BY <1>1, HistoryInvariance, PTL

(* The recovery sweep selects only rows whose handler never started. *)
THEOREM SweepFindsUntouchedRows == Spec => []PendingUntouched
<1>1. HistoryInv => PendingUntouched
  BY DEF HistoryInv, RowInv, PendingUntouched
<1> QED
  BY <1>1, HistoryInvariance, PTL

-----------------------------------------------------------------------------
(* From here on no job is taken from a slot that still runs it: then no
   slot ever loses its lock, and the slots of an event exclude each other. *)

LEMMA NothingLost == ASSUME ~LiveStalls PROVE Spec => [](lost = {})
<1>1. Init => lost = {}
  BY DEF Init
<1>2. lost = {} /\ [Next]_vars => (lost = {})'
  BY DEF Next, Work, Commit, Enqueue, EnqueueSkipped, SweepOne, Promote, Stalled, Evict,
         Listener, Take, Load, MarkUnknown, MarkProcessing, Handle, MarkPublished, MarkFailed,
         SettleOk, SettleError, Start, Fetch, Crash, Stop, Release, vars, slotVars
<1> QED
  BY <1>1, <1>2, PTL DEF Spec

(* Without live stalls at most one slot runs the handler of a row at a time,
   however often its job was enqueued, retried or found stalled. *)
THEOREM OneSlotPerEvent == ASSUME ~LiveStalls PROVE Spec => []ExclusiveProcessing
<1>1. IInv /\ lost = {} => ExclusiveProcessing
  BY DEF IInv, SlotInv, ExclusiveProcessing
<1> QED
  BY <1>1, NothingLost, HistoryInvariance, PTL

(* What the job's counters say about the row's attempts: every run of the job
   that is over counted one attempt or one stall. *)
BudgetInv ==
  /\ \A e \in Events :
       /\ attempts[e] <= MaxAttempts + MaxStalls
       /\ job[e] \in {"waiting", "delayed"} => attempts[e] <= made[e] + stalls[e]
       /\ job[e] = "active" => attempts[e] <= made[e] + stalls[e] + 1
  /\ \A s \in Slots : pc[s] \in {"load", "mark"} =>
       attempts[ev[s]] <= made[ev[s]] + stalls[ev[s]]

LEMMA NextBudgetInv ==
  IInv /\ HistoryInv /\ lost = {} /\ BudgetInv /\ [Next]_vars => BudgetInv'
<1> SUFFICES ASSUME IInv, HistoryInv, lost = {}, BudgetInv, [Next]_vars PROVE BudgetInv'
  OBVIOUS
<1> USE OutboxAssumption DEF IInv, TypeOK, SlotInv, JobInv, RowStates, JobStates, Steps, Finished,
        HistoryInv, RowInv, QuietInv, BudgetInv, rowVars, jobVars, slotVars, bootVars
<1>1. ASSUME NEW e \in Events, Commit(e) PROVE BudgetInv'
  BY <1>1 DEF Commit, SetRow
<1>2. ASSUME NEW e \in Events, Enqueue(e) PROVE BudgetInv'
  BY <1>2 DEF Enqueue, AddJob
<1>3. ASSUME NEW e \in Events, EnqueueSkipped(e) PROVE BudgetInv'
  BY <1>3 DEF EnqueueSkipped
<1>4. ASSUME NEW e \in Events, SweepOne(e) PROVE BudgetInv'
  BY <1>4 DEF SweepOne, AddJob
<1>5. ASSUME NEW e \in Events, Promote(e) PROVE BudgetInv'
  BY <1>5 DEF Promote
<1>6. ASSUME NEW e \in Events, Stalled(e) PROVE BudgetInv'
  BY <1>6 DEF Stalled, Holders, Workers
<1>7. ASSUME NEW e \in Events, Evict(e) PROVE BudgetInv'
  BY <1>7 DEF Evict, Workers
<1>8. ASSUME NEW e \in Events, Listener(e) PROVE BudgetInv'
  BY <1>8 DEF Listener, SetRow
<1>9. ASSUME NEW s \in Slots, NEW e \in Events, Take(s, e) PROVE BudgetInv'
  BY <1>9 DEF Take, Goto
<1>10. ASSUME NEW s \in Slots, Load(s) PROVE BudgetInv'
  BY <1>10 DEF Load, Goto
<1>11. ASSUME NEW s \in Slots, MarkUnknown(s) PROVE BudgetInv'
  BY <1>11 DEF MarkUnknown, Goto, SetRow
<1>12. ASSUME NEW s \in Slots, MarkProcessing(s) PROVE BudgetInv'
  BY <1>12 DEF MarkProcessing, Goto, SetRow
<1>13. ASSUME NEW s \in Slots, Handle(s) PROVE BudgetInv'
  BY <1>13 DEF Handle, Goto
<1>14. ASSUME NEW s \in Slots, MarkPublished(s) PROVE BudgetInv'
  BY <1>14 DEF MarkPublished, Goto, SetRow
<1>15. ASSUME NEW s \in Slots, MarkFailed(s) PROVE BudgetInv'
  BY <1>15 DEF MarkFailed, Goto, SetRow
<1>16. ASSUME NEW s \in Slots, SettleOk(s) PROVE BudgetInv'
  BY <1>16 DEF SettleOk, Release
<1>17. ASSUME NEW s \in Slots, SettleError(s) PROVE BudgetInv'
  BY <1>17 DEF SettleError, Release
<1>18. CASE Start
  BY <1>18 DEF Start
<1>19. CASE Fetch
  BY <1>19 DEF Fetch, Oldest, Pending
<1>20. CASE Crash
  BY <1>20 DEF Crash
<1>21. CASE Stop
  BY <1>21 DEF Stop
<1>22. CASE UNCHANGED vars
  BY <1>22 DEF vars
<1> QED
  BY <1>1, <1>2, <1>3, <1>4, <1>5, <1>6, <1>7, <1>8, <1>9, <1>10, <1>11, <1>12,
     <1>13, <1>14, <1>15, <1>16, <1>17, <1>18, <1>19, <1>20, <1>21, <1>22 DEF Next, Work

(* jobAttempts and maxStalledCount bound the attempts of a row for its whole
   life: evicted jobs are added again only for rows no worker touched. *)
THEOREM AttemptsAreBounded == ASSUME ~LiveStalls PROVE Spec => []AttemptsBounded
<1>1. Init => BudgetInv
  BY OutboxAssumption DEF Init, BudgetInv
<1>2. BudgetInv => AttemptsBounded
  BY DEF BudgetInv, AttemptsBounded
<1> QED
  BY <1>1, <1>2, NextBudgetInv, NothingLost, HistoryInvariance, PTL DEF Spec

-----------------------------------------------------------------------------
(* Finality.  A slot that finds its row published only has to settle the
   job, and the listener never holds an event that was published. *)
FinalInv ==
  /\ \A s \in Slots : pc[s] # "idle" /\ row[ev[s]] = "published" => pc[s] \in {"load", "done"}
  /\ \A e \in listening : row[e] # "published" /\ job[e] = "failed"

LEMMA NextFinalInv ==
  ASSUME "read" \notin Faults
  PROVE  IInv /\ HistoryInv /\ lost = {} /\ FinalInv /\ [Next]_vars => FinalInv'
<1> SUFFICES ASSUME IInv, HistoryInv, lost = {}, FinalInv, [Next]_vars PROVE FinalInv'
  OBVIOUS
<1> USE OutboxAssumption DEF IInv, TypeOK, SlotInv, RowStates, JobStates, Steps, Finished,
        HistoryInv, RowInv, QuietInv, FinalInv, rowVars, jobVars, slotVars, bootVars
<1>1. ASSUME NEW e \in Events, Commit(e) PROVE FinalInv'
  BY <1>1 DEF Commit, SetRow
<1>2. ASSUME NEW e \in Events, Enqueue(e) PROVE FinalInv'
  BY <1>2 DEF Enqueue, AddJob
<1>3. ASSUME NEW e \in Events, EnqueueSkipped(e) PROVE FinalInv'
  BY <1>3 DEF EnqueueSkipped
<1>4. ASSUME NEW e \in Events, SweepOne(e) PROVE FinalInv'
  BY <1>4 DEF SweepOne, AddJob
<1>5. ASSUME NEW e \in Events, Promote(e) PROVE FinalInv'
  BY <1>5 DEF Promote
<1>6. ASSUME NEW e \in Events, Stalled(e) PROVE FinalInv'
  BY <1>6 DEF Stalled, Holders, Workers
<1>7. ASSUME NEW e \in Events, Evict(e) PROVE FinalInv'
  BY <1>7 DEF Evict, Workers
<1>8. ASSUME NEW e \in Events, Listener(e) PROVE FinalInv'
  BY <1>8 DEF Listener, SetRow
<1>9. ASSUME NEW s \in Slots, NEW e \in Events, Take(s, e) PROVE FinalInv'
  BY <1>9 DEF Take, Goto
<1>10. ASSUME NEW s \in Slots, Load(s) PROVE FinalInv'
  BY <1>10 DEF Load, Goto
<1>11. ASSUME NEW s \in Slots, MarkUnknown(s) PROVE FinalInv'
  BY <1>11 DEF MarkUnknown, Goto, SetRow
<1>12. ASSUME NEW s \in Slots, MarkProcessing(s) PROVE FinalInv'
  BY <1>12 DEF MarkProcessing, Goto, SetRow
<1>13. ASSUME NEW s \in Slots, Handle(s) PROVE FinalInv'
  BY <1>13 DEF Handle, Goto
<1>14. ASSUME NEW s \in Slots, MarkPublished(s) PROVE FinalInv'
  BY <1>14 DEF MarkPublished, Goto, SetRow
<1>15. ASSUME NEW s \in Slots, MarkFailed(s) PROVE FinalInv'
  BY <1>15 DEF MarkFailed, Goto, SetRow
<1>16. ASSUME NEW s \in Slots, SettleOk(s) PROVE FinalInv'
  BY <1>16 DEF SettleOk, Release
<1>17. ASSUME NEW s \in Slots, SettleError(s) PROVE FinalInv'
  BY <1>17 DEF SettleError, Release
<1>18. CASE Start
  BY <1>18 DEF Start
<1>19. CASE Fetch
  BY <1>19 DEF Fetch, Oldest, Pending
<1>20. CASE Crash
  BY <1>20 DEF Crash
<1>21. CASE Stop
  BY <1>21 DEF Stop
<1>22. CASE UNCHANGED vars
  BY <1>22 DEF vars
<1> QED
  BY <1>1, <1>2, <1>3, <1>4, <1>5, <1>6, <1>7, <1>8, <1>9, <1>10, <1>11, <1>12,
     <1>13, <1>14, <1>15, <1>16, <1>17, <1>18, <1>19, <1>20, <1>21, <1>22 DEF Next, Work

LEMMA FinalInvariance ==
  ASSUME ~LiveStalls, "read" \notin Faults
  PROVE  Spec => [](IInv /\ HistoryInv /\ lost = {} /\ FinalInv)
<1>1. Init => FinalInv
  BY DEF Init, FinalInv
<1> QED
  BY <1>1, NextFinalInv, NothingLost, HistoryInvariance, PTL DEF Spec

(* A published row stays published. *)
THEOREM PublicationIsFinal ==
  ASSUME ~LiveStalls, "read" \notin Faults PROVE Spec => PublishedIsFinal
<1>1. IInv /\ HistoryInv /\ FinalInv /\ [Next]_vars
        => [\A e \in Events : row[e] = "published" => row'[e] = "published"]_row
  BY DEF IInv, TypeOK, SlotInv, FinalInv, Next, Work, Commit, Enqueue, EnqueueSkipped, SweepOne,
         Promote, Stalled, Evict, Listener, Take, Load, MarkUnknown, MarkProcessing, Handle,
         MarkPublished, MarkFailed, SettleOk, SettleError, Start, Fetch, Crash, Stop, SetRow,
         vars, rowVars
<1> QED
  BY <1>1, FinalInvariance, PTL DEF Spec, PublishedIsFinal

(* The handler of a published row is never started again. *)
THEOREM NoRerun ==
  ASSUME ~LiveStalls, "read" \notin Faults PROVE Spec => NoRerunAfterPublish
<1>1. IInv /\ FinalInv /\ [Next]_vars
        => [\A s \in Slots : pc[s] = "mark" /\ pc'[s] = "handle"
              => row[ev[s]] # "published"]_<<row, pc>>
  BY DEF IInv, TypeOK, SlotInv, FinalInv, vars, rowVars, slotVars
<1> QED
  BY <1>1, FinalInvariance, PTL DEF Spec, NoRerunAfterPublish

-----------------------------------------------------------------------------
(* Verdicts.  From here on the writes to a row work as well: what a job came to,
   and what its slot is about to report, is what the row says. *)
JobSettled(e) ==
  /\ job[e] = "completed" => row[e] = "published" \/ (row[e] = "failed" /\ e \notin Handled)
  /\ job[e] = "failed" /\ stalls[e] <= MaxStalls => row[e] = "failed"

SlotSettled(s) ==
  /\ pc[s] = "done" =>
       row[ev[s]] = "published" \/ (row[ev[s]] = "failed" /\ ev[s] \notin Handled)
  /\ pc[s] = "throw" => row[ev[s]] = "failed"
  /\ pc[s] = "unknown" => ev[s] \notin Handled

SettledInv == (\A e \in Events : JobSettled(e)) /\ \A s \in Slots : SlotSettled(s)

LEMMA NextSettledInv ==
  ASSUME "read" \notin Faults, "write" \notin Faults
  PROVE  IInv /\ HistoryInv /\ lost = {} /\ FinalInv /\ SettledInv /\ [Next]_vars => SettledInv'
<1> SUFFICES ASSUME IInv, HistoryInv, lost = {}, FinalInv, SettledInv, [Next]_vars
             PROVE  SettledInv'
  OBVIOUS
<1> USE OutboxAssumption DEF IInv, TypeOK, SlotInv, JobInv, RowStates, JobStates, Steps, Finished,
        HistoryInv, RowInv, QuietInv, FinalInv, SettledInv, JobSettled, SlotSettled, rowVars, jobVars, slotVars, bootVars
<1>1. ASSUME NEW e \in Events, Commit(e) PROVE SettledInv'
  BY <1>1 DEF Commit, SetRow
<1>2. ASSUME NEW e \in Events, Enqueue(e) PROVE SettledInv'
  BY <1>2 DEF Enqueue, AddJob
<1>3. ASSUME NEW e \in Events, EnqueueSkipped(e) PROVE SettledInv'
  BY <1>3 DEF EnqueueSkipped
<1>4. ASSUME NEW e \in Events, SweepOne(e) PROVE SettledInv'
  BY <1>4 DEF SweepOne, AddJob
<1>5. ASSUME NEW e \in Events, Promote(e) PROVE SettledInv'
  BY <1>5 DEF Promote
<1>6. ASSUME NEW e \in Events, Stalled(e) PROVE SettledInv'
  BY <1>6 DEF Stalled, Holders, Workers
<1>7. ASSUME NEW e \in Events, Evict(e) PROVE SettledInv'
  BY <1>7 DEF Evict, Workers
<1>8. ASSUME NEW e \in Events, Listener(e) PROVE SettledInv'
  BY <1>8 DEF Listener, SetRow
<1>9. ASSUME NEW s \in Slots, NEW e \in Events, Take(s, e) PROVE SettledInv'
  BY <1>9 DEF Take, Goto
<1>10. ASSUME NEW s \in Slots, Load(s) PROVE SettledInv'
  BY <1>10 DEF Load, Goto
<1>11. ASSUME NEW s \in Slots, MarkUnknown(s) PROVE SettledInv'
  BY <1>11 DEF MarkUnknown, Goto, SetRow
<1>12. ASSUME NEW s \in Slots, MarkProcessing(s) PROVE SettledInv'
  BY <1>12 DEF MarkProcessing, Goto, SetRow
<1>13. ASSUME NEW s \in Slots, Handle(s) PROVE SettledInv'
  BY <1>13 DEF Handle, Goto
<1>14. ASSUME NEW s \in Slots, MarkPublished(s) PROVE SettledInv'
  BY <1>14 DEF MarkPublished, Goto, SetRow
<1>15. ASSUME NEW s \in Slots, MarkFailed(s) PROVE SettledInv'
  BY <1>15 DEF MarkFailed, Goto, SetRow
<1>16. ASSUME NEW s \in Slots, SettleOk(s) PROVE SettledInv'
  BY <1>16 DEF SettleOk, Release
<1>17. ASSUME NEW s \in Slots, SettleError(s) PROVE SettledInv'
  BY <1>17 DEF SettleError, Release
<1>18. CASE Start
  BY <1>18 DEF Start
<1>19. CASE Fetch
  BY <1>19 DEF Fetch, Oldest, Pending
<1>20. CASE Crash
  BY <1>20 DEF Crash
<1>21. CASE Stop
  BY <1>21 DEF Stop
<1>22. CASE UNCHANGED vars
  BY <1>22 DEF vars
<1> QED
  BY <1>1, <1>2, <1>3, <1>4, <1>5, <1>6, <1>7, <1>8, <1>9, <1>10, <1>11, <1>12,
     <1>13, <1>14, <1>15, <1>16, <1>17, <1>18, <1>19, <1>20, <1>21, <1>22 DEF Next, Work

LEMMA SettledInvariance ==
  ASSUME ~LiveStalls, "read" \notin Faults, "write" \notin Faults
  PROVE  Spec => []SettledInv
<1>1. Init => SettledInv
  BY DEF Init, SettledInv, JobSettled, SlotSettled
<1> QED
  BY <1>1, NextSettledInv, FinalInvariance, PTL DEF Spec

(* A job BullMQ counts as completed left its row published, or failed for want of
   a handler. *)
THEOREM CompletedJobsSettled ==
  ASSUME ~LiveStalls, "read" \notin Faults, "write" \notin Faults
  PROVE  Spec => []CompletedMeansSettled
<1>1. SettledInv => CompletedMeansSettled
  BY DEF SettledInv, JobSettled, CompletedMeansSettled
<1> QED
  BY <1>1, SettledInvariance, PTL

(* A job that is over, other than one the stalled check gave up on, left a final
   row behind. *)
THEOREM NobodyIsStranded ==
  ASSUME ~LiveStalls, "read" \notin Faults, "write" \notin Faults
  PROVE  Spec => []NoStrandedRow
<1>1. SettledInv => NoStrandedRow
  BY DEF SettledInv, JobSettled, NoStrandedRow, Finished
<1> QED
  BY <1>1, SettledInvariance, PTL

-----------------------------------------------------------------------------
(* The pipeline implements OutboxDelivery.                                 *)

(* One event moves as OutboxDelivery allows, the others stay. *)
Moves(e) ==
  /\ e \in Events
  /\ \A f \in Events \ {e} : deliveryState'[f] = deliveryState[f]
  /\ \/ ran' = ran /\ deliveryState'[e] = deliveryState[e]
     \/ ran' = ran /\ deliveryState[e] = "absent" /\ deliveryState'[e] = "recorded"
     \/ /\ ran' = ran \cup {e}
        /\ deliveryState[e] = "recorded" /\ deliveryState'[e] = "recorded"
     \/ /\ ran' = ran /\ e \in ran
        /\ deliveryState[e] = "recorded" /\ deliveryState'[e] = "delivered"
     \/ ran' = ran /\ deliveryState[e] = "recorded" /\ deliveryState'[e] = "abandoned"

LEMMA MoveIsStep ==
  ASSUME NEW e, Moves(e) PROVE [Delivery!Next]_<<deliveryState, ran>>
<1> DEFINE ds == deliveryState
<1>1. ds = [f \in Events |-> ds[f]] /\ ds' = [f \in Events |-> ds'[f]]
  BY DEF deliveryState
<1>2. ds' = [ds EXCEPT ![e] = ds'[e]]
  <2> HIDE DEF ds
  <2> QED
    BY <1>1 DEF Moves, ds
<1>3. ds'[e] = ds[e] => ds' = ds
  BY <1>1, <1>2 DEF Moves
<1> HIDE DEF ds
<1>4. [Delivery!Next]_<<ds, ran>>
  BY <1>2, <1>3 DEF Moves, Delivery!Next, Delivery!Record, Delivery!Run, Delivery!Deliver,
                    Delivery!Abandon, ds
<1> QED
  BY <1>4 DEF ds

LEMMA DeliveryStep ==
  ASSUME IInv, HistoryInv, lost = {}, FinalInv, [Next]_vars
  PROVE  [Delivery!Next]_<<deliveryState, ran>>
<1> USE OutboxAssumption DEF IInv, TypeOK, SlotInv, RowStates, JobStates, Steps, Finished,
        HistoryInv, RowInv, StepInv, QuietInv, FinalInv, rowVars, jobVars, slotVars, bootVars,
        deliveryState, Moves
<1>1. ASSUME NEW e \in Events, Commit(e) PROVE Moves(e)
  BY <1>1 DEF Commit, SetRow
<1>2. ASSUME NEW e \in Events, Enqueue(e) PROVE Moves(e)
  BY <1>2 DEF Enqueue, AddJob
<1>3. ASSUME NEW e \in Events, EnqueueSkipped(e) PROVE Moves(e)
  BY <1>3 DEF EnqueueSkipped
<1>4. ASSUME NEW e \in Events, SweepOne(e) PROVE Moves(e)
  BY <1>4 DEF SweepOne, AddJob
<1>5. ASSUME NEW e \in Events, Promote(e) PROVE Moves(e)
  BY <1>5 DEF Promote
<1>6. ASSUME NEW e \in Events, Stalled(e) PROVE Moves(e)
  BY <1>6 DEF Stalled, Holders, Workers
<1>7. ASSUME NEW e \in Events, Evict(e) PROVE Moves(e)
  BY <1>7 DEF Evict, Workers
<1>8. ASSUME NEW e \in Events, Listener(e) PROVE Moves(e)
  BY <1>8 DEF Listener, SetRow
<1>9. ASSUME NEW s \in Slots, NEW e \in Events, Take(s, e) PROVE Moves(e)
  BY <1>9 DEF Take, Goto
<1>10. ASSUME NEW s \in Slots, Load(s) PROVE Moves(ev[s])
  BY <1>10 DEF Load, Goto
<1>11. ASSUME NEW s \in Slots, MarkUnknown(s) PROVE Moves(ev[s])
  BY <1>11 DEF MarkUnknown, Goto, SetRow
<1>12. ASSUME NEW s \in Slots, MarkProcessing(s) PROVE Moves(ev[s])
  BY <1>12 DEF MarkProcessing, Goto, SetRow
<1>13. ASSUME NEW s \in Slots, Handle(s) PROVE Moves(ev[s])
  BY <1>13 DEF Handle, Goto
<1>14. ASSUME NEW s \in Slots, MarkPublished(s) PROVE Moves(ev[s])
  BY <1>14 DEF MarkPublished, Goto, SetRow
<1>15. ASSUME NEW s \in Slots, MarkFailed(s) PROVE Moves(ev[s])
  BY <1>15 DEF MarkFailed, Goto, SetRow
<1>16. ASSUME NEW s \in Slots, SettleOk(s) PROVE Moves(ev[s])
  BY <1>16 DEF SettleOk, Release
<1>17. ASSUME NEW s \in Slots, SettleError(s) PROVE Moves(ev[s])
  BY <1>17 DEF SettleError, Release
<1>18. CASE Start
  BY <1>18 DEF Start
<1>19. CASE Fetch
  BY <1>19 DEF Fetch, Oldest, Pending
<1>20. CASE Crash
  BY <1>20 DEF Crash
<1>21. CASE Stop
  BY <1>21 DEF Stop
<1>22. CASE UNCHANGED vars
  BY <1>22 DEF vars
<1> HIDE DEF deliveryState, Moves
<1>23. (\E e : Moves(e)) \/ [Delivery!Next]_<<deliveryState, ran>>
  <2>1. CASE UNCHANGED vars
    BY <1>22, <2>1
  <2>2. CASE Start \/ Fetch \/ Crash \/ Stop
    BY <1>18, <1>19, <1>20, <1>21, <2>2
  <2>3. CASE \E e \in Events : \/ Commit(e) \/ Enqueue(e) \/ EnqueueSkipped(e) \/ SweepOne(e)
                              \/ Promote(e) \/ Stalled(e) \/ Evict(e) \/ Listener(e)
    BY <1>1, <1>2, <1>3, <1>4, <1>5, <1>6, <1>7, <1>8, <2>3
  <2>4. CASE \E s \in Slots, e \in Events : Take(s, e)
    BY <1>9, <2>4
  <2>5. CASE \E s \in Slots : Work(s)
    BY <1>10, <1>11, <1>12, <1>13, <1>14, <1>15, <1>16, <1>17, <2>5 DEF Work
  <2> QED
    BY <2>1, <2>2, <2>3, <2>4, <2>5 DEF Next
<1> QED
  BY <1>23, MoveIsStep

(* With no live stalls and no failing reads the pipeline delivers what
   OutboxDelivery promises: an event is delivered only after a complete run of
   its handler, and a verdict, delivered or abandoned, is never revised. *)
THEOREM ImplementsDelivery ==
  ASSUME ~LiveStalls, "read" \notin Faults PROVE Spec => DeliverySpec
<1>1. Init => Delivery!Init
  BY DEF Init, Delivery!Init, deliveryState
<1>2. IInv /\ HistoryInv /\ lost = {} /\ FinalInv /\ [Next]_vars
        => [Delivery!Next]_<<deliveryState, ran>>
  BY DeliveryStep
<1> QED
  BY <1>1, <1>2, FinalInvariance, PTL DEF Spec, DeliverySpec, Delivery!Spec
=============================================================================
