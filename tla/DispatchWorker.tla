--------------------------- MODULE DispatchWorker ---------------------------
(***************************************************************************)
(* internal/worker/dispatch_worker.go: the goroutine that takes one job at *)
(* a time from the queue and hands its message to the provider, the timers *)
(* that put a failed attempt back in the queue, and the sweeper that does  *)
(* the same from the table.                                                *)
(*                                                                         *)
(* Each statement, queue command and provider call of handleJob is a step, *)
(* so another goroutine or process, a shutdown or a crash can come between *)
(* any two.  A write that fails may have been applied nevertheless (the    *)
(* answer is lost), and so may a send.  The length of the cadence wait and *)
(* of the retry delay is left out: a wait ends at any moment.              *)
(***************************************************************************)
EXTENDS CampaignStore, JobQueue

CONSTANT MaxAttempts    \* RETRY_MAX_ATTEMPTS

ASSUME WorkerAssumption == MaxAttempts \in Nat

VARIABLES
  worker,       \* of each process: what its handleJob is doing
  timers,       \* of each process: the retry timers running, per message
  swept,        \* of each process: retries claimed by the sweeper, not yet queued
  accepted      \* history: how often the provider took each message

workerVars == <<worker, timers, swept, accepted>>
dispatchVars == <<storeVars, queueVars, workerVars>>

\* The statement or call handleJob executes next.
HandlerPC ==
  {"getMessage", "getCampaign", "requeue", "markProcessing", "count", "apply",
   "cadence", "send", "markSent", "markRetry", "markFailed", "scheduleRetry"}

NoCounts == [s \in MessageStatus |-> 0]

\* next is where handleJob goes on after RecalculateCampaign.
Idle == [pc |-> "pop"]

Handling ==
  [pc: HandlerPC, msg: Messages, attempt: Nat, counts: [MessageStatus -> Nat],
   next: {"pop", "cadence", "scheduleRetry"}]

WorkerTypeOK ==
  /\ worker \in [Procs -> {Idle} \union Handling]
  /\ timers \in [Procs -> [Messages -> Nat]]
  /\ swept \in [Procs -> SUBSET Messages]
  /\ accepted \in [Messages -> Nat]

NoTimers == [m \in Messages |-> 0]

WorkerInit ==
  /\ worker = [p \in Procs |-> Idle]
  /\ timers = [p \in Procs |-> NoTimers]
  /\ swept = [p \in Procs |-> {}]
  /\ accepted = [m \in Messages |-> 0]

------------------------------------------------------------------------------
At(p, pc) == worker[p].pc = pc
Goto(p, pc) == worker' = [worker EXCEPT ![p].pc = pc]
EndJob(p) == worker' = [worker EXCEPT ![p] = Idle]

Recalculate(p, next) ==
  worker' = [worker EXCEPT ![p].pc = "count", ![p].next = next]

\* An update of the row of message m by a statement of process p.
Update(m, row) == messages' = [messages EXCEPT ![m] = row]

------------------------------------------------------------------------------
(* run *)

Pop(p) ==
  /\ Succeeds(p)
  /\ At(p, "pop")
  /\ queue # << >>
  /\ queue' = Tail(queue)
  /\ worker' = [worker EXCEPT ![p] =
       [pc |-> "getMessage", msg |-> Head(queue), attempt |-> 0,
        counts |-> NoCounts, next |-> "pop"]]
  /\ UNCHANGED <<storeVars, phase, timers, swept, accepted>>

\* Redis removed the job and the answer never reached the worker.
PopLost(p) ==
  /\ Fails(p)
  /\ At(p, "pop")
  /\ queue # << >>
  /\ queue' = Tail(queue)
  /\ UNCHANGED <<storeVars, phase, workerVars>>

\* BLPOP waits five seconds and answers with nothing; the loop goes on.
PopTimesOut(p) ==
  /\ phase[p] = "up"
  /\ At(p, "pop")
  /\ queue = << >>
  /\ UNCHANGED dispatchVars

------------------------------------------------------------------------------
(* handleJob *)

\* Mutant: the status of the message is not looked at.
GetMessageUnguarded(p) ==
  /\ Succeeds(p)
  /\ At(p, "getMessage")
  /\ worker' = [worker EXCEPT ![p].pc = "getCampaign",
                  ![p].attempt = messages[worker[p].msg].attempt_count]
  /\ UNCHANGED <<storeVars, queue, phase, timers, swept, accepted>>

\* Mutant: a message attempted before is taken for a duplicate.
GetMessageSkipsAttempted(p) ==
  /\ Succeeds(p)
  /\ At(p, "getMessage")
  /\ IF messages[worker[p].msg].attempt_count > 0
     THEN EndJob(p)
     ELSE Goto(p, "getCampaign")
  /\ UNCHANGED <<storeVars, queue, phase, timers, swept, accepted>>

\* The attempt count the retry decision uses is the one read here.
GetMessage(p) ==
  /\ Succeeds(p)
  /\ At(p, "getMessage")
  /\ LET item == messages[worker[p].msg]
     IN  IF item.status \in Sent
         THEN EndJob(p)
         ELSE worker' = [worker EXCEPT ![p].pc = "getCampaign",
                                       ![p].attempt = item.attempt_count]
  /\ UNCHANGED <<storeVars, queue, phase, timers, swept, accepted>>

\* Mutant: a pause is not looked at.
GetCampaignIgnoresPause(p) ==
  /\ Succeeds(p)
  /\ At(p, "getCampaign")
  /\ IF campaigns[CampaignOf[worker[p].msg]].status = "scheduled"
     THEN EndJob(p)
     ELSE Goto(p, "markProcessing")
  /\ UNCHANGED <<storeVars, queue, phase, timers, swept, accepted>>

\* Mutant: the job of a paused campaign is dropped like that of a scheduled one.
GetCampaignDropsPaused(p) ==
  /\ Succeeds(p)
  /\ At(p, "getCampaign")
  /\ IF campaigns[CampaignOf[worker[p].msg]].status \in {"scheduled", "paused"}
     THEN EndJob(p)
     ELSE Goto(p, "markProcessing")
  /\ UNCHANGED <<storeVars, queue, phase, timers, swept, accepted>>

GetCampaign(p) ==
  /\ Succeeds(p)
  /\ At(p, "getCampaign")
  /\ LET item == campaigns[CampaignOf[worker[p].msg]]
     IN  IF item.status = "scheduled" THEN EndJob(p)
         ELSE IF item.paused \/ item.status = "paused" THEN Goto(p, "requeue")
         ELSE Goto(p, "markProcessing")
  /\ UNCHANGED <<storeVars, queue, phase, timers, swept, accepted>>

\* The job is gone when one of the two reads fails.
ReadFails(p) ==
  /\ Fails(p)
  /\ At(p, "getMessage") \/ At(p, "getCampaign")
  /\ EndJob(p)
  /\ UNCHANGED <<storeVars, queue, phase, timers, swept, accepted>>

RequeuePaused(p) ==
  /\ At(p, "requeue")
  /\ \/ Succeeds(p) /\ Requeue(worker[p].msg)
     \/ Fails(p) /\ (Requeue(worker[p].msg) \/ UNCHANGED queue)
  /\ EndJob(p)
  /\ UNCHANGED <<storeVars, phase, timers, swept, accepted>>

\* Mutant: the error of MarkMessageProcessing is ignored like that of a recalculation.
BeginAttemptIgnoresError(p) ==
  /\ At(p, "markProcessing")
  /\ LET m == worker[p].msg
     IN  \/ Succeeds(p) /\ Update(m, MarkProcessing(messages[m]))
         \/ Fails(p) /\ (Update(m, MarkProcessing(messages[m])) \/ UNCHANGED messages)
  /\ Recalculate(p, "cadence")
  /\ UNCHANGED <<stored, campaigns, lateSends, queue, phase, timers, swept, accepted>>

BeginAttempt(p) ==
  /\ At(p, "markProcessing")
  /\ LET m == worker[p].msg
     IN  \/ /\ Succeeds(p)
            /\ Update(m, MarkProcessing(messages[m]))
            /\ Recalculate(p, "cadence")
         \/ /\ Fails(p)
            /\ Update(m, MarkProcessing(messages[m])) \/ UNCHANGED messages
            /\ EndJob(p)
  /\ UNCHANGED <<stored, campaigns, lateSends, queue, phase, timers, swept, accepted>>

CountForRecalculation(p) ==
  /\ Succeeds(p)
  /\ At(p, "count")
  /\ worker' = [worker EXCEPT ![p].pc = "apply",
                  ![p].counts = CountMessages(CampaignOf[worker[p].msg])]
  /\ UNCHANGED <<storeVars, queue, phase, timers, swept, accepted>>

\* handleJob goes on as worker[p].next says, the counts forgotten.
AfterRecalculation(p) ==
  LET job == worker[p]
  IN  worker' = [worker EXCEPT ![p] =
        IF job.next = "pop" THEN Idle
        ELSE [job EXCEPT !.pc = job.next, !.counts = NoCounts, !.next = "pop"]]

ApplyRecalculation(p) ==
  /\ Succeeds(p) \/ Fails(p)
  /\ At(p, "apply")
  /\ LET c == CampaignOf[worker[p].msg]
     IN  campaigns' = [campaigns EXCEPT ![c] = Recalculated(c, worker[p].counts)]
  /\ AfterRecalculation(p)
  /\ UNCHANGED <<stored, messages, lateSends, queue, phase, timers, swept, accepted>>

\* A failed recalculation is logged and handleJob goes on; one that fails may have
\* been applied (ApplyRecalculation).
RecalculationFails(p) ==
  /\ Fails(p)
  /\ At(p, "count") \/ At(p, "apply")
  /\ AfterRecalculation(p)
  /\ UNCHANGED <<storeVars, queue, phase, timers, swept, accepted>>

\* waitForHumanCadence fails only when the context is cancelled before its timer ends.
WaitForCadence(p) ==
  /\ At(p, "cadence")
  /\ \/ Running(p) /\ Goto(p, "send")
     \/ phase[p] = "stoppingWorker" /\ EndJob(p)
  /\ UNCHANGED <<storeVars, queueVars, timers, swept, accepted>>

\* Mutant: one retry more than configured.
ShouldRetryOnceMore(permanent, attempt) == attempt <= MaxAttempts /\ ~permanent

ShouldRetry(permanent, attempt) == attempt < MaxAttempts /\ ~permanent

\* Mutant: a send that timed out is taken for a success.
SendTextAssumed(p) ==
  /\ Running(p)
  /\ At(p, "send")
  /\ \E taken \in BOOLEAN :
       accepted' = IF taken THEN [accepted EXCEPT ![worker[p].msg] = @ + 1] ELSE accepted
  /\ Goto(p, "markSent")
  /\ UNCHANGED <<storeVars, queueVars, timers, swept>>

\* The provider takes the message (also when the answer is then lost or cannot
\* be decoded) or does not.  Whether the campaign is paused is not read again.
SendText(p) ==
  /\ Running(p)
  /\ At(p, "send")
  /\ LET m == worker[p].msg
         c == CampaignOf[m]
     IN  /\ \E taken \in BOOLEAN, answer \in {"ok", "transient", "permanent"} :
              /\ answer = "ok" => taken /\ phase[p] = "up"
              /\ accepted' = IF taken THEN [accepted EXCEPT ![m] = @ + 1] ELSE accepted
              /\ Goto(p, IF answer = "ok" THEN "markSent"
                         ELSE IF ShouldRetry(answer = "permanent", worker[p].attempt + 1)
                              THEN "markRetry"
                              ELSE "markFailed")
         /\ lateSends' = IF campaigns[c].paused
                         THEN [lateSends EXCEPT ![c] = @ + 1]
                         ELSE lateSends
  /\ UNCHANGED <<stored, messages, campaigns, queueVars, timers, swept>>

RecordSent(p) ==
  /\ At(p, "markSent")
  /\ LET m == worker[p].msg
     IN  \E identified \in BOOLEAN :
           \/ /\ Succeeds(p)
              /\ Update(m, MarkSent(messages[m], identified))
              /\ Recalculate(p, "pop")
           \/ /\ Fails(p)
              /\ Update(m, MarkSent(messages[m], identified)) \/ UNCHANGED messages
              /\ EndJob(p)
  /\ UNCHANGED <<stored, campaigns, lateSends, queue, phase, timers, swept, accepted>>

\* The errors of MarkMessagePendingRetry and MarkMessageFailed are ignored.
RecordRetry(p) ==
  /\ At(p, "markRetry")
  /\ LET m == worker[p].msg
     IN  \/ Succeeds(p) /\ Update(m, MarkPendingRetry(messages[m]))
         \/ Fails(p) /\ (Update(m, MarkPendingRetry(messages[m])) \/ UNCHANGED messages)
  /\ Recalculate(p, "scheduleRetry")
  /\ UNCHANGED <<stored, campaigns, lateSends, queue, phase, timers, swept, accepted>>

\* Mutant: the campaign is not recalculated after a final failure.
RecordFailureOnly(p) ==
  /\ At(p, "markFailed")
  /\ LET m == worker[p].msg
     IN  \/ Succeeds(p) /\ Update(m, MarkFailed(messages[m]))
         \/ Fails(p) /\ (Update(m, MarkFailed(messages[m])) \/ UNCHANGED messages)
  /\ EndJob(p)
  /\ UNCHANGED <<stored, campaigns, lateSends, queue, phase, timers, swept, accepted>>

RecordFailure(p) ==
  /\ At(p, "markFailed")
  /\ LET m == worker[p].msg
     IN  \/ Succeeds(p) /\ Update(m, MarkFailed(messages[m]))
         \/ Fails(p) /\ (Update(m, MarkFailed(messages[m])) \/ UNCHANGED messages)
  /\ Recalculate(p, "pop")
  /\ UNCHANGED <<stored, campaigns, lateSends, queue, phase, timers, swept, accepted>>

ScheduleRetry(p) ==
  /\ Running(p)
  /\ At(p, "scheduleRetry")
  /\ timers' = [timers EXCEPT ![p][worker[p].msg] = @ + 1]
  /\ EndJob(p)
  /\ UNCHANGED <<storeVars, queueVars, swept, accepted>>

HandleJob(p) ==
  \/ GetMessage(p) \/ GetCampaign(p) \/ ReadFails(p) \/ RequeuePaused(p)
  \/ BeginAttempt(p) \/ CountForRecalculation(p) \/ ApplyRecalculation(p)
  \/ RecalculationFails(p) \/ WaitForCadence(p) \/ SendText(p)
  \/ RecordSent(p) \/ RecordRetry(p) \/ RecordFailure(p) \/ ScheduleRetry(p)

------------------------------------------------------------------------------
(* The timers of scheduleRetry and the goroutine runRetrySweeper.          *)

\* Mutant: a timer that ended already fires again.
StopTimerTwice(p, m) ==
  timers' = [timers EXCEPT ![p][m] = @ - 1]

StopTimer(p, m) ==
  /\ timers[p][m] > 0
  /\ timers' = [timers EXCEPT ![p][m] = @ - 1]

\* RPUSH with context.Background(); an error is only logged.
TimerFires(p, m) ==
  /\ Running(p)
  /\ StopTimer(p, m)
  /\ \/ Requeue(m) /\ UNCHANGED faults
     \/ Fault /\ (Requeue(m) \/ UNCHANGED queue)
  /\ UNCHANGED <<storeVars, phase, worker, swept, accepted>>

TimerCancelled(p, m) ==
  /\ phase[p] = "stoppingWorker"
  /\ StopTimer(p, m)
  /\ UNCHANGED <<storeVars, queueVars, worker, swept, accepted>>

\* ClaimDueRetryJobs commits next_retry_at = NULL before anything is queued; the
\* rows found due are any of those that wait for a retry.
ClaimDueRetryJobs(p) ==
  /\ swept[p] = {}
  /\ \E due \in SUBSET {m \in Messages : RetryClaimable(m)} :
       /\ due # {}
       /\ messages' = [m \in Messages |->
                         IF m \in due THEN [messages[m] EXCEPT !.next_retry_at = FALSE]
                         ELSE messages[m]]
       /\ \/ Succeeds(p) /\ swept' = [swept EXCEPT ![p] = due]
          \/ Fails(p) /\ UNCHANGED swept
  /\ UNCHANGED <<stored, campaigns, lateSends, queue, phase, worker, timers, accepted>>

\* RPUSH with context.Background(); an error is only logged.
QueueClaimed(p, m) ==
  /\ Running(p)
  /\ m \in swept[p]
  /\ swept' = [swept EXCEPT ![p] = @ \ {m}]
  /\ \/ Requeue(m) /\ UNCHANGED faults
     \/ Fault /\ (Requeue(m) \/ UNCHANGED queue)
  /\ UNCHANGED <<storeVars, phase, worker, timers, accepted>>

\* The jobs a goroutine of the worker may wait for the answer of RPUSH with: that of a
\* paused campaign, of a timer that fired, or of a retry the sweeper claimed.
WorkerPushes(p) ==
  {<<m>> : m \in {n \in Messages :
    \/ phase[p] = "up" /\ At(p, "requeue") /\ worker[p].msg = n
    \/ Running(p) /\ (timers[p][n] > 0 \/ n \in swept[p])}}

WorkerStep(p) ==
  \/ Pop(p) \/ PopLost(p) \/ PopTimesOut(p) \/ HandleJob(p) \/ ClaimDueRetryJobs(p)
  \/ \E m \in Messages : TimerFires(p, m) \/ TimerCancelled(p, m) \/ QueueClaimed(p, m)

------------------------------------------------------------------------------
\* Stop returns once the three kinds of goroutine have ended.
WorkerStopped(p) ==
  /\ worker[p] = Idle
  /\ swept[p] = {}
  /\ timers[p] = NoTimers

\* What a crash takes with it.
WorkerLost(p) ==
  /\ worker' = [worker EXCEPT ![p] = Idle]
  /\ swept' = [swept EXCEPT ![p] = {}]
  /\ timers' = [timers EXCEPT ![p] = NoTimers]
  /\ UNCHANGED accepted
=============================================================================
