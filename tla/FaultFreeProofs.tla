--------------------------- MODULE FaultFreeProofs ---------------------------
(***************************************************************************)
(* What the service promises as long as nothing fails: no message is lost  *)
(* (OpenMessageHeld) and no campaign stays shown as paused after a resume  *)
(* (PausedMeansPaused), for any number of processes, clients, webhooks,    *)
(* campaigns, messages and attempts; and the counters are true at rest     *)
(* when the worker is alone (CountersSettle).                              *)
(***************************************************************************)
EXTENDS CampaignProofs

------------------------------------------------------------------------------
(* What holds as long as nothing fails *)

\* Without a fault no process is told to stop.
UpWithoutFaults == faults = 0 => \A p \in Procs : phase[p] = "up"

\* A step counts one fault or none.
LEMMA FaultsMove ==
  ASSUME [Next]_vars
  PROVE  UNCHANGED faults \/ Fault
<1>1. ASSUME NEW p \in Procs, WorkerStep(p)
      PROVE  UNCHANGED faults \/ Fault
  BY <1>1
  DEF WorkerStep, HandleJob, Pop, PopLost, PopTimesOut, GetMessage, GetCampaign, ReadFails,
      RequeuePaused, BeginAttempt, CountForRecalculation, ApplyRecalculation,
      RecalculationFails, WaitForCadence, SendText, RecordSent, RecordRetry, RecordFailure,
      ScheduleRetry, TimerFires, TimerCancelled, ClaimDueRetryJobs, QueueClaimed, Succeeds,
      Fails, queueVars, dispatchVars
<1>2. ASSUME NEW k \in Clients, ClientStep(k)
      PROVE  UNCHANGED faults \/ Fault
  BY <1>2
  DEF ClientStep, CreateLooksUp, RescheduleReads, CancelReads, PauseReads, ResumeReads, Begin,
      InsertCampaign, PublishCreated, UpdateSchedule, CancelCampaign, PauseCampaign,
      ResumeCampaign, CountResumed, ApplyResumed, queueVars
<1>3. ASSUME NEW p \in Procs, SchedulerStep(p)
      PROVE  UNCHANGED faults \/ Fault
  BY <1>3
  DEF SchedulerStep, ClaimDueScheduled, PublishReleased, RevertRelease, SchedulerSucceeds,
      SchedulerFails
<1>4. ASSUME NEW t \in Trackers, TrackerStep(t)
      PROVE  UNCHANGED faults \/ Fault
  BY <1>4
  DEF TrackerStep, ReceiveEvent, MarkMessage, CountTouched, ApplyTouched, TrackFails,
      queueVars
<1>5. QED
  BY <1>1, <1>2, <1>3, <1>4
  DEF Next, Worker, Client, Scheduler, Tracker, Stop, StopScheduler, Exit, Crash, Start,
      PushAgain, Resend, vars, dispatchVars, queueVars

\* A step after which nothing has failed is not a fault, and nothing had failed before it.
LEMMA FaultFree ==
  ASSUME TypeOK, [Next]_vars, faults' = 0
  PROVE  faults = 0 /\ ~Fault
BY FaultsMove, QueueAssumption DEF Fault, TypeOK, QueueTypeOK

\* Shutdown and crash are faults, and nothing starts that is not down.
LEMMA UpStep ==
  ASSUME TypeOK, UpWithoutFaults, [Next]_vars
  PROVE  UpWithoutFaults'
<1> SUFFICES ASSUME faults' = 0, NEW p \in Procs
             PROVE  phase'[p] = "up"
  BY DEF UpWithoutFaults
<1>1. faults = 0 /\ ~Fault
  BY FaultFree
<1>2. \A q \in Procs : phase[q] = "up"
  BY <1>1 DEF UpWithoutFaults
<1>3. ASSUME NEW q \in Procs, WorkerStep(q)
      PROVE  UNCHANGED phase
  BY <1>3
  DEF WorkerStep, HandleJob, Pop, PopLost, PopTimesOut, GetMessage, GetCampaign, ReadFails,
      RequeuePaused, BeginAttempt, CountForRecalculation, ApplyRecalculation,
      RecalculationFails, WaitForCadence, SendText, RecordSent, RecordRetry, RecordFailure,
      ScheduleRetry, TimerFires, TimerCancelled, ClaimDueRetryJobs, QueueClaimed, queueVars,
      dispatchVars
<1>4. ASSUME NEW k \in Clients, ClientStep(k)
      PROVE  UNCHANGED phase
  BY <1>4
  DEF ClientStep, CreateLooksUp, RescheduleReads, CancelReads, PauseReads, ResumeReads, Begin,
      InsertCampaign, PublishCreated, UpdateSchedule, CancelCampaign, PauseCampaign,
      ResumeCampaign, CountResumed, ApplyResumed, queueVars
<1>5. ASSUME NEW q \in Procs, SchedulerStep(q)
      PROVE  UNCHANGED phase
  BY <1>5 DEF SchedulerStep, ClaimDueScheduled, PublishReleased, RevertRelease
<1>6. ASSUME NEW t \in Trackers, TrackerStep(t)
      PROVE  UNCHANGED phase
  BY <1>6
  DEF TrackerStep, ReceiveEvent, MarkMessage, CountTouched, ApplyTouched, TrackFails,
      queueVars
<1>7. /\ ~PushAgain
      /\ \A q \in Procs : ~(Stop(q) \/ StopScheduler(q) \/ Exit(q) \/ Crash(q) \/ Start(q))
  BY <1>1, <1>2 DEF Stop, StopScheduler, Exit, Crash, Start, PushAgain, Resend, Enter
<1>8. UNCHANGED phase
  BY <1>3, <1>4, <1>5, <1>6, <1>7
  DEF Next, Worker, Client, Scheduler, Tracker, vars, dispatchVars, queueVars
<1>9. QED BY <1>2, <1>8

------------------------------------------------------------------------------
(* PausedMeansPaused *)

\* The counts are those of all the messages of the campaign.
CountsTotal(c, n) ==
  n["pending"] + (n["processing"] + (n["failed"] + (n["sent"] + (n["delivered"] + n["read"]))))
    = Cardinality(MessagesOf(c))

HeldTotal ==
  \A c \in Campaigns, n \in [MessageStatus -> Nat] : CountsHeld(c, n) => CountsTotal(c, n)

\* Every message has one of the six statuses RecalculateCampaign counts.
LEMMA CountingIsTotal ==
  ASSUME TypeOK, NEW c
  PROVE  CountsTotal(c, CountMessages(c))
<1> DEFINE With(s) == {m \in MessagesOf(c) : messages[m].status = s}
           P == With("pending")
           X == With("processing")
           F == With("failed")
           S == With("sent")
           D == With("delivered")
           R == With("read")
<1>1. /\ CountMessages(c)["pending"] = Cardinality(P)
      /\ CountMessages(c)["processing"] = Cardinality(X)
      /\ CountMessages(c)["failed"] = Cardinality(F)
      /\ CountMessages(c)["sent"] = Cardinality(S)
      /\ CountMessages(c)["delivered"] = Cardinality(D)
      /\ CountMessages(c)["read"] = Cardinality(R)
  BY DEF CountMessages, MessageStatus, Sent
<1>2. /\ P \in SUBSET Messages /\ X \in SUBSET Messages /\ F \in SUBSET Messages
      /\ S \in SUBSET Messages /\ D \in SUBSET Messages /\ R \in SUBSET Messages
  BY DEF MessagesOf
<1>3. MessagesOf(c) = P \union (X \union (F \union (S \union (D \union R))))
  <2>1. \A m \in MessagesOf(c) :
          messages[m].status \in
            {"pending", "processing", "failed", "sent", "delivered", "read"}
    BY DEF TypeOK, StoreTypeOK, MessageRow, MessageStatus, Sent, MessagesOf
  <2>2. QED BY <2>1
<1>4. /\ D \intersect R = {}
      /\ S \intersect (D \union R) = {}
      /\ F \intersect (S \union (D \union R)) = {}
      /\ X \intersect (F \union (S \union (D \union R))) = {}
      /\ P \intersect (X \union (F \union (S \union (D \union R)))) = {}
  OBVIOUS
<1> HIDE DEF P, X, F, S, D, R
<1>5. Cardinality(D \union R) = Cardinality(D) + Cardinality(R)
  BY <1>2, <1>4, DisjointUnion
<1>6. Cardinality(S \union (D \union R)) = Cardinality(S) + Cardinality(D \union R)
  BY <1>2, <1>4, DisjointUnion
<1>7. Cardinality(F \union (S \union (D \union R)))
        = Cardinality(F) + Cardinality(S \union (D \union R))
  BY <1>2, <1>4, DisjointUnion
<1>8. Cardinality(X \union (F \union (S \union (D \union R))))
        = Cardinality(X) + Cardinality(F \union (S \union (D \union R)))
  BY <1>2, <1>4, DisjointUnion
<1>9. Cardinality(P \union (X \union (F \union (S \union (D \union R)))))
        = Cardinality(P) + Cardinality(X \union (F \union (S \union (D \union R))))
  BY <1>2, <1>4, DisjointUnion
<1>10. QED BY <1>1, <1>3, <1>5, <1>6, <1>7, <1>8, <1>9 DEF CountsTotal

\* The last branch of RecalculateCampaign, which keeps the status as it is, is never taken
\* with counts of all messages: a campaign that is not paused is not left as "paused".
LEMMA RecalculationUnpauses ==
  ASSUME NEW c, NEW row \in CampaignRow, ~row.paused,
         NEW n \in [MessageStatus -> Nat], CountsTotal(c, n)
  PROVE  RecalculatedStatus(row, n, Cardinality(MessagesOf(c))) # "paused"
<1> DEFINE total == Cardinality(MessagesOf(c))
<1>1. /\ n["pending"] \in Nat /\ n["processing"] \in Nat /\ n["failed"] \in Nat
      /\ n["sent"] \in Nat /\ n["delivered"] \in Nat /\ n["read"] \in Nat
  BY DEF MessageStatus, Sent
<1>2. n["pending"] + (n["processing"] + (n["failed"] + (n["sent"] + (n["delivered"] + n["read"]))))
        = total
  BY DEF CountsTotal
<1> HIDE DEF total
<1>3. ASSUME n["processing"] = 0, n["pending"] = 0, n["failed"] # total,
             n["sent"] + (n["delivered"] + n["read"]) # total
      PROVE  n["sent"] + (n["delivered"] + n["read"]) > 0 /\ n["failed"] > 0
  BY <1>1, <1>2, <1>3
<1>4. QED BY <1>1, <1>3 DEF RecalculatedStatus, total

\* A resume request that has cleared the flag goes on to recalculate the campaign, unless
\* something fails.
LEMMA ResumeWaits ==
  ASSUME TypeOK, [Next]_vars, ~Fault, UpWithoutFaults, faults = 0,
         NEW c \in Campaigns, NEW k \in Clients,
         request[k].pc \in {"count", "apply"}, request[k].camp = c
  PROVE  \/ request'[k].pc \in {"count", "apply"} /\ request'[k].camp = c
         \/ request[k].pc = "apply" /\ campaigns'[c] = Recalculated(c, request[k].counts)
<1>1. request[k] \in RequestState /\ request \in [Clients -> {NoRequest} \union RequestState]
  BY RequestSteps DEF TypeOK, ServiceTypeOK
<1>2. CASE request'[k] = request[k]
  BY <1>2
<1>3. ASSUME NEW j \in Clients, ClientStep(j), j # k
      PROVE  request'[k] = request[k]
  BY <1>1, <1>3
  DEF ClientStep, CreateLooksUp, RescheduleReads, CancelReads, PauseReads, ResumeReads, Begin,
      InsertCampaign, PublishCreated, UpdateSchedule, CancelCampaign, PauseCampaign,
      ResumeCampaign, CountResumed, ApplyResumed, EndRequest, Then
<1>4. ASSUME ClientStep(k)
      PROVE  CountResumed(k) \/ ApplyResumed(k)
  BY <1>4
  DEF ClientStep, CreateLooksUp, RescheduleReads, CancelReads, PauseReads, ResumeReads, Begin,
      InsertCampaign, PublishCreated, UpdateSchedule, CancelCampaign, PauseCampaign,
      ResumeCampaign, Doing
<1>5. CASE CountResumed(k)
  <2>1. request'[k] = [request[k] EXCEPT !.pc = "apply", !.counts = CountMessages(request[k].camp)]
    BY <1>1, <1>5 DEF CountResumed
  <2>2. QED BY <1>1, <2>1 DEF RequestState
<1>6. CASE ApplyResumed(k)
  BY <1>6 DEF ApplyResumed, Doing, UpdateCampaign, TypeOK, StoreTypeOK
<1>7. CASE \A j \in Clients : ~Client(j)
  <2>1. \A p \in Procs : phase[p] = "up"
    BY DEF UpWithoutFaults
  <2>2. request' = request
    BY <1>7, <2>1
    DEF Next, Worker, Scheduler, SchedulerStep, ClaimDueScheduled, PublishReleased,
        RevertRelease, Tracker, Stop, StopScheduler, Exit, Crash, Start, PushAgain, Enter, vars,
        serviceVars
  <2>3. QED BY <2>2
<1>8. QED BY <1>2, <1>3, <1>4, <1>5, <1>6, <1>7 DEF Client

\* No step leaves the status "paused" behind without the flag, but a resume that goes on.
LEMMA PausedStep ==
  ASSUME TypeOK, UpWithoutFaults, HeldTotal, PausedMeansPaused, [Next]_vars
  PROVE  PausedMeansPaused'
<1> DEFINE Resuming(k, c) == request[k].pc \in {"count", "apply"} /\ request[k].camp = c
<1> SUFFICES ASSUME faults' = 0, NEW c \in Campaigns,
                    campaigns'[c].status = "paused", ~campaigns'[c].paused
             PROVE  \E k \in Clients : Resuming(k, c)'
  BY DEF PausedMeansPaused
<1>1. faults = 0 /\ ~Fault
  BY FaultFree
<1>2. campaigns[c] \in CampaignRow
  BY DEF TypeOK, StoreTypeOK
<1>3. ASSUME NEW n \in [MessageStatus -> Nat], CountsHeld(c, n), campaigns'[c] = Recalculated(c, n)
      PROVE  FALSE
  <2>1. /\ campaigns'[c].paused = campaigns[c].paused
        /\ campaigns'[c].status
             = RecalculatedStatus(campaigns[c], n, Cardinality(MessagesOf(c)))
    BY <1>2, <1>3 DEF Recalculated, CampaignRow
  <2>2. CountsTotal(c, n)
    BY <1>3 DEF HeldTotal
  <2>3. QED BY <1>2, <2>1, <2>2, RecalculationUnpauses
<1>4. CASE \E k \in Clients : Resuming(k, c)
  <2>1. PICK k \in Clients : Resuming(k, c)
    BY <1>4
  <2>2. request[k].counts \in [MessageStatus -> Nat]
    BY <2>1, RequestSteps DEF TypeOK, RequestState
  <2>3. request[k].pc = "apply" => CountsHeld(c, request[k].counts)
    BY <2>1 DEF CountsHeld
  <2>4. QED BY <1>1, <1>3, <2>1, <2>2, <2>3, ResumeWaits
<1>5. CASE ~\E k \in Clients : Resuming(k, c)
  <2>1. campaigns[c].status = "paused" => campaigns[c].paused
    BY <1>1, <1>5 DEF PausedMeansPaused
  <2>2. ASSUME NEW mode \in {"now", "scheduled"}, campaigns'[c] = NewCampaign(c, mode)
        PROVE  FALSE
    BY <2>2 DEF NewCampaign
  <2>3. ASSUME \/ campaigns'[c] = PausedSet(campaigns[c], TRUE)
               \/ campaigns'[c] = Rescheduled(campaigns[c])
               \/ campaigns'[c] = Cancelled(campaigns[c])
               \/ campaigns'[c] = Released(campaigns[c])
               \/ campaigns'[c] = ReleaseReverted(campaigns[c])
        PROVE  FALSE
    BY <1>2, <2>1, <2>3
    DEF PausedSet, Rescheduled, Cancelled, Released, ReleaseReverted, CampaignRow
  <2>4. QED
    BY <1>1, <1>3, <2>1, <2>2, <2>3, CampaignChanges DEF CampaignChange
<1>6. QED BY <1>4, <1>5

\* As long as nothing fails a campaign shown as paused is paused, or a resume request is
\* about to recalculate it: for any processes, clients, webhooks and interleavings.
THEOREM PausedTheorem == Spec => []PausedMeansPaused
<1>1. Init => UpWithoutFaults /\ HeldTotal /\ PausedMeansPaused
  <2> SUFFICES ASSUME Init PROVE UpWithoutFaults /\ HeldTotal /\ PausedMeansPaused
    OBVIOUS
  <2>1. /\ \A p \in Procs : worker[p].pc = "pop"
        /\ \A k \in Clients : request[k].pc = "idle"
        /\ \A t \in Trackers : tracker[t].pc = "idle"
    BY DEF Init, WorkerInit, Idle, ServiceInit, NoRequest, TrackerInit, NoEvent
  <2>2. HeldTotal
    BY <2>1 DEF HeldTotal, CountsHeld
  <2>3. PausedMeansPaused
    BY DEF Init, NewCampaign, PausedMeansPaused
  <2>4. QED BY <2>2, <2>3 DEF Init, UpWithoutFaults
<1>2. TypeOK /\ HeldTotal /\ [Next]_vars => HeldTotal'
  <2> SUFFICES ASSUME TypeOK, HeldTotal, [Next]_vars,
                      NEW c \in Campaigns, NEW n \in [MessageStatus -> Nat], CountsHeld(c, n)'
               PROVE  CountsTotal(c, n)'
    BY DEF HeldTotal
  <2>1. CountsTotal(c, n)
    BY CountsHeldStep, CountingIsTotal DEF HeldTotal
  <2>2. QED BY <2>1 DEF CountsTotal, MessagesOf
<1>3. TypeOK /\ UpWithoutFaults /\ HeldTotal /\ PausedMeansPaused /\ [Next]_vars
        => UpWithoutFaults' /\ PausedMeansPaused'
  BY UpStep, PausedStep
<1>4. QED BY <1>1, <1>2, <1>3, TypeCorrect, PTL DEF Spec

------------------------------------------------------------------------------
(* OpenMessageHeld *)

InQueue(m) == \E i \in DOMAIN queue : queue[i] = m

\* handleJob of p has the message and is not done with it.
Working(p, m) ==
  /\ worker[p].pc # "pop"
  /\ worker[p].msg = m
  /\ worker[p].pc \in {"count", "apply"} => worker[p].next # "pop"

\* Some goroutine or the queue will still bring the message to handleJob; unlike with
\* HasJob, a worker that only has to recalculate the campaign does not count.
Held(m) ==
  \/ InQueue(m)
  \/ \E p \in Procs : Working(p, m) \/ timers[p][m] > 0 \/ m \in swept[p]

Kept(m) ==
  \/ Settled(m) \/ messages[m].next_retry_at
  \/ Held(m)
  \/ campaigns[CampaignOf[m]].cancelled_at \/ AwaitsPublication(CampaignOf[m])

\* Without a fault no release is reverted.
NoReverts == \A p \in Procs : release[p].revert = {}

KeptInv == faults = 0 => NoReverts /\ \A m \in Messages : Kept(m)

\* Nothing has failed before the step, and the step is no failure.
Smooth ==
  /\ TypeOK
  /\ ~Fault
  /\ \A p \in Procs : phase[p] = "up"

\* Then no call fails, none is sent again, and no process stops.
LEMMA NothingFails ==
  ASSUME Smooth
  PROVE  /\ ~PushAgain
         /\ \A p \in Procs :
              /\ ~Fails(p) /\ ~SchedulerFails(p)
              /\ ~(Stop(p) \/ StopScheduler(p) \/ Exit(p) \/ Crash(p) \/ Start(p))
BY DEF Smooth, Fails, SchedulerFails, Stop, StopScheduler, Exit, Crash, Start, PushAgain,
       Resend, Enter

\* Publishing puts every message of the campaign in the queue, and keeps what is there.
LEMMA PublishedInQueue ==
  ASSUME TypeOK, NEW S \in SUBSET Messages, NEW jobs \in Orderings(S), Publish(jobs)
  PROVE  /\ \A m \in S : InQueue(m)'
         /\ \A m \in Messages : InQueue(m) => InQueue(m)'
<1>1. queue \in Seq(Messages) /\ jobs \in Seq(Messages)
  BY OrderingsType DEF TypeOK, QueueTypeOK
<1>2. queue' = queue \o jobs
  BY DEF Publish
<1>3. \A i \in 1 .. Len(queue) : i \in DOMAIN queue' /\ queue'[i] = queue[i]
  BY <1>1, <1>2
<1>4. \A i \in 1 .. Len(jobs) : Len(queue) + i \in DOMAIN queue' /\ queue'[Len(queue) + i] = jobs[i]
  BY <1>1, <1>2
<1>5. \A m \in S : \E i \in 1 .. Len(jobs) : jobs[i] = m
  <2>1. \A m \in S : \E i \in DOMAIN jobs : jobs[i] = m
    BY DEF Orderings
  <2>2. DOMAIN jobs = 1 .. Len(jobs)
    BY <1>1
  <2>3. QED BY <2>1, <2>2
<1>6. \A m \in Messages : InQueue(m) => \E i \in 1 .. Len(queue) : queue[i] = m
  BY <1>1 DEF InQueue
<1>7. QED BY <1>3, <1>4, <1>5, <1>6 DEF InQueue

\* Putting a job back does the same for its message.
LEMMA RequeuedInQueue ==
  ASSUME TypeOK, NEW n \in Messages, Requeue(n)
  PROVE  /\ InQueue(n)'
         /\ \A m \in Messages : InQueue(m) => InQueue(m)'
<1>1. queue \in Seq(Messages)
  BY DEF TypeOK, QueueTypeOK
<1>2. queue' = Append(queue, n)
  BY DEF Requeue
<1>3. \A i \in 1 .. Len(queue) : i \in DOMAIN queue' /\ queue'[i] = queue[i]
  BY <1>1, <1>2
<1>4. Len(queue) + 1 \in DOMAIN queue' /\ queue'[Len(queue) + 1] = n
  BY <1>1, <1>2
<1>5. QED BY <1>1, <1>3, <1>4 DEF InQueue

\* A job leaves the queue only for the worker that popped it.
LEMMA QueueStep ==
  ASSUME Smooth, [Next]_vars, NEW m \in Messages, InQueue(m)
  PROVE  Held(m)'
<1>1. queue \in Seq(Messages) /\ worker \in [Procs -> {Idle} \union Handling]
  BY DEF Smooth, TypeOK, QueueTypeOK, WorkerTypeOK
<1>2. CASE UNCHANGED queue
  BY <1>2 DEF InQueue, Held
<1>3. ASSUME NEW p \in Procs, Pop(p)
      PROVE  Held(m)'
  <2>1. PICK i \in 1 .. Len(queue) : queue[i] = m
    BY <1>1 DEF InQueue
  <2>2. queue # << >> /\ queue' = Tail(queue)
    BY <1>3 DEF Pop
  <2>3. CASE i = 1
    <3>1. worker'[p] = [pc |-> "getMessage", msg |-> m, attempt |-> 0,
                        counts |-> NoCounts, next |-> "pop"]
      BY <1>1, <1>3, <2>1, <2>3 DEF Pop
    <3>2. QED BY <3>1 DEF Working, Held
  <2>4. CASE i > 1
    <3>1. i - 1 \in DOMAIN queue' /\ queue'[i - 1] = m
      BY <1>1, <2>1, <2>2, <2>4
    <3>2. QED BY <3>1 DEF InQueue, Held
  <2>5. QED BY <2>1, <2>3, <2>4
<1>4. ASSUME NEW n \in Messages, Requeue(n)
      PROVE  Held(m)'
  BY <1>4, RequeuedInQueue DEF Held, Smooth
<1>5. ASSUME NEW c, NEW jobs \in Orderings(MessagesOf(c)), Publish(jobs)
      PROVE  Held(m)'
  BY <1>5, PublishedInQueue DEF Held, Smooth, MessagesOf
<1>6. ASSUME NEW p \in Procs, WorkerStep(p), ~Pop(p)
      PROVE  UNCHANGED queue \/ \E n \in Messages : Requeue(n)
  <2>1. worker[p].pc = "requeue" => worker[p].msg \in Messages
    BY <1>1 DEF Handling, Idle
  <2>2. QED
    BY <1>6, <2>1, NothingFails
    DEF WorkerStep, HandleJob, PopLost, PopTimesOut, GetMessage, GetCampaign, ReadFails,
        RequeuePaused, BeginAttempt, CountForRecalculation, ApplyRecalculation,
        RecalculationFails, WaitForCadence, SendText, RecordSent, RecordRetry,
        RecordFailure, ScheduleRetry, TimerFires, TimerCancelled, ClaimDueRetryJobs,
        QueueClaimed, At, queueVars, dispatchVars
<1>7. ASSUME NEW k \in Clients, ClientStep(k)
      PROVE  UNCHANGED queue \/ \E c \in Campaigns : \E jobs \in Orderings(MessagesOf(c)) : Publish(jobs)
  <2>1. request[k].pc = "publish" => request[k].camp \in Campaigns
    BY RequestSteps DEF Smooth, TypeOK, RequestState
  <2>2. QED
    BY <1>7, <2>1
    DEF ClientStep, CreateLooksUp, RescheduleReads, CancelReads, PauseReads, ResumeReads,
        Begin, InsertCampaign, PublishCreated, UpdateSchedule, CancelCampaign, PauseCampaign,
        ResumeCampaign, CountResumed, ApplyResumed, Doing, queueVars
<1>8. ASSUME NEW p \in Procs, SchedulerStep(p)
      PROVE  UNCHANGED queue \/ \E c \in Campaigns : \E jobs \in Orderings(MessagesOf(c)) : Publish(jobs)
  BY <1>8 DEF SchedulerStep, ClaimDueScheduled, PublishReleased, RevertRelease
<1>9. ASSUME NEW t \in Trackers, TrackerStep(t)
      PROVE  UNCHANGED queue
  BY <1>9
  DEF TrackerStep, ReceiveEvent, MarkMessage, CountTouched, ApplyTouched, TrackFails,
      queueVars
<1>10. QED
  BY <1>2, <1>3, <1>4, <1>5, <1>6, <1>7, <1>8, <1>9, NothingFails
  DEF Next, Worker, Client, Scheduler, Tracker, vars, dispatchVars, queueVars

\* A step of one worker leaves the timers and the claims of the others alone.
LEMMA OtherHolders ==
  ASSUME TypeOK, NEW p \in Procs, WorkerStep(p), NEW q \in Procs, q # p
  PROVE  timers'[q] = timers[q] /\ swept'[q] = swept[q]
BY DEF TypeOK, WorkerTypeOK, WorkerStep, HandleJob, Pop, PopLost, PopTimesOut, GetMessage,
       GetCampaign, ReadFails, RequeuePaused, BeginAttempt, CountForRecalculation,
       ApplyRecalculation, RecalculationFails, WaitForCadence, SendText, RecordSent,
       RecordRetry, RecordFailure, ScheduleRetry, TimerFires, TimerCancelled, StopTimer,
       ClaimDueRetryJobs, QueueClaimed, dispatchVars, workerVars

\* Without a fault only its own worker changes what a process holds.
LEMMA HoldersStep ==
  ASSUME Smooth, [Next]_vars, NEW p \in Procs, ~WorkerStep(p)
  PROVE  worker'[p] = worker[p] /\ timers'[p] = timers[p] /\ swept'[p] = swept[p]
<1>1. ASSUME NEW q \in Procs, Worker(q)
      PROVE  worker'[p] = worker[p] /\ timers'[p] = timers[p] /\ swept'[p] = swept[p]
  BY <1>1, OtherWorkers, OtherHolders DEF Worker, Smooth
<1>2. ASSUME ~\E q \in Procs : Worker(q)
      PROVE  UNCHANGED workerVars
  BY <1>2, NothingFails
  DEF Next, Client, Scheduler, Tracker, vars, dispatchVars
<1>3. QED BY <1>1, <1>2 DEF workerVars

\* A retry timer that ends puts the job back.
LEMMA TimerStep ==
  ASSUME Smooth, [Next]_vars, NEW m \in Messages, NEW p \in Procs, timers[p][m] > 0
  PROVE  Held(m)'
<1>1. timers \in [Procs -> [Messages -> Nat]] /\ worker \in [Procs -> {Idle} \union Handling]
  BY DEF Smooth, TypeOK, WorkerTypeOK
<1>2. CASE timers'[p][m] > 0
  BY <1>2 DEF Held
<1>3. CASE ~WorkerStep(p)
  BY <1>2, <1>3, HoldersStep
<1>4. CASE UNCHANGED timers
  BY <1>2, <1>4
<1>5. CASE ScheduleRetry(p)
  <2>1. worker[p].msg \in Messages
    BY <1>1, <1>5 DEF ScheduleRetry, At, Handling, Idle
  <2>2. timers'[p][m] \in {timers[p][m], timers[p][m] + 1}
    BY <1>1, <1>5, <2>1 DEF ScheduleRetry
  <2>3. timers[p][m] \in Nat
    BY <1>1
  <2>4. QED BY <1>2, <2>2, <2>3
<1>6. ASSUME NEW n \in Messages, TimerFires(p, n)
      PROVE  Held(m)'
  <2>1. n = m => Held(m)'
    BY <1>6, RequeuedInQueue DEF TimerFires, Held, Smooth
  <2>2. n # m => timers'[p][m] = timers[p][m]
    BY <1>1, <1>6 DEF TimerFires, StopTimer
  <2>3. QED BY <1>2, <2>1, <2>2
<1>7. ~\E n \in Messages : TimerCancelled(p, n)
  BY DEF TimerCancelled, Smooth
<1>8. QED
  BY <1>3, <1>4, <1>5, <1>6, <1>7
  DEF WorkerStep, HandleJob, Pop, PopLost, PopTimesOut, GetMessage, GetCampaign, ReadFails,
      RequeuePaused, BeginAttempt, CountForRecalculation, ApplyRecalculation,
      RecalculationFails, WaitForCadence, SendText, RecordSent, RecordRetry, RecordFailure,
      ClaimDueRetryJobs, QueueClaimed, dispatchVars, workerVars

\* The sweeper queues what it has claimed.
LEMMA SweptStep ==
  ASSUME Smooth, [Next]_vars, NEW m \in Messages, NEW p \in Procs, m \in swept[p]
  PROVE  Held(m)'
<1>1. swept \in [Procs -> SUBSET Messages]
  BY DEF Smooth, TypeOK, WorkerTypeOK
<1>2. CASE m \in swept'[p]
  BY <1>2 DEF Held
<1>3. CASE ~WorkerStep(p)
  BY <1>2, <1>3, HoldersStep
<1>4. CASE UNCHANGED swept
  BY <1>2, <1>4
<1>5. ASSUME NEW n \in Messages, QueueClaimed(p, n)
      PROVE  Held(m)'
  <2>1. n = m => Held(m)'
    BY <1>5, RequeuedInQueue DEF QueueClaimed, Held, Smooth
  <2>2. n # m => m \in swept'[p]
    BY <1>1, <1>5 DEF QueueClaimed
  <2>3. QED BY <1>2, <2>1, <2>2
<1>6. ~ClaimDueRetryJobs(p)
  BY DEF ClaimDueRetryJobs
<1>7. QED
  BY <1>3, <1>4, <1>5, <1>6
  DEF WorkerStep, HandleJob, Pop, PopLost, PopTimesOut, GetMessage, GetCampaign, ReadFails,
      RequeuePaused, BeginAttempt, CountForRecalculation, ApplyRecalculation,
      RecalculationFails, WaitForCadence, SendText, RecordSent, RecordRetry, RecordFailure,
      ScheduleRetry, TimerFires, TimerCancelled, dispatchVars, workerVars

\* handleJob brings the message on, records how it ended, or hands it to the queue, a timer,
\* the table or a release still to come.
LEMMA WorkingStep ==
  ASSUME Smooth, ScheduledNotReleased, [Next]_vars,
         NEW m \in Messages, NEW p \in Procs, Working(p, m)
  PROVE  Kept(m)'
<1> USE DEF At, Goto, EndJob
<1>1. /\ worker \in [Procs -> {Idle} \union Handling]
      /\ messages \in [Messages -> MessageRow]
      /\ timers \in [Procs -> [Messages -> Nat]]
  BY DEF Smooth, TypeOK, WorkerTypeOK, StoreTypeOK
<1>2. worker[p] \in Handling /\ worker[p].msg = m
  BY <1>1 DEF Working, Idle
<1>3. worker[p].pc \in {"count", "apply"} => worker[p].next \in {"cadence", "scheduleRetry"}
  BY <1>2 DEF Working, Handling
<1>4. Working(p, m)' => Kept(m)'
  BY DEF Kept, Held
<1>5. CASE ~WorkerStep(p)
  <2>1. worker'[p] = worker[p]
    BY <1>5, HoldersStep
  <2>2. QED BY <1>4, <2>1 DEF Working
<1>6. CASE UNCHANGED worker
  BY <1>4, <1>6 DEF Working
<1>7. ASSUME NEW pc \in HandlerPC \ {"count", "apply"}, worker'[p].pc = pc,
             worker'[p].msg = m
      PROVE  Kept(m)'
  <2>1. pc # "pop"
    BY DEF HandlerPC
  <2>2. QED BY <1>4, <1>7, <2>1 DEF Working
<1>8. ASSUME NEW pc \in HandlerPC \ {"count", "apply"}, Goto(p, pc)
      PROVE  Kept(m)'
  <2>1. worker'[p] = [worker[p] EXCEPT !.pc = pc]
    BY <1>1, <1>8
  <2>2. QED BY <1>2, <1>7, <2>1 DEF Handling
<1>9. ASSUME NEW next \in {"cadence", "scheduleRetry"}, Recalculate(p, next)
      PROVE  Kept(m)'
  <2>1. worker'[p] = [worker[p] EXCEPT !.pc = "count", !.next = next]
    BY <1>1, <1>9 DEF Recalculate
  <2>2. worker'[p].pc = "count" /\ worker'[p].msg = m /\ worker'[p].next = next
    BY <1>2, <2>1 DEF Handling
  <2>3. QED BY <1>4, <2>2 DEF Working
<1>10. ASSUME NEW row, Update(m, row), row.status \in Sent \union {"failed"}
       PROVE  Kept(m)'
  BY <1>1, <1>10 DEF Update, Kept, Settled
<1>11. CASE GetMessage(p)
  <2>1. CASE messages[m].status \in Sent
    BY <1>2, <1>11, <2>1 DEF GetMessage, storeVars, Kept, Settled
  <2>2. CASE messages[m].status \notin Sent
    <3>1. worker'[p] = [worker[p] EXCEPT !.pc = "getCampaign",
                          !.attempt = messages[m].attempt_count]
      BY <1>1, <1>2, <1>11, <2>2 DEF GetMessage
    <3>2. worker'[p].pc = "getCampaign" /\ worker'[p].msg = m
      BY <1>2, <3>1 DEF Handling
    <3>3. QED BY <1>7, <3>2 DEF HandlerPC
  <2>3. QED BY <2>1, <2>2
<1>12. CASE GetCampaign(p)
  <2>1. CASE campaigns[CampaignOf[m]].status = "scheduled"
    <3>1. CampaignOf[m] \in Campaigns
      BY StoreAssumption
    <3>2. AwaitsPublication(CampaignOf[m])'
      BY <1>12, <2>1, <3>1
      DEF GetCampaign, storeVars, ScheduledNotReleased, AwaitsPublication
    <3>3. QED BY <3>2 DEF Kept
  <2>2. CASE campaigns[CampaignOf[m]].status # "scheduled"
    BY <1>2, <1>8, <1>12, <2>2 DEF GetCampaign, HandlerPC
  <2>3. QED BY <2>1, <2>2
<1>13. CASE RequeuePaused(p)
  BY <1>2, <1>13, NothingFails, RequeuedInQueue DEF RequeuePaused, Kept, Held, Smooth
<1>14. CASE BeginAttempt(p)
  BY <1>9, <1>14, NothingFails DEF BeginAttempt
<1>15. CASE CountForRecalculation(p)
  <2>1. worker'[p] = [worker[p] EXCEPT !.pc = "apply",
                        !.counts = CountMessages(CampaignOf[worker[p].msg])]
    BY <1>1, <1>15 DEF CountForRecalculation
  <2>2. worker'[p].pc = "apply" /\ worker'[p].msg = m /\ worker'[p].next = worker[p].next
    BY <1>2, <2>1 DEF Handling
  <2>3. QED BY <1>3, <1>4, <1>15, <2>2 DEF Working, CountForRecalculation
<1>16. CASE ApplyRecalculation(p)
  <2>1. worker[p].next \in {"cadence", "scheduleRetry"}
    BY <1>3, <1>16 DEF ApplyRecalculation
  <2>2. worker'[p] = [worker[p] EXCEPT !.pc = worker[p].next, !.counts = NoCounts,
                        !.next = "pop"]
    BY <1>1, <1>16, <2>1 DEF ApplyRecalculation, AfterRecalculation
  <2>3. worker'[p].pc = worker[p].next /\ worker'[p].msg = m
    BY <1>2, <2>2 DEF Handling
  <2>4. QED BY <1>7, <2>1, <2>3 DEF HandlerPC
<1>17. CASE WaitForCadence(p)
  BY <1>8, <1>17 DEF WaitForCadence, Smooth, HandlerPC
<1>18. CASE SendText(p)
  <2>1. PICK pc \in {"markSent", "markRetry", "markFailed"} : Goto(p, pc)
    BY <1>18 DEF SendText
  <2>2. QED BY <1>8, <2>1 DEF HandlerPC
<1>19. CASE RecordSent(p)
  <2>1. PICK identified \in BOOLEAN : Update(m, MarkSent(messages[m], identified))
    BY <1>2, <1>19, NothingFails DEF RecordSent
  <2>2. MarkSent(messages[m], identified).status = "sent"
    BY <1>1 DEF MarkSent, MessageRow
  <2>3. QED BY <1>10, <2>1, <2>2 DEF Sent
<1>20. CASE RecordRetry(p)
  BY <1>9, <1>20 DEF RecordRetry
<1>21. CASE RecordFailure(p)
  <2>1. Update(m, MarkFailed(messages[m]))
    BY <1>2, <1>21, NothingFails DEF RecordFailure
  <2>2. MarkFailed(messages[m]).status = "failed"
    BY <1>1 DEF MarkFailed, MessageRow
  <2>3. QED BY <1>10, <2>1, <2>2
<1>22. CASE ScheduleRetry(p)
  <2>1. timers'[p][m] = timers[p][m] + 1 /\ timers[p][m] \in Nat
    BY <1>1, <1>2, <1>22 DEF ScheduleRetry
  <2>2. QED BY <2>1 DEF Kept, Held
<1>23. CASE Pop(p)
  BY <1>23 DEF Pop, Working
<1>24. QED
  BY <1>5, <1>6, <1>11, <1>12, <1>13, <1>14, <1>15, <1>16, <1>17, <1>18, <1>19, <1>20,
     <1>21, <1>22, <1>23, NothingFails
  DEF WorkerStep, HandleJob, PopLost, PopTimesOut, ReadFails, RecalculationFails, TimerFires,
      TimerCancelled, ClaimDueRetryJobs, QueueClaimed, dispatchVars, workerVars

\* A message that has ended, or waits in the table, leaves that state only for a worker or for
\* the sweeper that takes it.
LEMMA RowStep ==
  ASSUME Smooth, [Next]_vars, NEW m \in Messages,
         Settled(m) \/ messages[m].next_retry_at
  PROVE  Kept(m)'
<1>1. /\ messages \in [Messages -> MessageRow]
      /\ worker \in [Procs -> {Idle} \union Handling]
      /\ swept \in [Procs -> SUBSET Messages]
  BY DEF Smooth, TypeOK, StoreTypeOK, WorkerTypeOK
<1>2. CASE messages'[m] = messages[m]
  BY <1>2 DEF Kept, Settled
<1>3. ASSUME NEW n, NEW row, Update(n, row)
      PROVE  messages'[m] = IF n = m THEN row ELSE messages[m]
  BY <1>1, <1>3 DEF Update
<1>4. ASSUME NEW row, messages'[m] = row,
             row.status \in Sent \union {"failed"} \/ row.next_retry_at
      PROVE  Kept(m)'
  BY <1>4 DEF Kept, Settled
<1>5. ASSUME NEW p \in Procs, BeginAttempt(p)
      PROVE  Kept(m)'
  <2>1. CASE worker[p].msg = m
    <3>1. worker[p] \in Handling
      BY <1>1, <1>5 DEF BeginAttempt, At, Idle
    <3>2. worker'[p] = [worker[p] EXCEPT !.pc = "count", !.next = "cadence"]
      BY <1>1, <1>5, NothingFails DEF BeginAttempt, Recalculate
    <3>3. worker'[p].pc = "count" /\ worker'[p].msg = m /\ worker'[p].next = "cadence"
      BY <2>1, <3>1, <3>2 DEF Handling
    <3>4. QED BY <3>3 DEF Working, Kept, Held
  <2>2. CASE worker[p].msg # m
    BY <1>2, <1>3, <1>5, <2>2, NothingFails DEF BeginAttempt
  <2>3. QED BY <2>1, <2>2
<1>6. ASSUME NEW p \in Procs, RecordSent(p)
      PROVE  Kept(m)'
  <2>1. PICK identified \in BOOLEAN :
          Update(worker[p].msg, MarkSent(messages[worker[p].msg], identified))
    BY <1>6, NothingFails DEF RecordSent
  <2>2. MarkSent(messages[m], identified).status = "sent"
    BY <1>1 DEF MarkSent, MessageRow
  <2>3. QED BY <1>2, <1>3, <1>4, <2>1, <2>2 DEF Sent
<1>7. ASSUME NEW p \in Procs, RecordRetry(p)
      PROVE  Kept(m)'
  <2>1. MarkPendingRetry(messages[m]).next_retry_at
    BY <1>1 DEF MarkPendingRetry, MessageRow
  <2>2. QED BY <1>2, <1>3, <1>4, <1>7, <2>1, NothingFails DEF RecordRetry
<1>8. ASSUME NEW p \in Procs, RecordFailure(p)
      PROVE  Kept(m)'
  <2>1. MarkFailed(messages[m]).status = "failed"
    BY <1>1 DEF MarkFailed, MessageRow
  <2>2. QED BY <1>2, <1>3, <1>4, <1>8, <2>1, NothingFails DEF RecordFailure
<1>9. ASSUME NEW p \in Procs, ClaimDueRetryJobs(p)
      PROVE  Kept(m)'
  <2>1. PICK due \in SUBSET Messages :
          /\ messages' = [n \in Messages |->
                            IF n \in due THEN [messages[n] EXCEPT !.next_retry_at = FALSE]
                            ELSE messages[n]]
          /\ swept' = [swept EXCEPT ![p] = due]
    BY <1>9, NothingFails DEF ClaimDueRetryJobs
  <2>2. CASE m \in due
    BY <1>1, <2>1, <2>2 DEF Kept, Held
  <2>3. CASE m \notin due
    BY <1>2, <2>1, <2>3
  <2>4. QED BY <2>2, <2>3
<1>10. ASSUME NEW t \in Trackers, NEW n \in Messages, MarkMessage(t, n)
       PROVE  Kept(m)'
  <2>1. CASE UNCHANGED messages
    BY <1>2, <2>1
  <2>2. CASE messages' = [messages EXCEPT ![n] = Marked(messages[n], tracker[t].event)]
    <3>1. Marked(messages[n], tracker[t].event).status \in Sent
      BY <1>1 DEF Marked, MarkRead, MarkDelivered, MessageRow, Sent
    <3>2. messages'[m] \in {messages[m], Marked(messages[n], tracker[t].event)}
      BY <1>1, <2>2
    <3>3. QED BY <1>2, <1>4, <3>1, <3>2
  <2>3. [tracker[t] EXCEPT !.ids = @ \ {n}].event = tracker[t].event
    <3>1. tracker[t] \in Marking
      BY <1>10, TrackerAt DEF MarkMessage, Tracking, Smooth, TypeOK
    <3>2. QED BY <3>1 DEF Marking
  <2>4. QED BY <1>10, <2>1, <2>2, <2>3 DEF MarkMessage
<1>11. CASE UNCHANGED messages
  BY <1>2, <1>11
<1>12. ASSUME NEW p \in Procs, WorkerStep(p)
       PROVE  Kept(m)'
  BY <1>5, <1>6, <1>7, <1>8, <1>9, <1>11, <1>12
  DEF WorkerStep, HandleJob, Pop, PopLost, PopTimesOut, GetMessage, GetCampaign, ReadFails,
      RequeuePaused, CountForRecalculation, ApplyRecalculation, RecalculationFails,
      WaitForCadence, SendText, ScheduleRetry, TimerFires, TimerCancelled, QueueClaimed,
      storeVars, dispatchVars
<1>13. ASSUME NEW k \in Clients, ClientStep(k)
       PROVE  UNCHANGED messages
  BY <1>13
  DEF ClientStep, CreateLooksUp, RescheduleReads, CancelReads, PauseReads, ResumeReads, Begin,
      InsertCampaign, PublishCreated, UpdateSchedule, CancelCampaign, PauseCampaign,
      ResumeCampaign, CountResumed, ApplyResumed, storeVars
<1>14. ASSUME NEW p \in Procs, SchedulerStep(p)
       PROVE  UNCHANGED messages
  BY <1>14 DEF SchedulerStep, ClaimDueScheduled, PublishReleased, RevertRelease, storeVars
<1>15. ASSUME NEW t \in Trackers, TrackerStep(t), \A n \in Messages : ~MarkMessage(t, n)
       PROVE  UNCHANGED messages
  BY <1>15 DEF TrackerStep, ReceiveEvent, CountTouched, ApplyTouched, TrackFails, storeVars
<1>16. QED
  BY <1>10, <1>11, <1>12, <1>13, <1>14, <1>15, NothingFails
  DEF Next, Worker, Client, Scheduler, Tracker, vars, dispatchVars, storeVars

\* Without a fault nothing is reverted.
LEMMA RevertsStep ==
  ASSUME Smooth, NoReverts, [Next]_vars
  PROVE  NoReverts'
<1>1. release \in [Procs -> [todo: SUBSET Campaigns, revert: SUBSET Campaigns]]
  BY DEF Smooth, TypeOK, ServiceTypeOK
<1>2. CASE UNCHANGED release
  BY <1>2 DEF NoReverts
<1>3. ASSUME NEW p \in Procs, SchedulerStep(p)
      PROVE  NoReverts'
  <2>1. CASE ClaimDueScheduled(p)
    <3>1. PICK due : release' = [release EXCEPT ![p].todo = due]
      BY <2>1, NothingFails DEF ClaimDueScheduled
    <3>2. QED BY <1>1, <3>1 DEF NoReverts
  <2>2. ASSUME NEW c \in Campaigns, PublishReleased(p, c)
        PROVE  NoReverts'
    <3>1. release' = [release EXCEPT ![p].todo = @ \ {c}]
      BY <2>2, NothingFails DEF PublishReleased
    <3>2. QED BY <1>1, <3>1 DEF NoReverts
  <2>3. ASSUME NEW c \in Campaigns, RevertRelease(p, c)
        PROVE  NoReverts'
    BY <2>3 DEF RevertRelease, NoReverts
  <2>4. QED BY <1>3, <2>1, <2>2, <2>3 DEF SchedulerStep
<1>4. ASSUME NEW k \in Clients, ClientStep(k)
      PROVE  UNCHANGED release
  BY <1>4
  DEF ClientStep, CreateLooksUp, RescheduleReads, CancelReads, PauseReads, ResumeReads, Begin,
      InsertCampaign, PublishCreated, UpdateSchedule, CancelCampaign, PauseCampaign,
      ResumeCampaign, CountResumed, ApplyResumed
<1>5. QED
  BY <1>2, <1>3, <1>4, NothingFails
  DEF Next, Worker, Client, Scheduler, Tracker, vars, serviceVars

\* A campaign is stored for the request that publishes its jobs, or to be released later.
LEMMA StoredStep ==
  ASSUME Smooth, [Next]_vars, NEW c \in Campaigns, c \notin stored
  PROVE  AwaitsPublication(c)'
<1>1. CASE c \notin stored'
  BY <1>1 DEF AwaitsPublication
<1>2. ASSUME NEW k \in Clients, InsertCampaign(k), request[k].camp = c
      PROVE  AwaitsPublication(c)'
  <2>1. /\ request[k] \in RequestState
        /\ request \in [Clients -> {NoRequest} \union RequestState]
        /\ campaigns \in [Campaigns -> CampaignRow]
    BY <1>2, RequestSteps
    DEF InsertCampaign, Doing, Smooth, TypeOK, ServiceTypeOK, StoreTypeOK
  <2>2. campaigns'[c] = NewCampaign(c, request[k].mode)
    BY <1>2, <2>1 DEF InsertCampaign, UpdateCampaign, Smooth
  <2>3. CASE request[k].mode = "now"
    <3>1. request'[k] = [request[k] EXCEPT !.pc = "publish"]
      BY <1>2, <2>1, <2>3 DEF InsertCampaign, Then, Smooth
    <3>2. request'[k].pc = "publish" /\ request'[k].camp = c
      BY <1>2, <2>1, <3>1 DEF RequestState
    <3>3. QED BY <3>2 DEF AwaitsPublication
  <2>4. CASE request[k].mode # "now"
    <3>1. request[k].mode = "scheduled"
      BY <2>1, <2>4 DEF RequestState
    <3>2. campaigns'[c].send_mode = "scheduled" /\ ~campaigns'[c].released_at
      BY <2>2, <3>1 DEF NewCampaign
    <3>3. QED BY <3>2 DEF AwaitsPublication
  <2>5. QED BY <2>3, <2>4
<1>3. ASSUME NEW k \in Clients, ClientStep(k), ~(InsertCampaign(k) /\ request[k].camp = c)
      PROVE  c \notin stored'
  BY <1>3
  DEF ClientStep, CreateLooksUp, RescheduleReads, CancelReads, PauseReads, ResumeReads, Begin,
      InsertCampaign, PublishCreated, UpdateSchedule, CancelCampaign, PauseCampaign,
      ResumeCampaign, CountResumed, ApplyResumed, storeVars
<1>4. ASSUME NEW p \in Procs, WorkerStep(p)
      PROVE  UNCHANGED stored
  BY <1>4
  DEF WorkerStep, HandleJob, Pop, PopLost, PopTimesOut, GetMessage, GetCampaign, ReadFails,
      RequeuePaused, BeginAttempt, CountForRecalculation, ApplyRecalculation,
      RecalculationFails, WaitForCadence, SendText, RecordSent, RecordRetry, RecordFailure,
      ScheduleRetry, TimerFires, TimerCancelled, ClaimDueRetryJobs, QueueClaimed, storeVars,
      dispatchVars
<1>5. ASSUME NEW p \in Procs, SchedulerStep(p)
      PROVE  UNCHANGED stored
  BY <1>5 DEF SchedulerStep, ClaimDueScheduled, PublishReleased, RevertRelease, storeVars
<1>6. ASSUME NEW t \in Trackers, TrackerStep(t)
      PROVE  UNCHANGED stored
  BY <1>6
  DEF TrackerStep, ReceiveEvent, MarkMessage, CountTouched, ApplyTouched, TrackFails,
      storeVars
<1>7. QED
  BY <1>1, <1>2, <1>3, <1>4, <1>5, <1>6, NothingFails
  DEF Next, Worker, Client, Scheduler, Tracker, vars, dispatchVars, storeVars

\* A campaign to be released is released by a scheduler that then publishes its jobs; one
\* that is cancelled stays so, or is scheduled anew.
LEMMA AwaitingRowStep ==
  ASSUME Smooth, [Next]_vars, NEW c \in Campaigns,
         \/ campaigns[c].cancelled_at
         \/ campaigns[c].send_mode = "scheduled" /\ ~campaigns[c].released_at
  PROVE  campaigns'[c].cancelled_at \/ AwaitsPublication(c)'
<1>1. campaigns[c] \in CampaignRow /\ TypeOK
  BY DEF Smooth, TypeOK, StoreTypeOK
<1>2. CASE c \notin stored
  BY <1>2, StoredStep
<1>3. CASE campaigns'[c] = campaigns[c]
  BY <1>3 DEF AwaitsPublication
<1>4. ASSUME NEW n, campaigns'[c] = Recalculated(c, n)
      PROVE  campaigns'[c].cancelled_at \/ AwaitsPublication(c)'
  BY <1>1, <1>4 DEF Recalculated, CampaignRow, AwaitsPublication
<1>5. CASE \/ campaigns'[c] = PausedSet(campaigns[c], TRUE)
           \/ campaigns'[c] = PausedSet(campaigns[c], FALSE)
  BY <1>1, <1>5 DEF PausedSet, CampaignRow, AwaitsPublication
<1>6. CASE \/ Reschedulable(campaigns[c]) /\ campaigns'[c] = Rescheduled(campaigns[c])
           \/ campaigns'[c] = Cancelled(campaigns[c])
           \/ campaigns'[c] = ReleaseReverted(campaigns[c])
  BY <1>1, <1>6
  DEF Reschedulable, Rescheduled, Cancelled, ReleaseReverted, CampaignRow, AwaitsPublication
<1>7. CASE \E p \in Procs : c \in release'[p].todo
  BY <1>7 DEF AwaitsPublication
<1>8. QED
  BY <1>1, <1>2, <1>3, <1>4, <1>5, <1>6, <1>7, CampaignChanges, NothingFails
  DEF CampaignChange

\* Who has the jobs of a campaign to publish does publish them.
LEMMA AwaitingStep ==
  ASSUME Smooth, NoReverts, [Next]_vars, NEW m \in Messages, AwaitsPublication(CampaignOf[m])
  PROVE  Kept(m)'
<1> DEFINE c == CampaignOf[m]
<1>1. c \in Campaigns /\ MessagesOf(c) \in SUBSET Messages /\ m \in MessagesOf(c)
  BY StoreAssumption DEF MessagesOf
<1>2. /\ release \in [Procs -> [todo: SUBSET Campaigns, revert: SUBSET Campaigns]]
      /\ request \in [Clients -> {NoRequest} \union RequestState]
  BY DEF Smooth, TypeOK, ServiceTypeOK
<1> HIDE DEF c
<1>3. AwaitsPublication(c)' \/ campaigns'[c].cancelled_at => Kept(m)'
  BY DEF Kept, c
<1>4. ASSUME NEW jobs \in Orderings(MessagesOf(c)), Publish(jobs)
      PROVE  Kept(m)'
  BY <1>1, <1>4, PublishedInQueue DEF Kept, Held, Smooth
<1>5. CASE c \notin stored
  BY <1>1, <1>3, <1>5, StoredStep
<1>6. CASE campaigns[c].send_mode = "scheduled" /\ ~campaigns[c].released_at
  BY <1>1, <1>3, <1>6, AwaitingRowStep
<1>7. ASSUME NEW p \in Procs, c \in release[p].todo
      PROVE  Kept(m)'
  <2>1. CASE c \in release'[p].todo
    BY <1>3, <2>1 DEF AwaitsPublication
  <2>2. CASE UNCHANGED release
    BY <1>7, <2>1, <2>2
  <2>3. ASSUME NEW q \in Procs, ClaimDueScheduled(q)
        PROVE  Kept(m)'
    <3>1. q # p
      BY <1>7, <2>3 DEF ClaimDueScheduled, NoRelease
    <3>2. release'[p] = release[p]
      BY <1>2, <2>3, <3>1 DEF ClaimDueScheduled
    <3>3. QED BY <1>7, <2>1, <3>2
  <2>4. ASSUME NEW q \in Procs, NEW d \in Campaigns, PublishReleased(q, d)
        PROVE  Kept(m)'
    <3>1. /\ \E jobs \in Orderings(MessagesOf(d)) : Publish(jobs)
          /\ release' = [release EXCEPT ![q].todo = @ \ {d}]
      BY <2>4, NothingFails DEF PublishReleased
    <3>2. CASE d = c
      BY <1>4, <3>1, <3>2
    <3>3. CASE d # c
      BY <1>2, <1>7, <2>1, <3>1, <3>3
    <3>4. QED BY <3>2, <3>3
  <2>5. ASSUME NEW q \in Procs, NEW d \in Campaigns, RevertRelease(q, d)
        PROVE  FALSE
    BY <2>5 DEF RevertRelease, NoReverts
  <2>6. ASSUME NEW k \in Clients, ClientStep(k)
        PROVE  UNCHANGED release
    BY <2>6
    DEF ClientStep, CreateLooksUp, RescheduleReads, CancelReads, PauseReads, ResumeReads,
        Begin, InsertCampaign, PublishCreated, UpdateSchedule, CancelCampaign, PauseCampaign,
        ResumeCampaign, CountResumed, ApplyResumed
  <2>7. QED
    BY <2>2, <2>3, <2>4, <2>5, <2>6, NothingFails
    DEF Next, Worker, Client, Scheduler, SchedulerStep, Tracker, vars, serviceVars
<1>8. ASSUME NEW k \in Clients, request[k].pc = "publish", request[k].camp = c
      PROVE  Kept(m)'
  <2>1. CASE request'[k] = request[k]
    BY <1>3, <1>8, <2>1 DEF AwaitsPublication
  <2>2. CASE PublishCreated(k)
    BY <1>4, <1>8, <2>2 DEF PublishCreated, Smooth
  <2>3. ASSUME ClientStep(k)
        PROVE  PublishCreated(k)
    BY <1>8, <2>3
    DEF ClientStep, CreateLooksUp, RescheduleReads, CancelReads, PauseReads, ResumeReads,
        Begin, InsertCampaign, PublishCreated, UpdateSchedule, CancelCampaign, PauseCampaign,
        ResumeCampaign, CountResumed, ApplyResumed, Doing
  <2>4. ASSUME NEW j \in Clients, ClientStep(j), j # k
        PROVE  request'[k] = request[k]
    BY <1>2, <2>4
    DEF ClientStep, CreateLooksUp, RescheduleReads, CancelReads, PauseReads, ResumeReads,
        Begin, InsertCampaign, PublishCreated, UpdateSchedule, CancelCampaign, PauseCampaign,
        ResumeCampaign, CountResumed, ApplyResumed, EndRequest, Then
  <2>5. ASSUME ~\E j \in Clients : Client(j)
        PROVE  UNCHANGED request
    BY <2>5, NothingFails
    DEF Next, Worker, Scheduler, SchedulerStep, ClaimDueScheduled, PublishReleased,
        RevertRelease, Tracker, vars, serviceVars
  <2>6. QED BY <2>1, <2>2, <2>3, <2>4, <2>5 DEF Client
<1>9. c \notin stored
        \/ (campaigns[c].send_mode = "scheduled" /\ ~campaigns[c].released_at)
        \/ (\E p \in Procs : c \in release[p].todo)
        \/ (\E k \in Clients : request[k].pc = "publish" /\ request[k].camp = c)
  BY DEF AwaitsPublication, NoReverts, c
<1>10. QED BY <1>5, <1>6, <1>7, <1>8, <1>9

\* Every step keeps every message.
LEMMA KeptStep ==
  ASSUME TypeOK, UpWithoutFaults, ScheduledNotReleased, KeptInv, [Next]_vars
  PROVE  KeptInv'
<1> SUFFICES ASSUME faults' = 0
             PROVE  NoReverts' /\ \A m \in Messages : Kept(m)'
  BY DEF KeptInv
<1>1. faults = 0 /\ Smooth
  BY FaultFree DEF Smooth, UpWithoutFaults
<1>2. NoReverts /\ \A m \in Messages : Kept(m)
  BY <1>1 DEF KeptInv
<1>3. ASSUME NEW m \in Messages
      PROVE  Kept(m)'
  <2>1. CampaignOf[m] \in Campaigns
    BY StoreAssumption
  <2>2. CASE Settled(m) \/ messages[m].next_retry_at
    BY <1>1, <2>2, RowStep
  <2>3. CASE InQueue(m)
    BY <1>1, <2>3, QueueStep DEF Kept
  <2>4. ASSUME NEW p \in Procs, Working(p, m)
        PROVE  Kept(m)'
    BY <1>1, <2>4, WorkingStep
  <2>5. ASSUME NEW p \in Procs, timers[p][m] > 0
        PROVE  Kept(m)'
    BY <1>1, <2>5, TimerStep DEF Kept
  <2>6. ASSUME NEW p \in Procs, m \in swept[p]
        PROVE  Kept(m)'
    BY <1>1, <2>6, SweptStep DEF Kept
  <2>7. CASE campaigns[CampaignOf[m]].cancelled_at
    BY <1>1, <2>1, <2>7, AwaitingRowStep DEF Kept
  <2>8. CASE AwaitsPublication(CampaignOf[m])
    BY <1>1, <1>2, <2>8, AwaitingStep
  <2>9. QED BY <1>2, <2>2, <2>3, <2>4, <2>5, <2>6, <2>7, <2>8 DEF Kept, Held
<1>4. QED BY <1>1, <1>2, <1>3, RevertsStep

\* Create has published the jobs of every stored campaign, and nothing is in progress.
LEMMA InitKept == Init => KeptInv
<1> SUFFICES ASSUME Init PROVE NoReverts /\ \A m \in Messages : Kept(m)
  BY DEF KeptInv
<1>1. NoReverts
  BY DEF Init, ServiceInit, NoRelease, NoReverts
<1>2. ASSUME NEW m \in Messages, CampaignOf[m] \notin Existing
      PROVE  Kept(m)
  BY <1>2 DEF Init, AwaitsPublication, Kept
<1>3. ASSUME NEW m \in Messages, CampaignOf[m] \in Existing
      PROVE  Kept(m)
  <2> DEFINE S == {n \in Messages : CampaignOf[n] \in Existing}
  <2>1. queue \in Orderings(S) /\ m \in S
    BY <1>3 DEF Init
  <2> HIDE DEF S
  <2>2. InQueue(m)
    BY <2>1 DEF Orderings, InQueue
  <2>3. QED BY <2>2 DEF Held, Kept
<1>4. QED BY <1>1, <1>2, <1>3

\* As long as nothing fails no message is lost, with any number of processes, clients and
\* webhooks: one neither sent nor failed has a job, a timer, a row the sweeper will find, or
\* belongs to a campaign cancelled or still to be published.
THEOREM HeldTheorem == Spec => []OpenMessageHeld
<1>1. Init => UpWithoutFaults
  BY DEF Init, UpWithoutFaults
<1>2. TypeOK /\ UpWithoutFaults /\ ScheduledNotReleased /\ KeptInv /\ [Next]_vars
        => UpWithoutFaults' /\ KeptInv'
  BY UpStep, KeptStep
<1>3. TypeOK /\ KeptInv => OpenMessageHeld
  <2> SUFFICES ASSUME TypeOK, faults = 0, NEW m \in Messages, Kept(m)
               PROVE  Settled(m) \/ campaigns[CampaignOf[m]].cancelled_at \/ HasJob(m)
                        \/ messages[m].next_retry_at \/ AwaitsPublication(CampaignOf[m])
    BY DEF KeptInv, OpenMessageHeld
  <2>1. \A p \in Procs : Working(p, m) => worker[p] # Idle /\ worker[p].msg = m
    BY DEF Working, Idle
  <2>2. QED BY <2>1 DEF Kept, Held, InQueue, HasJob
<1>4. QED BY <1>1, <1>2, <1>3, InitKept, TypeCorrect, ScheduledTheorem, PTL DEF Spec

------------------------------------------------------------------------------
(* CountersSettle *)

\* The worker of one process and its scheduler, without requests and webhooks.
WorkerAlone == OneProcess /\ Clients = {} /\ Trackers = {}

\* The worker is about to recalculate campaign c.
Recalculating(c) ==
  \E p \in Procs : worker[p].pc \in {"count", "apply"} /\ CampaignOf[worker[p].msg] = c

CountsFresh ==
  \A p \in Procs :
    worker[p].pc = "apply" => worker[p].counts = CountMessages(CampaignOf[worker[p].msg])

CountersTrue ==
  \A c \in Campaigns : campaigns[c].counts = CountMessages(c) \/ Recalculating(c)

CountersInv == faults = 0 => CountsFresh /\ CountersTrue

\* Only the statuses of its messages decide what is counted for a campaign.
LEMMA CountFrame ==
  ASSUME NEW c, \A m \in MessagesOf(c) : messages'[m].status = messages[m].status
  PROVE  CountMessages(c)' = CountMessages(c)
<1>1. \A s \in MessageStatus :
        {m \in MessagesOf(c) : messages'[m].status = s} = {m \in MessagesOf(c) : messages[m].status = s}
  OBVIOUS
<1>2. MessagesOf(c)' = MessagesOf(c)
  BY DEF MessagesOf
<1>3. QED BY <1>1, <1>2 DEF CountMessages

\* handleJob recalculates after each statement that changes the status of a message.
LEMMA WorkerCounters ==
  ASSUME WorkerAlone, Smooth, CountsFresh, CountersTrue, NEW p \in Procs, WorkerStep(p)
  PROVE  CountsFresh' /\ CountersTrue'
<1> USE DEF At, Goto, EndJob
<1>1. /\ worker \in [Procs -> {Idle} \union Handling] /\ Idle.pc = "pop"
      /\ messages \in [Messages -> MessageRow]
      /\ campaigns \in [Campaigns -> CampaignRow]
  BY DEF Smooth, TypeOK, WorkerTypeOK, StoreTypeOK, Idle
<1>2. \A q \in Procs : q = p
  BY DEF WorkerAlone, OneProcess
<1>3. worker[p].pc # "pop" => worker[p] \in Handling /\ CampaignOf[worker[p].msg] \in Campaigns
  BY <1>1, StoreAssumption DEF Handling
<1>4. ASSUME UNCHANGED <<messages, campaigns>>, worker[p].pc \notin {"count", "apply"},
             worker'[p].pc # "apply"
      PROVE  CountsFresh' /\ CountersTrue'
  <2>1. \A c \in Campaigns : CountMessages(c)' = CountMessages(c)
    BY <1>4, CountFrame
  <2>2. \A c \in Campaigns : campaigns[c].counts = CountMessages(c)
    BY <1>2, <1>4 DEF CountersTrue, Recalculating
  <2>3. QED BY <1>2, <1>4, <2>1, <2>2 DEF CountsFresh, CountersTrue
<1>5. ASSUME UNCHANGED <<worker, campaigns>>,
             \A m \in Messages : messages'[m].status = messages[m].status
      PROVE  CountsFresh' /\ CountersTrue'
  <2>1. \A c : CountMessages(c)' = CountMessages(c)
    BY <1>5, CountFrame DEF MessagesOf
  <2>2. QED BY <1>5, <2>1 DEF CountsFresh, CountersTrue, Recalculating
<1>6. ASSUME NEW row, Update(worker[p].msg, row), UNCHANGED campaigns,
             worker[p].pc \notin {"pop", "count", "apply"},
             NEW next \in {"pop", "cadence", "scheduleRetry"}, Recalculate(p, next)
      PROVE  CountsFresh' /\ CountersTrue'
  <2> DEFINE d == CampaignOf[worker[p].msg]
  <2>1. worker'[p] = [worker[p] EXCEPT !.pc = "count", !.next = next]
    BY <1>1, <1>6 DEF Recalculate
  <2>2. worker'[p].pc = "count" /\ worker'[p].msg = worker[p].msg
    BY <1>3, <1>6, <2>1 DEF Handling
  <2>3. Recalculating(d)'
    BY <2>2 DEF Recalculating
  <2>4. ASSUME NEW c \in Campaigns, c # d
        PROVE  campaigns'[c].counts = CountMessages(c)'
    <3>1. \A m \in MessagesOf(c) : messages'[m] = messages[m]
      BY <1>1, <1>6, <2>4 DEF Update, MessagesOf
    <3>2. campaigns[c].counts = CountMessages(c)
      BY <1>2, <1>6 DEF CountersTrue, Recalculating
    <3>3. QED BY <1>6, <3>1, <3>2, CountFrame
  <2>5. QED BY <1>2, <2>2, <2>3, <2>4 DEF CountsFresh, CountersTrue
<1>7. CASE BeginAttempt(p)
  BY <1>6, <1>7, NothingFails DEF BeginAttempt
<1>8. CASE RecordSent(p)
  BY <1>6, <1>8, NothingFails DEF RecordSent
<1>9. CASE RecordRetry(p)
  BY <1>6, <1>9, NothingFails DEF RecordRetry
<1>10. CASE RecordFailure(p)
  BY <1>6, <1>10, NothingFails DEF RecordFailure
<1>11. CASE CountForRecalculation(p)
  <2>1. worker'[p] = [worker[p] EXCEPT !.pc = "apply",
                        !.counts = CountMessages(CampaignOf[worker[p].msg])]
    BY <1>1, <1>11 DEF CountForRecalculation
  <2>2. /\ worker'[p].pc = "apply" /\ worker'[p].msg = worker[p].msg
        /\ worker'[p].counts = CountMessages(CampaignOf[worker[p].msg])
    BY <1>3, <1>11, <2>1 DEF CountForRecalculation, Handling
  <2>3. UNCHANGED <<messages, campaigns>>
    BY <1>11 DEF CountForRecalculation, storeVars
  <2>4. \A c : CountMessages(c)' = CountMessages(c)
    BY <2>3, CountFrame
  <2>5. \A c \in Campaigns : Recalculating(c) => Recalculating(c)'
    BY <1>2, <2>2 DEF Recalculating
  <2>6. QED BY <1>2, <2>2, <2>3, <2>4, <2>5 DEF CountsFresh, CountersTrue
<1>12. CASE ApplyRecalculation(p)
  <2> DEFINE d == CampaignOf[worker[p].msg]
  <2>1. worker[p].pc = "apply" /\ worker[p] \in Handling /\ d \in Campaigns
    BY <1>3, <1>12 DEF ApplyRecalculation
  <2>2. campaigns' = [campaigns EXCEPT ![d] = Recalculated(d, worker[p].counts)]
    BY <1>12 DEF ApplyRecalculation
  <2>3. UNCHANGED messages
    BY <1>12 DEF ApplyRecalculation
  <2>4. \A c : CountMessages(c)' = CountMessages(c)
    BY <2>3, CountFrame
  <2>5. campaigns'[d].counts = CountMessages(d)
    <3>1. campaigns'[d] = Recalculated(d, worker[p].counts)
      BY <1>1, <2>1, <2>2
    <3>2. campaigns'[d].counts = worker[p].counts
      BY <1>1, <2>1, <3>1 DEF Recalculated, CampaignRow
    <3>3. QED BY <2>1, <3>2 DEF CountsFresh
  <2>6. \A c \in Campaigns : c # d => campaigns'[c].counts = CountMessages(c)
    BY <1>1, <1>2, <2>2 DEF CountersTrue, Recalculating
  <2>7. worker'[p].pc # "apply"
    <3> DEFINE Old == worker[p]
               New == [Old EXCEPT !.pc = Old.next, !.counts = NoCounts, !.next = "pop"]
    <3>1. worker'[p] = Idle \/ worker'[p] = New
      BY <1>1, <1>12 DEF ApplyRecalculation, AfterRecalculation
    <3>2. New.pc \in {"pop", "cadence", "scheduleRetry"}
      <4> HIDE DEF Old
      <4>1. Old \in Handling
        BY <2>1 DEF Old
      <4>2. QED BY <4>1 DEF Handling
    <3> HIDE DEF New
    <3>3. QED BY <1>1, <3>1, <3>2
  <2>8. QED BY <1>2, <2>4, <2>5, <2>6, <2>7 DEF CountsFresh, CountersTrue
<1>13. CASE ClaimDueRetryJobs(p)
  BY <1>1, <1>5, <1>13 DEF ClaimDueRetryJobs
<1>14. CASE UNCHANGED <<worker, messages, campaigns>>
  BY <1>5, <1>14
<1>15. CASE Pop(p)
  BY <1>1, <1>4, <1>15 DEF Pop, storeVars
<1>16. CASE GetMessage(p) \/ GetCampaign(p) \/ WaitForCadence(p)
  <2>1. UNCHANGED <<messages, campaigns>> /\ worker[p].pc \in {"getMessage", "getCampaign", "cadence"}
    BY <1>16 DEF GetMessage, GetCampaign, WaitForCadence, storeVars
  <2>2. worker'[p] = Idle \/ worker'[p].pc \in {"getCampaign", "requeue", "markProcessing", "send"}
    BY <1>1, <1>3, <1>16, <2>1 DEF GetMessage, GetCampaign, WaitForCadence, Handling
  <2>3. QED BY <1>1, <1>4, <2>1, <2>2
<1>17. CASE RequeuePaused(p) \/ ScheduleRetry(p)
  <2>1. /\ UNCHANGED <<messages, campaigns>> /\ worker[p].pc \in {"requeue", "scheduleRetry"}
        /\ worker'[p] = Idle
    BY <1>1, <1>17 DEF RequeuePaused, ScheduleRetry, storeVars
  <2>2. QED BY <1>1, <1>4, <2>1
<1>18. CASE SendText(p)
  <2>1. PICK pc \in {"markSent", "markRetry", "markFailed"} : Goto(p, pc)
    BY <1>18 DEF SendText
  <2>2. worker'[p].pc = pc
    BY <1>1, <1>3, <1>18, <2>1 DEF SendText, Handling
  <2>3. UNCHANGED <<messages, campaigns>> /\ worker[p].pc = "send"
    BY <1>18 DEF SendText
  <2>4. QED BY <1>4, <2>2, <2>3
<1>19. QED
  BY <1>7, <1>8, <1>9, <1>10, <1>11, <1>12, <1>13, <1>14, <1>15, <1>16, <1>17, <1>18,
     NothingFails
  DEF WorkerStep, HandleJob, PopLost, PopTimesOut, ReadFails, RecalculationFails, TimerFires,
      TimerCancelled, QueueClaimed, storeVars, dispatchVars, workerVars

\* Releasing a campaign leaves its counters alone.
LEMMA SchedulerCounters ==
  ASSUME Smooth, CountsFresh, CountersTrue, NEW p \in Procs, Scheduler(p)
  PROVE  CountsFresh' /\ CountersTrue'
<1>1. UNCHANGED <<worker, messages>>
  BY DEF Scheduler, SchedulerStep, ClaimDueScheduled, PublishReleased, RevertRelease,
         storeVars, workerVars
<1>2. \A c \in Campaigns : campaigns'[c].counts = campaigns[c].counts
  <2>1. campaigns \in [Campaigns -> CampaignRow]
    BY DEF Smooth, TypeOK, StoreTypeOK
  <2>2. \A c \in Campaigns :
          /\ Released(campaigns[c]).counts = campaigns[c].counts
          /\ ReleaseReverted(campaigns[c]).counts = campaigns[c].counts
    BY <2>1 DEF Released, ReleaseReverted, CampaignRow
  <2>3. CASE ClaimDueScheduled(p)
    BY <2>2, <2>3 DEF ClaimDueScheduled
  <2>4. ASSUME NEW d \in Campaigns, RevertRelease(p, d)
        PROVE  \A c \in Campaigns : campaigns'[c].counts = campaigns[c].counts
    BY <2>1, <2>2, <2>4 DEF RevertRelease, UpdateCampaign
  <2>5. QED BY <2>3, <2>4 DEF Scheduler, SchedulerStep, PublishReleased, storeVars
<1>3. \A c : CountMessages(c)' = CountMessages(c)
  BY <1>1, CountFrame
<1>4. QED BY <1>1, <1>2, <1>3 DEF CountsFresh, CountersTrue, Recalculating

\* Create inserts the counters of messages that all are pending.
LEMMA InitCounters == Init => CountersInv
<1> SUFFICES ASSUME Init PROVE CountsFresh /\ CountersTrue
  BY DEF CountersInv
<1>1. CountsFresh
  BY DEF Init, WorkerInit, Idle, CountsFresh
<1>2. ASSUME NEW c \in Campaigns
      PROVE  campaigns[c].counts = CountMessages(c)
  <2>1. \A m \in MessagesOf(c) : messages[m].status = "pending"
    BY DEF Init, NewMessage, MessagesOf
  <2>2. {m \in MessagesOf(c) : messages[m].status = "pending"} = MessagesOf(c)
    BY <2>1
  <2>3. ASSUME NEW s \in MessageStatus, s # "pending"
        PROVE  Cardinality({m \in MessagesOf(c) : messages[m].status = s}) = 0
    <3>1. {m \in MessagesOf(c) : messages[m].status = s} = {}
      BY <2>1, <2>3
    <3>2. QED BY <3>1, FS_EmptySet
  <2>4. campaigns[c].counts = [s \in MessageStatus |->
                                 IF s = "pending" THEN Cardinality(MessagesOf(c)) ELSE 0]
    BY DEF Init, NewCampaign
  <2>5. QED BY <2>2, <2>3, <2>4 DEF CountMessages
<1>3. QED BY <1>1, <1>2 DEF CountersTrue

\* The worker on its own leaves no counter behind: whenever it is at rest and nothing has
\* failed, the counters of every campaign are those of its messages, for any number of
\* messages and attempts.  With a webhook beside it they need not be (run counters).
THEOREM CountersTheorem == WorkerAlone => (Spec => []CountersSettle)
<1> SUFFICES ASSUME WorkerAlone PROVE Spec => []CountersSettle
  OBVIOUS
<1>1. Init => UpWithoutFaults
  BY DEF Init, UpWithoutFaults
<1>2. TypeOK /\ UpWithoutFaults /\ CountersInv /\ [Next]_vars => UpWithoutFaults' /\ CountersInv'
  <2> SUFFICES ASSUME TypeOK, UpWithoutFaults, CountersInv, [Next]_vars, faults' = 0
               PROVE  CountsFresh' /\ CountersTrue'
    BY UpStep DEF CountersInv
  <2>1. Smooth /\ CountsFresh /\ CountersTrue
    BY FaultFree DEF Smooth, UpWithoutFaults, CountersInv
  <2>2. CASE UNCHANGED vars
    <3>1. UNCHANGED <<worker, messages, campaigns>>
      BY <2>2 DEF vars, dispatchVars, storeVars, workerVars
    <3>2. \A c : CountMessages(c)' = CountMessages(c)
      BY <3>1, CountFrame
    <3>3. QED BY <2>1, <3>1, <3>2 DEF CountsFresh, CountersTrue, Recalculating
  <2>3. QED
    BY <2>1, <2>2, WorkerCounters, SchedulerCounters, NothingFails
    DEF Next, Worker, WorkerAlone
<1>3. TypeOK /\ CountersInv => CountersSettle
  <2> SUFFICES ASSUME TypeOK, CountersTrue, AtRest, NEW c \in stored
               PROVE  campaigns[c].counts = CountMessages(c)
    BY DEF CountersInv, CountersSettle
  <2>1. c \in Campaigns /\ ~Recalculating(c)
    BY DEF TypeOK, StoreTypeOK, AtRest, Idle, Recalculating
  <2>2. QED BY <2>1 DEF CountersTrue
<1>4. QED BY <1>1, <1>2, <1>3, InitCounters, TypeCorrect, PTL DEF Spec
=============================================================================
