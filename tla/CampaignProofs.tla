---------------------------- MODULE CampaignProofs ----------------------------
(***************************************************************************)
(* What holds of the rows of campaigns, for any number of messages,        *)
(* campaigns, clients, webhooks, attempts and failures:                    *)
(* ScheduledNotReleased, LateSendsBounded and the refinement of            *)
(* CampaignPlan for any number of processes, CompletedMeansAllSent with    *)
(* one.                                                                    *)
(*                                                                         *)
(* All four rest on CampaignChanges: whatever the step, a row of           *)
(* campaigns stays or is rewritten by one of nine statements.              *)
(***************************************************************************)
EXTENDS LifecycleProofs

\* Somebody counted the messages of c and is about to write these counts.
CountsHeld(c, n) ==
  \/ \E p \in Procs : /\ worker[p].pc = "apply"
                      /\ CampaignOf[worker[p].msg] = c
                      /\ worker[p].counts = n
  \/ \E k \in Clients : request[k].pc = "apply" /\ request[k].camp = c /\ request[k].counts = n
  \/ \E t \in Trackers : tracker[t].pc = "apply" /\ tracker[t].camp = c /\ tracker[t].counts = n

\* What a step can do to the row of campaign c.
CampaignChange(c) ==
  \/ campaigns'[c] = campaigns[c]
  \/ c \notin stored /\ \E mode \in {"now", "scheduled"} : campaigns'[c] = NewCampaign(c, mode)
  \/ \E n \in [MessageStatus -> Nat] : CountsHeld(c, n) /\ campaigns'[c] = Recalculated(c, n)
  \/ /\ \E k \in Clients : request[k].pc = "pause" /\ request[k].camp = c
     /\ campaigns'[c] = PausedSet(campaigns[c], TRUE)
     /\ UNCHANGED lateSends
  \/ /\ campaigns'[c] = PausedSet(campaigns[c], FALSE)
     /\ lateSends'[c] = 0
     /\ Fault \/ \E k \in Clients : request'[k].pc = "count" /\ request'[k].camp = c
  \/ Reschedulable(campaigns[c]) /\ campaigns'[c] = Rescheduled(campaigns[c])
  \/ Reschedulable(campaigns[c]) /\ campaigns'[c] = Cancelled(campaigns[c])
  \/ /\ DueForRelease(campaigns[c]) /\ campaigns'[c] = Released(campaigns[c])
     /\ \E p \in Procs : SchedulerFails(p) \/ c \in release'[p].todo
  \/ /\ \E p \in Procs : c \in release[p].revert /\ release'[p] = NoRelease
     /\ campaigns'[c] = ReleaseReverted(campaigns[c])

\* What the worker does to a campaign row: recalculate it (RecalculateCampaign), or nothing.
LEMMA WorkerCampaignChanges ==
  ASSUME TypeOK, NEW p \in Procs, WorkerStep(p), NEW c \in Campaigns
  PROVE  CampaignChange(c)
<1>1. CASE ApplyRecalculation(p)
  <2>1. worker[p].pc = "apply"
    BY <1>1 DEF ApplyRecalculation, At
  <2>2. worker[p] \in Handling
    BY <2>1 DEF TypeOK, WorkerTypeOK, Idle
  <2>3. worker[p].counts \in [MessageStatus -> Nat] /\ CampaignOf[worker[p].msg] \in Campaigns
    BY <2>2, StoreAssumption DEF Handling
  <2>4. campaigns' = [campaigns EXCEPT ![CampaignOf[worker[p].msg]] =
                        Recalculated(CampaignOf[worker[p].msg], worker[p].counts)]
    BY <1>1 DEF ApplyRecalculation
  <2>5. CASE c = CampaignOf[worker[p].msg]
    <3>1. campaigns'[c] = Recalculated(c, worker[p].counts)
      BY <2>4, <2>5 DEF TypeOK, StoreTypeOK
    <3>2. CountsHeld(c, worker[p].counts)
      BY <2>1, <2>5 DEF CountsHeld
    <3>3. QED BY <2>3, <3>1, <3>2 DEF CampaignChange
  <2>6. CASE c # CampaignOf[worker[p].msg]
    BY <2>4, <2>6 DEF CampaignChange, TypeOK, StoreTypeOK
  <2>7. QED BY <2>5, <2>6
<1>2. CASE UNCHANGED campaigns
  BY <1>2 DEF CampaignChange
<1>3. ASSUME ~ApplyRecalculation(p)
      PROVE  UNCHANGED campaigns
  BY <1>3
  DEF WorkerStep, HandleJob, Pop, PopLost, PopTimesOut, GetMessage, GetCampaign, ReadFails,
      RequeuePaused, BeginAttempt, CountForRecalculation, RecalculationFails, WaitForCadence,
      SendText, RecordSent, RecordRetry, RecordFailure, ScheduleRetry, TimerFires,
      TimerCancelled, ClaimDueRetryJobs, QueueClaimed, storeVars, dispatchVars
<1>4. QED BY <1>1, <1>2, <1>3

\* What a request does to a campaign row: one of the statements of the repository, or nothing.
LEMMA ClientCampaignChanges ==
  ASSUME TypeOK, NEW k \in Clients, ClientStep(k), NEW c \in Campaigns
  PROVE  CampaignChange(c)
<1> DEFINE d == request[k].camp
<1>1. request[k].pc # "idle" =>
        /\ d \in Campaigns
        /\ request[k].mode \in {"now", "scheduled"}
        /\ request[k].counts \in [MessageStatus -> Nat]
  <2>1. request[k].pc # "idle" => request[k] \in RequestState
    BY RequestSteps DEF TypeOK
  <2>2. QED BY <2>1 DEF RequestState
<1>2. ASSUME NEW row, UpdateCampaign(d, row)
      PROVE  campaigns'[c] = IF c = d THEN row ELSE campaigns[c]
  BY <1>2 DEF UpdateCampaign, TypeOK, StoreTypeOK
<1>3. CASE InsertCampaign(k)
  BY <1>1, <1>2, <1>3 DEF InsertCampaign, Doing, CampaignChange
<1>4. CASE UpdateSchedule(k)
  BY <1>2, <1>4 DEF UpdateSchedule, CampaignChange
<1>5. CASE CancelCampaign(k)
  BY <1>2, <1>5 DEF CancelCampaign, CampaignChange
<1>6. CASE PauseCampaign(k)
  BY <1>2, <1>6 DEF PauseCampaign, Doing, CampaignChange
<1>7. CASE ResumeCampaign(k)
  <2>1. CASE UNCHANGED campaigns
    BY <2>1 DEF CampaignChange
  <2>2. CASE /\ UpdateCampaign(d, PausedSet(campaigns[d], FALSE))
             /\ lateSends' = [lateSends EXCEPT ![d] = 0]
    <3>1. c = d => lateSends'[c] = 0
      BY <2>2 DEF TypeOK, StoreTypeOK
    <3>2. campaigns'[c] = IF c = d THEN PausedSet(campaigns[d], FALSE) ELSE campaigns[c]
      BY <2>2, <1>2
    <3>3. CASE c = d
      <4>1. request[k] \in RequestState
        BY <1>7, RequestSteps DEF ResumeCampaign, Doing, TypeOK
      <4>2. Then(k, "count") => request'[k].pc = "count" /\ request'[k].camp = d
        BY <4>1, RequestSteps DEF Then, RequestState, TypeOK, ServiceTypeOK
      <4>3. Fault \/ Then(k, "count")
        BY <1>7 DEF ResumeCampaign
      <4>4. QED BY <3>1, <3>2, <3>3, <4>2, <4>3 DEF CampaignChange
    <3>4. CASE c # d
      <4>1. campaigns'[c] = campaigns[c]
        BY <3>2, <3>4
      <4>2. QED BY <4>1 DEF CampaignChange
    <3>5. QED BY <3>3, <3>4
  <2>3. QED BY <1>7, <2>1, <2>2 DEF ResumeCampaign
<1>8. CASE ApplyResumed(k)
  <2>1. request[k].pc = "apply" /\ request[k].counts \in [MessageStatus -> Nat]
    BY <1>1, <1>8 DEF ApplyResumed, Doing
  <2>2. CountsHeld(d, request[k].counts)
    BY <2>1 DEF CountsHeld
  <2>3. \/ UNCHANGED campaigns
        \/ campaigns'[c] = IF c = d THEN Recalculated(d, request[k].counts) ELSE campaigns[c]
    BY <1>2, <1>8 DEF ApplyResumed
  <2>4. CASE c = d
    BY <2>1, <2>2, <2>3, <2>4 DEF CampaignChange
  <2>5. CASE c # d
    <3>1. campaigns'[c] = campaigns[c]
      BY <2>3, <2>5
    <3>2. QED BY <3>1 DEF CampaignChange
  <2>6. QED BY <2>4, <2>5
<1>9. CASE UNCHANGED campaigns
  BY <1>9 DEF CampaignChange
<1>10. QED
  BY <1>3, <1>4, <1>5, <1>6, <1>7, <1>8, <1>9
  DEF ClientStep, CreateLooksUp, RescheduleReads, CancelReads, PauseReads, ResumeReads, Begin,
      PublishCreated, CountResumed, storeVars

\* What the scheduler does to a campaign row: release it or revert a release, or nothing.
LEMMA SchedulerCampaignChanges ==
  ASSUME TypeOK, NEW p \in Procs, SchedulerStep(p), NEW c \in Campaigns
  PROVE  CampaignChange(c)
<1>1. CASE ClaimDueScheduled(p)
  <2>1. PICK due \in SUBSET {d \in stored : DueForRelease(campaigns[d])} :
          /\ campaigns' = [d \in Campaigns |-> IF d \in due THEN Released(campaigns[d])
                                              ELSE campaigns[d]]
          /\ SchedulerFails(p) \/ release' = [release EXCEPT ![p].todo = due]
    BY <1>1 DEF ClaimDueScheduled
  <2>2. SchedulerFails(p) \/ release'[p].todo = due
    BY <2>1 DEF TypeOK, ServiceTypeOK
  <2>3. QED BY <2>1, <2>2 DEF CampaignChange
<1>2. ASSUME NEW d \in Campaigns, RevertRelease(p, d)
      PROVE  CampaignChange(c)
  <2>1. \/ campaigns'[c] = campaigns[c]
        \/ c = d /\ campaigns'[c] = ReleaseReverted(campaigns[c])
    BY <1>2 DEF RevertRelease, UpdateCampaign, TypeOK, StoreTypeOK
  <2>2. d \in release[p].revert /\ release'[p] = NoRelease
    BY <1>2 DEF RevertRelease, TypeOK, ServiceTypeOK
  <2>3. QED BY <2>1, <2>2 DEF CampaignChange
<1>3. ASSUME NEW d \in Campaigns, PublishReleased(p, d)
      PROVE  CampaignChange(c)
  BY <1>3 DEF PublishReleased, CampaignChange, storeVars
<1>4. QED BY <1>1, <1>2, <1>3 DEF SchedulerStep

\* What a webhook does to a campaign row: recalculate it, or nothing.
LEMMA TrackerCampaignChanges ==
  ASSUME TypeOK, NEW t \in Trackers, TrackerStep(t), NEW c \in Campaigns
  PROVE  CampaignChange(c)
<1>1. CASE ApplyTouched(t)
  <2>1. tracker[t].pc = "apply"
    BY <1>1 DEF ApplyTouched, Tracking
  <2>2. tracker[t].counts \in [MessageStatus -> Nat]
    BY <2>1, TrackerAt DEF Applying, TypeOK
  <2>3. CountsHeld(tracker[t].camp, tracker[t].counts)
    BY <2>1 DEF CountsHeld
  <2>4. campaigns'[c] = IF c = tracker[t].camp THEN Recalculated(c, tracker[t].counts)
                        ELSE campaigns[c]
    BY <1>1 DEF ApplyTouched, TypeOK, StoreTypeOK
  <2>5. QED BY <2>2, <2>3, <2>4 DEF CampaignChange
<1>2. CASE UNCHANGED campaigns
  BY <1>2 DEF CampaignChange
<1>3. QED
  BY <1>1, <1>2
  DEF TrackerStep, ReceiveEvent, MarkMessage, CountTouched, TrackFails, storeVars

\* Whatever the service does, a campaign row changes by one of the statements of
\* CampaignChange.
LEMMA CampaignChanges ==
  ASSUME TypeOK, [Next]_vars, NEW c \in Campaigns
  PROVE  CampaignChange(c)
<1>1. CASE UNCHANGED campaigns
  BY <1>1 DEF CampaignChange
<1>2. QED
  BY <1>1, WorkerCampaignChanges, ClientCampaignChanges, SchedulerCampaignChanges,
     TrackerCampaignChanges
  DEF Next, Worker, Client, Scheduler, Tracker, Stop, StopScheduler, Exit, Crash, Start, PushAgain,
      vars, dispatchVars, storeVars

------------------------------------------------------------------------------
(* ScheduledNotReleased *)

\* No statement leaves a campaign shown as scheduled whose release is over.
LEMMA ScheduledStep ==
  ASSUME TypeOK, ScheduledNotReleased, [Next]_vars
  PROVE  ScheduledNotReleased'
<1> SUFFICES ASSUME NEW c \in Campaigns, campaigns'[c].status = "scheduled"
             PROVE  campaigns'[c].send_mode = "scheduled" /\ ~campaigns'[c].released_at
  BY DEF ScheduledNotReleased
<1>1. campaigns[c] \in CampaignRow
  BY DEF TypeOK, StoreTypeOK
<1>2. campaigns[c].status = "scheduled"
        => campaigns[c].send_mode = "scheduled" /\ ~campaigns[c].released_at
  BY DEF ScheduledNotReleased
<1>3. ASSUME NEW n, campaigns'[c] = Recalculated(c, n)
      PROVE  campaigns'[c].send_mode = "scheduled" /\ ~campaigns'[c].released_at
  <2>1. /\ campaigns'[c].send_mode = campaigns[c].send_mode
        /\ campaigns'[c].released_at = campaigns[c].released_at
        /\ campaigns'[c].status
             = RecalculatedStatus(campaigns[c], n, Cardinality(MessagesOf(c)))
    BY <1>1, <1>3 DEF Recalculated, CampaignRow
  <2>2. QED BY <1>2, <2>1 DEF RecalculatedStatus
<1>4. CASE \/ campaigns'[c] = PausedSet(campaigns[c], TRUE)
           \/ campaigns'[c] = PausedSet(campaigns[c], FALSE)
  BY <1>1, <1>2, <1>4 DEF PausedSet, CampaignRow
<1>5. CASE Reschedulable(campaigns[c]) /\ campaigns'[c] = Rescheduled(campaigns[c])
  BY <1>1, <1>5 DEF Reschedulable, Rescheduled, CampaignRow
<1>6. CASE \/ campaigns'[c] = Cancelled(campaigns[c])
           \/ campaigns'[c] = Released(campaigns[c])
           \/ campaigns'[c] = ReleaseReverted(campaigns[c])
  BY <1>1, <1>2, <1>6 DEF Cancelled, Released, ReleaseReverted, CampaignRow
<1>7. ASSUME NEW mode \in {"now", "scheduled"}, campaigns'[c] = NewCampaign(c, mode)
      PROVE  campaigns'[c].send_mode = "scheduled" /\ ~campaigns'[c].released_at
  BY <1>7 DEF NewCampaign
<1>8. QED
  BY <1>2, <1>3, <1>4, <1>5, <1>6, <1>7, CampaignChanges DEF CampaignChange

\* A campaign that is shown as scheduled has its release still before it, for any number
\* of processes, schedulers and requests that read the row before they write it.
THEOREM ScheduledTheorem == Spec => []ScheduledNotReleased
<1>1. Init => ScheduledNotReleased
  BY DEF Init, NewCampaign, ScheduledNotReleased
<1>2. TypeOK /\ ScheduledNotReleased /\ [Next]_vars => ScheduledNotReleased'
  BY ScheduledStep
<1>3. QED BY <1>1, <1>2, TypeCorrect, PTL DEF Spec

------------------------------------------------------------------------------
(* Requests *)

\* What a step can do to the request of client k.
RequestChange(k) ==
  \/ request'[k] \in {request[k], NoRequest}
  \/ request'[k].pc = "insert"
  \/ /\ request'[k].pc \in {"update", "cancel", "pause", "resume"}
     /\ request'[k].camp \in stored
     /\ request'[k].pc = "cancel" => campaigns[request'[k].camp].status = "scheduled"
     /\ UNCHANGED <<stored, campaigns>>
  \/ /\ request'[k].camp = request[k].camp
     /\ \/ request'[k].pc = "publish" /\ request[k].camp \in stored'
        \/ request[k].pc = "resume" /\ request'[k].pc = "count"
        \/ request[k].pc = "count" /\ request'[k].pc = "apply"

\* Where a request goes on from a statement of its own.
LEMMA OwnRequestChanges ==
  ASSUME TypeOK, NEW k \in Clients, ClientStep(k)
  PROVE  RequestChange(k)
<1>1. request \in [Clients -> {NoRequest} \union RequestState]
  BY DEF TypeOK, ServiceTypeOK
<1>2. request[k].pc # "idle" => request[k] \in RequestState
  BY RequestSteps DEF TypeOK
<1>3. ASSUME NEW c \in Campaigns,
             \/ \E mode \in {"now", "scheduled"} : CreateLooksUp(k, c, mode)
             \/ RescheduleReads(k, c) \/ CancelReads(k, c) \/ PauseReads(k, c)
             \/ ResumeReads(k, c)
      PROVE  RequestChange(k)
  BY <1>1, <1>3
  DEF CreateLooksUp, RescheduleReads, CancelReads, PauseReads, ResumeReads, Begin,
      RequestChange, storeVars
<1>4. EndRequest(k) => RequestChange(k)
  BY <1>1 DEF EndRequest, RequestChange
<1>5. ASSUME NEW pc, Then(k, pc), request[k].pc # "idle"
      PROVE  request'[k].pc = pc /\ request'[k].camp = request[k].camp
  <2>1. request'[k] = [request[k] EXCEPT !.pc = pc]
    BY <1>1, <1>5 DEF Then
  <2>2. QED BY <2>1, <1>2, <1>5 DEF RequestState
<1>6. CASE InsertCampaign(k)
  <2>1. EndRequest(k) \/ (Then(k, "publish") /\ request[k].camp \in stored')
    BY <1>6 DEF InsertCampaign
  <2>2. QED BY <2>1, <1>4, <1>5, <1>6 DEF InsertCampaign, Doing, RequestChange
<1>7. CASE ResumeCampaign(k)
  BY <1>4, <1>5, <1>7 DEF ResumeCampaign, Doing, RequestChange
<1>8. CASE CountResumed(k)
  <2>1. request'[k].pc = "apply" /\ request'[k].camp = request[k].camp
    BY <1>1, <1>2, <1>8 DEF CountResumed, Doing, RequestState
  <2>2. QED BY <2>1, <1>8 DEF CountResumed, Doing, RequestChange
<1>9. QED
  BY <1>3, <1>4, <1>6, <1>7, <1>8
  DEF ClientStep, PublishCreated, UpdateSchedule, CancelCampaign, PauseCampaign, ApplyResumed

\* Whatever the service does, a request changes as RequestChange says.
LEMMA RequestChanges ==
  ASSUME TypeOK, [Next]_vars, NEW k \in Clients
  PROVE  RequestChange(k)
<1>1. ASSUME NEW j \in Clients, Client(j)
      PROVE  RequestChange(k)
  <2>1. CASE j = k
    BY <1>1, <2>1, OwnRequestChanges DEF Client
  <2>2. CASE j # k
    <3>1. request'[k] = request[k]
      BY <1>1, <2>2
      DEF Client, ClientStep, CreateLooksUp, RescheduleReads, CancelReads, PauseReads,
          ResumeReads, Begin, InsertCampaign, PublishCreated, UpdateSchedule, CancelCampaign,
          PauseCampaign, ResumeCampaign, CountResumed, ApplyResumed, EndRequest, Then,
          TypeOK, ServiceTypeOK
    <3>2. QED BY <3>1 DEF RequestChange
  <2>3. QED BY <2>1, <2>2
<1>2. CASE ~(\E j \in Clients : Client(j))
  <2>1. request'[k] = request[k] \/ request'[k] = NoRequest
    BY <1>2
    DEF Next, Worker, Scheduler, SchedulerStep, ClaimDueScheduled, PublishReleased,
        RevertRelease, Tracker, Stop, StopScheduler, Exit, Crash, Start, PushAgain,
        ServiceLost, vars, serviceVars
  <2>2. QED BY <2>1 DEF RequestChange
<1>3. QED BY <1>1, <1>2

\* A campaign is stored by the transaction of Create, and stays stored.
LEMMA StoredChanges ==
  ASSUME [Next]_vars
  PROVE  \/ UNCHANGED stored
         \/ \E k \in Clients :
              LET c == request[k].camp
              IN  /\ Client(k) /\ InsertCampaign(k)
                  /\ c \notin stored /\ stored' = stored \union {c}
                  /\ UpdateCampaign(c, NewCampaign(c, request[k].mode))
<1>1. ASSUME NEW k \in Clients, Client(k)
      PROVE  \/ UNCHANGED stored
             \/ LET c == request[k].camp
                IN  /\ Client(k) /\ InsertCampaign(k)
                    /\ c \notin stored /\ stored' = stored \union {c}
                    /\ UpdateCampaign(c, NewCampaign(c, request[k].mode))
  <2>1. CASE InsertCampaign(k)
    BY <1>1, <2>1 DEF InsertCampaign
  <2>2. CASE ~InsertCampaign(k)
    BY <1>1, <2>2
    DEF Client, ClientStep, CreateLooksUp, RescheduleReads, CancelReads, PauseReads,
        ResumeReads, Begin, PublishCreated, UpdateSchedule, CancelCampaign, PauseCampaign,
        ResumeCampaign, CountResumed, ApplyResumed, storeVars
  <2>3. QED BY <2>1, <2>2
<1>2. ASSUME NEW p \in Procs, Worker(p) \/ Scheduler(p)
      PROVE  UNCHANGED stored
  BY <1>2
  DEF Scheduler, SchedulerStep, ClaimDueScheduled, PublishReleased, RevertRelease,
      Worker, WorkerStep, HandleJob, Pop, PopLost, PopTimesOut, GetMessage, GetCampaign,
      ReadFails, RequeuePaused, BeginAttempt, CountForRecalculation, ApplyRecalculation,
      RecalculationFails, WaitForCadence, SendText, RecordSent, RecordRetry, RecordFailure,
      ScheduleRetry, TimerFires, TimerCancelled, ClaimDueRetryJobs, QueueClaimed, storeVars,
      dispatchVars
<1>3. ASSUME NEW t \in Trackers, Tracker(t)
      PROVE  UNCHANGED stored
  BY <1>3
  DEF Tracker, TrackerStep, ReceiveEvent, MarkMessage, CountTouched, ApplyTouched,
      TrackFails, storeVars
<1>4. QED
  BY <1>1, <1>2, <1>3
  DEF Next, Stop, StopScheduler, Exit, Crash, Start, PushAgain, vars, dispatchVars, storeVars

\* No campaign is deleted.
LEMMA StoredGrows ==
  ASSUME [Next]_vars
  PROVE  stored \subseteq stored'
BY StoredChanges

\* The row of a campaign that has just been stored.
LEMMA StoredNew ==
  ASSUME TypeOK, [Next]_vars, NEW c \in Campaigns, c \in stored', c \notin stored
  PROVE  \E mode : campaigns'[c] = NewCampaign(c, mode)
<1>1. PICK k \in Clients :
        /\ request[k].camp = c
        /\ UpdateCampaign(c, NewCampaign(c, request[k].mode))
  BY StoredChanges
<1>2. campaigns'[c] = NewCampaign(c, request[k].mode)
  BY <1>1 DEF UpdateCampaign, TypeOK, StoreTypeOK
<1>3. QED BY <1>2

\* A request writes to the row of a campaign it found, or has inserted.
RequestsStored ==
  \A k \in Clients : request[k].pc \in {"idle", "insert"} \/ request[k].camp \in stored

\* No request forgets what it found.
LEMMA RequestsStoredStep ==
  ASSUME TypeOK, RequestsStored, [Next]_vars
  PROVE  RequestsStored'
<1> SUFFICES ASSUME NEW k \in Clients, request'[k].pc \notin {"idle", "insert"}
             PROVE  request'[k].camp \in stored'
  BY DEF RequestsStored
<1>1. NoRequest.pc = "idle"
  BY DEF NoRequest
<1>2. QED BY <1>1, RequestChanges, StoredGrows DEF RequestChange, RequestsStored

------------------------------------------------------------------------------
(* LateSendsBounded *)

\* A step of one worker leaves the jobs of the others alone.
LEMMA OtherWorkers ==
  ASSUME TypeOK, NEW p \in Procs, WorkerStep(p), NEW q \in Procs, q # p
  PROVE  worker'[q] = worker[q]
BY DEF TypeOK, WorkerTypeOK, WorkerStep, HandleJob, Pop, PopLost, PopTimesOut, GetMessage,
       GetCampaign, ReadFails, RequeuePaused, BeginAttempt, CountForRecalculation,
       ApplyRecalculation, RecalculationFails, WaitForCadence, SendText, RecordSent,
       RecordRetry, RecordFailure, ScheduleRetry, TimerFires, TimerCancelled,
       ClaimDueRetryJobs, QueueClaimed, Goto, EndJob, Recalculate, AfterRecalculation,
       dispatchVars, workerVars

\* A job goes on by a step of its own worker, and may be lost with its process.
LEMMA WorkerElsewhere ==
  ASSUME TypeOK, [Next]_vars, NEW p \in Procs, ~Worker(p)
  PROVE  worker'[p] = worker[p] \/ worker'[p] = Idle
BY OtherWorkers
DEF Next, Worker, Client, Scheduler, Tracker, Stop, StopScheduler, Exit, Crash, Start, PushAgain,
    WorkerLost, workerVars, vars, dispatchVars, TypeOK, WorkerTypeOK

\* handleJob of p has seen that the campaign was not paused and has not sent yet.
Preparing(p) ==
  \/ worker[p].pc \in {"markProcessing", "cadence", "send"}
  \/ worker[p].pc \in {"count", "apply"} /\ worker[p].next = "cadence"

Preparers(c) == {p \in Procs : Preparing(p) /\ CampaignOf[worker[p].msg] = c}

\* Who sent late and who may still do so are different processes; without a pause there is
\* nothing to count.
PreparedInTime ==
  \A c \in Campaigns : lateSends[c] + Cardinality(Preparers(c)) <= Cardinality(Procs)

LateOnlyPaused == \A c \in Campaigns : ~campaigns[c].paused => lateSends[c] = 0

\* What is not stored yet is not paused.
PausesStored == \A c \in Campaigns : c \notin stored => ~campaigns[c].paused

PauseInv == PreparedInTime /\ LateOnlyPaused /\ PausesStored /\ RequestsStored

\* The processes that prepare a send are finitely many.
LEMMA PreparersFinite ==
  ASSUME NEW c
  PROVE  /\ IsFiniteSet(Preparers(c)) /\ Cardinality(Preparers(c)) \in Nat
         /\ Cardinality(Procs) \in Nat /\ Cardinality(Preparers(c)) <= Cardinality(Procs)
<1>1. Preparers(c) \subseteq Procs
  BY DEF Preparers
<1>2. QED BY <1>1, QueueAssumption, FS_Subset, FS_CardinalityType

\* The invariant holds initially: nothing is prepared and nothing is paused.
LEMMA InitPause == Init => PauseInv
<1> SUFFICES ASSUME Init PROVE PauseInv
  OBVIOUS
<1>1. \A k \in Clients : request[k].pc = "idle"
  BY DEF Init, ServiceInit, NoRequest
<1>2. \A c \in Campaigns : ~campaigns[c].paused /\ lateSends[c] = 0
  BY DEF Init, NewCampaign
<1>3. PreparedInTime
  BY <1>2, PreparersFinite DEF PreparedInTime
<1>4. QED BY <1>1, <1>2, <1>3 DEF PauseInv, LateOnlyPaused, PausesStored, RequestsStored

\* How the flag changes: a pause sets it on a stored campaign and forgives nothing, a resume
\* clears it and the count, every other statement leaves it alone.
LEMMA PausedChanges ==
  ASSUME TypeOK, RequestsStored, PausesStored, [Next]_vars, NEW c \in Campaigns
  PROVE  \/ campaigns'[c].paused = campaigns[c].paused
         \/ c \in stored /\ campaigns'[c].paused /\ lateSends'[c] = lateSends[c]
         \/ ~campaigns'[c].paused /\ lateSends'[c] = 0
<1>1. campaigns[c] \in CampaignRow
  BY DEF TypeOK, StoreTypeOK
<1>2. ASSUME NEW mode \in {"now", "scheduled"}, c \notin stored,
             campaigns'[c] = NewCampaign(c, mode)
      PROVE  campaigns'[c].paused = campaigns[c].paused
  <2>1. campaigns[c].paused \in BOOLEAN
    BY <1>1 DEF CampaignRow
  <2>2. ~campaigns[c].paused
    BY <1>2 DEF PausesStored
  <2>3. campaigns'[c].paused = FALSE
    BY <1>2 DEF NewCampaign
  <2>4. QED BY <2>1, <2>2, <2>3
<1>3. ASSUME NEW n, campaigns'[c] = Recalculated(c, n)
      PROVE  campaigns'[c].paused = campaigns[c].paused
  BY <1>1, <1>3 DEF Recalculated, CampaignRow
<1>4. ASSUME \E k \in Clients : request[k].pc = "pause" /\ request[k].camp = c,
             campaigns'[c] = PausedSet(campaigns[c], TRUE), UNCHANGED lateSends
      PROVE  c \in stored /\ campaigns'[c].paused /\ lateSends'[c] = lateSends[c]
  BY <1>1, <1>4 DEF PausedSet, RequestsStored, CampaignRow
<1>5. ASSUME campaigns'[c] = PausedSet(campaigns[c], FALSE)
      PROVE  ~campaigns'[c].paused
  BY <1>1, <1>5 DEF PausedSet, CampaignRow
<1>6. CASE \/ campaigns'[c] = Rescheduled(campaigns[c])
           \/ campaigns'[c] = Cancelled(campaigns[c])
           \/ campaigns'[c] = Released(campaigns[c])
           \/ campaigns'[c] = ReleaseReverted(campaigns[c])
  BY <1>1, <1>6 DEF Rescheduled, Cancelled, Released, ReleaseReverted, CampaignRow
<1>7. QED
  BY <1>2, <1>3, <1>4, <1>5, <1>6, CampaignChanges DEF CampaignChange

\* How the count changes: by one, for a send of a prepared message of a paused campaign.
LEMMA LateSendChanges ==
  ASSUME TypeOK, [Next]_vars, NEW c \in Campaigns
  PROVE  \/ lateSends'[c] = lateSends[c]
         \/ lateSends'[c] = 0
         \/ /\ \E p \in Procs : /\ Worker(p) /\ SendText(p) /\ Preparing(p)
                                /\ CampaignOf[worker[p].msg] = c
            /\ campaigns[c].paused
            /\ lateSends'[c] = lateSends[c] + 1
<1>1. lateSends \in [Campaigns -> Nat]
  BY DEF TypeOK, StoreTypeOK
<1>2. CASE UNCHANGED lateSends
  BY <1>2
<1>3. ASSUME NEW p \in Procs, Worker(p), SendText(p)
      PROVE  \/ lateSends'[c] = lateSends[c]
             \/ /\ Preparing(p) /\ CampaignOf[worker[p].msg] = c
                /\ campaigns[c].paused
                /\ lateSends'[c] = lateSends[c] + 1
  BY <1>1, <1>3 DEF SendText, At, Preparing
<1>4. ASSUME NEW p \in Procs, Worker(p), ~SendText(p)
      PROVE  UNCHANGED lateSends
  BY <1>4
  DEF Worker, WorkerStep, HandleJob, Pop, PopLost, PopTimesOut, GetMessage, GetCampaign,
      ReadFails, RequeuePaused, BeginAttempt, CountForRecalculation, ApplyRecalculation,
      RecalculationFails, WaitForCadence, RecordSent, RecordRetry, RecordFailure,
      ScheduleRetry, TimerFires, TimerCancelled, ClaimDueRetryJobs, QueueClaimed, storeVars,
      dispatchVars
<1>5. ASSUME NEW k \in Clients, Client(k)
      PROVE  lateSends'[c] = lateSends[c] \/ lateSends'[c] = 0
  <2>1. CASE ResumeCampaign(k)
    BY <2>1, <1>1 DEF ResumeCampaign
  <2>2. CASE ~ResumeCampaign(k)
    BY <1>5, <2>2
    DEF Client, ClientStep, CreateLooksUp, RescheduleReads, CancelReads, PauseReads,
        ResumeReads, Begin, InsertCampaign, PublishCreated, UpdateSchedule, CancelCampaign,
        PauseCampaign, CountResumed, ApplyResumed, storeVars
  <2>3. QED BY <2>1, <2>2
<1>6. ASSUME NEW p \in Procs, Scheduler(p)
      PROVE  UNCHANGED lateSends
  BY <1>6
  DEF Scheduler, SchedulerStep, ClaimDueScheduled, PublishReleased, RevertRelease, storeVars
<1>7. ASSUME NEW t \in Trackers, Tracker(t)
      PROVE  UNCHANGED lateSends
  BY <1>7
  DEF Tracker, TrackerStep, ReceiveEvent, MarkMessage, CountTouched, ApplyTouched, TrackFails,
      storeVars
<1>8. QED
  BY <1>2, <1>3, <1>4, <1>5, <1>6, <1>7
  DEF Next, Stop, StopScheduler, Exit, Crash, Start, PushAgain, vars, dispatchVars, storeVars

\* Only a stored campaign is paused, and it stays stored.
LEMMA PausesStoredStep ==
  ASSUME TypeOK, RequestsStored, PausesStored, [Next]_vars
  PROVE  PausesStored'
BY StoredGrows, PausedChanges DEF PausesStored

\* A handler that prepares a send did so before the step, or has just read that the
\* campaign is not paused; a send is not part of the step.
LEMMA PreparingEntered ==
  ASSUME TypeOK, NEW p \in Procs, WorkerStep(p), Preparing(p)'
  PROVE  /\ worker[p].msg \in Messages /\ worker'[p].msg = worker[p].msg
         /\ ~SendText(p)
         /\ \/ Preparing(p)
            \/ ~campaigns[CampaignOf[worker[p].msg]].paused
<1> USE DEF At, Goto, EndJob
<1>1. worker \in [Procs -> {Idle} \union Handling] /\ Idle.pc = "pop"
  BY DEF TypeOK, WorkerTypeOK, Idle
<1>2. worker[p].pc # "pop" => worker[p] \in Handling
  BY <1>1
<1>3. worker'[p] # Idle
  BY <1>1 DEF Preparing
<1>4. CASE worker'[p] = worker[p] /\ ~SendText(p)
  BY <1>1, <1>3, <1>4 DEF Preparing, Handling
<1>5. ASSUME Pop(p) \/ GetMessage(p) \/ ReadFails(p) \/ RequeuePaused(p) \/ ScheduleRetry(p)
      PROVE  FALSE
  <2>1. CASE Pop(p)
    BY <2>1, <1>1 DEF Pop, Preparing
  <2>2. CASE GetMessage(p)
    BY <2>2, <1>1, <1>2, <1>3 DEF GetMessage, Preparing, Handling
  <2>3. CASE ReadFails(p) \/ RequeuePaused(p) \/ ScheduleRetry(p)
    BY <2>3, <1>1, <1>3 DEF ReadFails, RequeuePaused, ScheduleRetry
  <2>4. QED BY <1>5, <2>1, <2>2, <2>3
<1>6. CASE GetCampaign(p)
  BY <1>6, <1>1, <1>2, <1>3 DEF GetCampaign, SendText, Preparing, Handling
<1>7. ASSUME NEW next \in {"pop", "cadence", "scheduleRetry"}, Recalculate(p, next),
             worker[p].pc # "pop"
      PROVE  /\ next = "cadence" /\ worker[p].msg \in Messages
             /\ worker'[p].msg = worker[p].msg
  BY <1>7, <1>1, <1>2 DEF Recalculate, Preparing, Handling
<1>8. CASE BeginAttempt(p)
  BY <1>8, <1>1, <1>3, <1>7 DEF BeginAttempt, SendText, Preparing
<1>9. ASSUME RecordSent(p) \/ RecordRetry(p) \/ RecordFailure(p)
      PROVE  FALSE
  BY <1>9, <1>1, <1>3, <1>7 DEF RecordSent, RecordRetry, RecordFailure
<1>10. CASE CountForRecalculation(p)
  BY <1>10, <1>1, <1>2 DEF CountForRecalculation, SendText, Preparing, Handling
<1>11. CASE ApplyRecalculation(p) \/ RecalculationFails(p)
  <2> DEFINE Old == worker[p]
             New == [Old EXCEPT !.pc = Old.next, !.counts = NoCounts, !.next = "pop"]
  <2>1. Old.pc \in {"count", "apply"} /\ Old \in Handling
    BY <1>2, <1>11 DEF ApplyRecalculation, RecalculationFails
  <2>2. worker'[p] = New
    BY <1>1, <1>3, <1>11 DEF ApplyRecalculation, RecalculationFails, AfterRecalculation
  <2>3. New.pc = Old.next /\ New.msg = Old.msg /\ New.next = "pop"
        /\ Old.msg \in Messages /\ Old.next \in {"pop", "cadence", "scheduleRetry"}
    <3> HIDE DEF Old
    <3>1. QED BY <2>1 DEF Handling
  <2>4. Old.next = "cadence"
    <3> HIDE DEF Old, New
    <3>1. QED BY <2>2, <2>3 DEF Preparing
  <2>5. QED BY <2>1, <2>2, <2>3, <2>4 DEF Preparing, SendText
<1>12. CASE WaitForCadence(p)
  BY <1>12, <1>1, <1>2, <1>3 DEF WaitForCadence, SendText, Preparing, Handling
<1>13. ASSUME SendText(p)
       PROVE  FALSE
  <2>1. PICK pc \in {"markSent", "markRetry", "markFailed"} : Goto(p, pc)
    BY <1>13 DEF SendText
  <2>2. worker'[p].pc = pc
    BY <2>1, <1>1, <1>2, <1>13 DEF SendText, Handling
  <2>3. QED BY <2>2 DEF Preparing
<1>14. CASE PopLost(p) \/ PopTimesOut(p) \/ ClaimDueRetryJobs(p)
  BY <1>4, <1>13, <1>14
  DEF PopLost, PopTimesOut, ClaimDueRetryJobs, dispatchVars, workerVars
<1>15. ASSUME NEW m \in Messages, TimerFires(p, m) \/ TimerCancelled(p, m) \/ QueueClaimed(p, m)
       PROVE  worker'[p] = worker[p] /\ ~SendText(p)
  BY <1>13, <1>15 DEF TimerFires, TimerCancelled, QueueClaimed
<1>16. QED
  BY <1>4, <1>5, <1>6, <1>8, <1>9, <1>10, <1>11, <1>12, <1>13, <1>14, <1>15
  DEF WorkerStep, HandleJob

\* No step starts a send of a paused campaign (GetCampaign puts the job back): whoever
\* prepares one has begun before the pause.
LEMMA PreparersShrink ==
  ASSUME TypeOK, [Next]_vars, NEW c \in Campaigns, campaigns[c].paused
  PROVE  Preparers(c)' \subseteq Preparers(c)
<1> SUFFICES ASSUME NEW p \in Procs, Preparing(p)', CampaignOf[worker'[p].msg] = c
             PROVE  Preparing(p) /\ CampaignOf[worker[p].msg] = c
  BY DEF Preparers
<1>1. CASE Worker(p)
  BY <1>1, PreparingEntered DEF Worker
<1>2. CASE ~Worker(p)
  <2>1. worker'[p] # Idle
    BY DEF Preparing, Idle
  <2>2. worker'[p] = worker[p]
    BY <1>2, <2>1, WorkerElsewhere
  <2>3. QED BY <2>2 DEF Preparing
<1>3. QED BY <1>1, <1>2

\* The flag and the count after a step.
LEMMA LateOnlyPausedStep ==
  ASSUME TypeOK, PauseInv, [Next]_vars
  PROVE  LateOnlyPaused'
<1> SUFFICES ASSUME NEW c \in Campaigns, ~campaigns'[c].paused
             PROVE  lateSends'[c] = 0
  BY DEF LateOnlyPaused
<1>1. ~campaigns[c].paused => lateSends[c] = 0
  BY DEF PauseInv, LateOnlyPaused
<1>2. \/ campaigns'[c].paused = campaigns[c].paused
      \/ ~campaigns'[c].paused /\ lateSends'[c] = 0
  BY PausedChanges DEF PauseInv
<1>3. ASSUME NEW p \in Procs, SendText(p), campaigns[c].paused
      PROVE  FALSE
  BY <1>3 DEF SendText
<1>4. QED BY <1>1, <1>2, <1>3, LateSendChanges

\* A late send takes its process out of those that prepare one.
LEMMA PreparedInTimeStep ==
  ASSUME TypeOK, PauseInv, [Next]_vars
  PROVE  PreparedInTime'
<1> SUFFICES ASSUME NEW c \in Campaigns
             PROVE  lateSends'[c] + Cardinality(Preparers(c)') <= Cardinality(Procs)
  BY DEF PreparedInTime
<1> DEFINE N == Cardinality(Procs)
           Now == Preparers(c)
           After == Preparers(c)'
<1>1. /\ IsFiniteSet(Now) /\ Cardinality(Now) \in Nat /\ N \in Nat
      /\ lateSends[c] \in Nat /\ lateSends[c] + Cardinality(Now) <= N
  BY PreparersFinite DEF PauseInv, PreparedInTime, TypeOK, StoreTypeOK
<1>2. /\ IsFiniteSet(After) /\ Cardinality(After) \in Nat /\ Cardinality(After) <= N
  <2>1. After \subseteq Procs
    BY DEF Preparers
  <2>2. QED BY <2>1, QueueAssumption, FS_Subset, FS_CardinalityType
<1> HIDE DEF N, Now, After
<1>3. CASE lateSends'[c] = 0
  BY <1>2, <1>3 DEF N, After
<1>4. CASE lateSends'[c] # 0
  <2>1. campaigns'[c].paused
    BY <1>4, LateOnlyPausedStep DEF LateOnlyPaused
  <2>2. CASE campaigns[c].paused
    <3>1. After \subseteq Now
      BY <2>2, PreparersShrink DEF After, Now
    <3>2. CASE lateSends'[c] = lateSends[c]
      <4>1. Cardinality(After) <= Cardinality(Now)
        BY <3>1, <1>1, FS_Subset
      <4>2. QED BY <4>1, <3>2, <1>1, <1>2 DEF N, After
    <3>3. ASSUME NEW p \in Procs, Worker(p), SendText(p), Preparing(p),
                 CampaignOf[worker[p].msg] = c, lateSends'[c] = lateSends[c] + 1
          PROVE  lateSends'[c] + Cardinality(After) <= N
      <4>1. p \in Now
        BY <3>3 DEF Preparers, Now
      <4>2. p \notin After
        BY <3>3, PreparingEntered DEF Preparers, After, Worker
      <4>3. Cardinality(Now \ {p}) = Cardinality(Now) - 1 /\ IsFiniteSet(Now \ {p})
        BY <4>1, <1>1, FS_RemoveElement
      <4>4. Cardinality(After) <= Cardinality(Now \ {p})
        BY <3>1, <4>2, <4>3, FS_Subset
      <4>5. QED BY <4>3, <4>4, <3>3, <1>1, <1>2
    <3>4. QED BY <1>4, <3>2, <3>3, LateSendChanges DEF N, After
  <2>3. CASE ~campaigns[c].paused
    <3>1. lateSends[c] = 0
      BY <2>3 DEF PauseInv, LateOnlyPaused
    <3>2. lateSends'[c] = lateSends[c]
      BY <2>1, <2>3, PausedChanges DEF PauseInv
    <3>3. QED BY <1>4, <3>1, <3>2
  <2>4. QED BY <2>2, <2>3
<1>5. QED BY <1>3, <1>4

\* A pause lets at most one send of each process through, the one it was preparing, for any
\* number of processes and however the requests interleave with them.
THEOREM PauseTheorem == Spec => []LateSendsBounded
<1>1. TypeOK /\ PauseInv /\ [Next]_vars => PauseInv'
  BY PreparedInTimeStep, LateOnlyPausedStep, PausesStoredStep, RequestsStoredStep DEF PauseInv
<1>2. TypeOK /\ PauseInv => LateSendsBounded
  <2> SUFFICES ASSUME TypeOK, PauseInv, NEW c \in Campaigns
               PROVE  lateSends[c] <= Cardinality(Procs)
    BY DEF LateSendsBounded
  <2>1. lateSends[c] \in Nat /\ lateSends[c] + Cardinality(Preparers(c)) <= Cardinality(Procs)
    BY DEF PauseInv, PreparedInTime, TypeOK, StoreTypeOK
  <2>2. QED BY <2>1, PreparersFinite
<1>3. QED BY <1>1, <1>2, InitPause, TypeCorrect, PTL DEF Spec

------------------------------------------------------------------------------
(* ImplementsPlan *)

\* What a step can do to the release the scheduler of p has in hand.
ReleaseChange(p) ==
  \/ release'[p] \in {release[p], NoRelease}
  \/ \E c \in release[p].todo :
       release'[p] \in {[todo |-> release[p].todo \ {c}, revert |-> release[p].revert],
                        [todo |-> {}, revert |-> {c}]}
  \/ /\ release[p] = NoRelease
     /\ \E due \in SUBSET {c \in stored : DueForRelease(campaigns[c])} :
          /\ release'[p] = [todo |-> due, revert |-> {}]
          /\ \A c \in due : campaigns'[c] = Released(campaigns[c])
     /\ \A q \in Procs \ {p} : release'[q] = release[q]

\* Whatever the service does, a release goes on as ReleaseChange says.
LEMMA ReleaseChanges ==
  ASSUME TypeOK, [Next]_vars, NEW p \in Procs
  PROVE  ReleaseChange(p)
<1>1. release \in [Procs -> [todo: SUBSET Campaigns, revert: SUBSET Campaigns]]
  BY DEF TypeOK, ServiceTypeOK
<1>2. CASE ClaimDueScheduled(p)
  <2>1. PICK due \in SUBSET {c \in stored : DueForRelease(campaigns[c])} :
          /\ campaigns' = [c \in Campaigns |-> IF c \in due THEN Released(campaigns[c])
                                              ELSE campaigns[c]]
          /\ release' = [release EXCEPT ![p].todo = due] \/ UNCHANGED release
    BY <1>2 DEF ClaimDueScheduled
  <2>2. release[p] = NoRelease
    BY <1>2 DEF ClaimDueScheduled
  <2>3. \A c \in due : campaigns'[c] = Released(campaigns[c])
    BY <2>1 DEF TypeOK, StoreTypeOK
  <2>4. CASE UNCHANGED release
    BY <2>4 DEF ReleaseChange
  <2>5. CASE release' = [release EXCEPT ![p].todo = due]
    <3>1. release'[p] = [todo |-> due, revert |-> {}]
      BY <2>2, <2>5, <1>1 DEF NoRelease
    <3>2. \A q \in Procs \ {p} : release'[q] = release[q]
      BY <2>5, <1>1
    <3>3. QED BY <2>2, <2>3, <3>1, <3>2 DEF ReleaseChange
  <2>6. QED BY <2>1, <2>4, <2>5
<1>3. ASSUME NEW c \in Campaigns, PublishReleased(p, c)
      PROVE  ReleaseChange(p)
  <2>1. c \in release[p].todo
    BY <1>3 DEF PublishReleased
  <2>2. \/ release' = [release EXCEPT ![p].todo = @ \ {c}]
        \/ release' = [release EXCEPT ![p] = [todo |-> {}, revert |-> {c}]]
    BY <1>3 DEF PublishReleased
  <2>3. \/ release'[p] = [todo |-> release[p].todo \ {c}, revert |-> release[p].revert]
        \/ release'[p] = [todo |-> {}, revert |-> {c}]
    BY <2>2, <1>1
  <2>4. QED BY <2>1, <2>3 DEF ReleaseChange
<1>4. ASSUME NEW c \in Campaigns, RevertRelease(p, c)
      PROVE  ReleaseChange(p)
  BY <1>4, <1>1 DEF RevertRelease, ReleaseChange
<1>5. ASSUME NEW q \in Procs, SchedulerStep(q), q # p
      PROVE  ReleaseChange(p)
  <2>1. release'[p] = release[p]
    BY <1>5, <1>1 DEF SchedulerStep, ClaimDueScheduled, PublishReleased, RevertRelease
  <2>2. QED BY <2>1 DEF ReleaseChange
<1>6. CASE ~(\E q \in Procs : Scheduler(q))
  <2>1. release'[p] = release[p] \/ release'[p] = NoRelease
    BY <1>1, <1>6
    DEF Next, Worker, Tracker, Client, ClientStep, CreateLooksUp, RescheduleReads, CancelReads,
        PauseReads, ResumeReads, Begin, InsertCampaign, PublishCreated, UpdateSchedule,
        CancelCampaign, PauseCampaign, ResumeCampaign, CountResumed, ApplyResumed, Stop,
        StopScheduler, Exit, Crash, Start, PushAgain, ServiceLost, vars, serviceVars
  <2>2. QED BY <2>1 DEF ReleaseChange
<1>7. QED BY <1>2, <1>3, <1>4, <1>5, <1>6 DEF Scheduler, SchedulerStep

\* A release in hand is that of a campaign released and not yet taken back, in the hands of
\* one scheduler.
ReleasesHeld ==
  \A p \in Procs : \A c \in Releasing(p) :
    /\ c \in stored
    /\ campaigns[c].send_mode = "scheduled"
    /\ campaigns[c].released_at
    /\ \A q \in Procs : c \in Releasing(q) => q = p

\* A scheduler that reverts a release has given up the rest.
OneReverted ==
  \A p \in Procs : release[p].revert # {} =>
    \E c \in Campaigns : release[p] = [todo |-> {}, revert |-> {c}]

\* Released campaigns are not cancelled.
NeverBoth == \A c \in stored : ~(campaigns[c].released_at /\ campaigns[c].cancelled_at)

\* A campaign that is being cancelled was scheduled, and is never to be sent at once again.
CancelsScheduled ==
  \A k \in Clients :
    request[k].pc = "cancel" => campaigns[request[k].camp].send_mode = "scheduled"

PlanInv == RequestsStored /\ ReleasesHeld /\ OneReverted /\ NeverBoth /\ CancelsScheduled

\* The invariant holds initially: nothing is requested or released.
LEMMA InitPlan == Init => PlanInv
<1> SUFFICES ASSUME Init PROVE PlanInv
  OBVIOUS
<1>1. /\ \A k \in Clients : request[k].pc = "idle"
      /\ \A p \in Procs : release[p] = [todo |-> {}, revert |-> {}]
  BY DEF Init, ServiceInit, NoRequest, NoRelease
<1>2. \A p \in Procs : Releasing(p) = {} /\ release[p].revert = {}
  BY <1>1 DEF Releasing
<1>3. NeverBoth
  BY ExistingAssumption DEF Init, NewCampaign, NeverBoth
<1>4. QED
  BY <1>1, <1>2, <1>3
  DEF PlanInv, RequestsStored, ReleasesHeld, OneReverted, CancelsScheduled

\* A stored campaign that is to be sent later stays so; while it is released only the
\* scheduler that holds its release makes it anything else.
LEMMA ScheduledRowStep ==
  ASSUME TypeOK, [Next]_vars, NEW c \in stored, campaigns[c].send_mode = "scheduled"
  PROVE  /\ campaigns'[c].send_mode = "scheduled"
         /\ campaigns[c].released_at =>
              \/ campaigns'[c].released_at
              \/ \E p \in Procs : c \in release[p].revert /\ release'[p] = NoRelease
<1>1. c \in Campaigns /\ campaigns[c] \in CampaignRow
  BY DEF TypeOK, StoreTypeOK
<1>2. ASSUME NEW n, campaigns'[c] = Recalculated(c, n)
      PROVE  /\ campaigns'[c].send_mode = campaigns[c].send_mode
             /\ campaigns'[c].released_at = campaigns[c].released_at
  BY <1>1, <1>2 DEF Recalculated, CampaignRow
<1>3. CASE \/ campaigns'[c] = PausedSet(campaigns[c], TRUE)
           \/ campaigns'[c] = PausedSet(campaigns[c], FALSE)
           \/ campaigns'[c] = Released(campaigns[c])
           \/ Reschedulable(campaigns[c]) /\ campaigns'[c] = Rescheduled(campaigns[c])
           \/ Reschedulable(campaigns[c]) /\ campaigns'[c] = Cancelled(campaigns[c])
  BY <1>1, <1>3
  DEF PausedSet, Released, Reschedulable, Rescheduled, Cancelled, CampaignRow
<1>4. CASE /\ campaigns'[c] = ReleaseReverted(campaigns[c])
            /\ \E p \in Procs : c \in release[p].revert /\ release'[p] = NoRelease
  BY <1>1, <1>4 DEF ReleaseReverted, CampaignRow
<1>5. CASE campaigns'[c] = campaigns[c]
  BY <1>5
<1>6. QED BY <1>1, <1>2, <1>3, <1>4, <1>5, CampaignChanges DEF CampaignChange

\* A scheduler holds what it held before, or has just claimed it.
LEMMA ReleasingStep ==
  ASSUME TypeOK, [Next]_vars, NEW p \in Procs, NEW c \in Releasing(p)', c \notin Releasing(p)
  PROVE  /\ c \in stored /\ DueForRelease(campaigns[c])
         /\ campaigns'[c] = Released(campaigns[c])
         /\ \A q \in Procs \ {p} : release'[q] = release[q]
<1>1. c \in release'[p].todo \union release'[p].revert
  BY DEF Releasing
<1>2. c \notin release[p].todo /\ c \notin release[p].revert
  BY DEF Releasing
<1>3. CASE release'[p] \in {release[p], NoRelease}
  BY <1>1, <1>2, <1>3 DEF NoRelease
<1>4. ASSUME NEW e \in release[p].todo,
             release'[p] \in {[todo |-> release[p].todo \ {e}, revert |-> release[p].revert],
                              [todo |-> {}, revert |-> {e}]}
      PROVE  FALSE
  BY <1>1, <1>2, <1>4
<1>5. CASE /\ release[p] = NoRelease
           /\ \E due \in SUBSET {e \in stored : DueForRelease(campaigns[e])} :
                /\ release'[p] = [todo |-> due, revert |-> {}]
                /\ \A e \in due : campaigns'[e] = Released(campaigns[e])
           /\ \A q \in Procs \ {p} : release'[q] = release[q]
  BY <1>1, <1>5
<1>6. QED BY <1>3, <1>4, <1>5, ReleaseChanges DEF ReleaseChange

\* Releases stay held by one scheduler: what is due is released already for any other.
LEMMA ReleasesHeldStep ==
  ASSUME TypeOK, PlanInv, [Next]_vars
  PROVE  ReleasesHeld'
<1> SUFFICES ASSUME NEW p \in Procs, NEW c \in Releasing(p)'
             PROVE  /\ c \in stored'
                    /\ campaigns'[c].send_mode = "scheduled"
                    /\ campaigns'[c].released_at
                    /\ \A q \in Procs : c \in Releasing(q)' => q = p
  BY DEF ReleasesHeld
<1>1. \A q \in Procs : c \in Releasing(q) =>
        /\ c \in stored /\ campaigns[c].send_mode = "scheduled" /\ campaigns[c].released_at
        /\ \A r \in Procs : c \in Releasing(r) => r = q
  BY DEF PlanInv, ReleasesHeld
<1>2. CASE c \in Releasing(p)
  <2>1. c \in stored /\ campaigns[c].send_mode = "scheduled" /\ campaigns[c].released_at
    BY <1>1, <1>2
  <2>2. ASSUME NEW q \in Procs, c \in release[q].revert, release'[q] = NoRelease
        PROVE  FALSE
    <3>1. q = p
      BY <1>1, <1>2, <2>2 DEF Releasing
    <3>2. QED BY <2>2, <3>1 DEF Releasing, NoRelease
  <2>3. campaigns'[c].send_mode = "scheduled" /\ campaigns'[c].released_at
    BY <2>1, <2>2, ScheduledRowStep
  <2>4. ASSUME NEW q \in Procs, c \in Releasing(q)', q # p
        PROVE  FALSE
    <3>1. c \notin Releasing(q)
      BY <1>1, <1>2, <2>4
    <3>2. QED BY <2>1, <2>4, <3>1, ReleasingStep DEF DueForRelease
  <2>5. QED BY <2>1, <2>3, <2>4, StoredGrows
<1>3. CASE c \notin Releasing(p)
  <2>1. /\ c \in stored /\ DueForRelease(campaigns[c])
        /\ campaigns'[c] = Released(campaigns[c])
        /\ \A q \in Procs \ {p} : release'[q] = release[q]
    BY <1>3, ReleasingStep
  <2>2. campaigns[c] \in CampaignRow
    BY <2>1 DEF TypeOK, StoreTypeOK
  <2>3. campaigns'[c].send_mode = "scheduled" /\ campaigns'[c].released_at
    BY <2>1, <2>2 DEF DueForRelease, Released, CampaignRow
  <2>4. ASSUME NEW q \in Procs, c \in Releasing(q)', q # p
        PROVE  FALSE
    <3>1. c \in Releasing(q)
      BY <2>1, <2>4 DEF Releasing
    <3>2. QED BY <1>1, <2>1, <3>1 DEF DueForRelease
  <2>5. QED BY <2>1, <2>3, <2>4, StoredGrows
<1>4. QED BY <1>2, <1>3

\* No statement leaves a stored campaign both released and cancelled.
LEMMA NeverBothStep ==
  ASSUME TypeOK, PlanInv, [Next]_vars
  PROVE  NeverBoth'
<1> SUFFICES ASSUME NEW c \in stored', campaigns'[c].released_at, campaigns'[c].cancelled_at
             PROVE  FALSE
  BY DEF NeverBoth
<1>1. stored' \subseteq Campaigns
  BY NextKeepsTypes DEF TypeOK, StoreTypeOK
<1>2. c \in Campaigns /\ campaigns[c] \in CampaignRow
  BY <1>1 DEF TypeOK, StoreTypeOK
<1>3. c \in stored => ~(campaigns[c].released_at /\ campaigns[c].cancelled_at)
  BY DEF PlanInv, NeverBoth
<1>4. CASE c \notin stored
  <2>1. \E mode : campaigns'[c] = NewCampaign(c, mode)
    BY <1>2, <1>4, StoredNew
  <2>2. QED BY <2>1 DEF NewCampaign
<1>5. CASE c \in stored
  <2>1. ASSUME NEW n, campaigns'[c] = Recalculated(c, n)
        PROVE  FALSE
    BY <1>2, <1>3, <1>5, <2>1 DEF Recalculated, CampaignRow
  <2>2. CASE \/ campaigns'[c] = PausedSet(campaigns[c], TRUE)
             \/ campaigns'[c] = PausedSet(campaigns[c], FALSE)
             \/ campaigns'[c] = ReleaseReverted(campaigns[c])
             \/ DueForRelease(campaigns[c]) /\ campaigns'[c] = Released(campaigns[c])
    BY <1>2, <1>3, <1>5, <2>2
    DEF PausedSet, ReleaseReverted, DueForRelease, Released, CampaignRow
  <2>3. CASE \/ Reschedulable(campaigns[c]) /\ campaigns'[c] = Rescheduled(campaigns[c])
             \/ Reschedulable(campaigns[c]) /\ campaigns'[c] = Cancelled(campaigns[c])
    BY <1>2, <2>3 DEF Reschedulable, Rescheduled, Cancelled, CampaignRow
  <2>4. QED BY <1>2, <1>3, <1>5, <2>1, <2>2, <2>3, CampaignChanges DEF CampaignChange
<1>6. QED BY <1>4, <1>5

\* Every step keeps the invariant of releases.
LEMMA PlanInvStep ==
  ASSUME TypeOK, ScheduledNotReleased, PlanInv, [Next]_vars
  PROVE  PlanInv'
<1>1. RequestsStored' /\ ReleasesHeld' /\ NeverBoth'
  BY RequestsStoredStep, ReleasesHeldStep, NeverBothStep DEF PlanInv
<1>2. OneReverted'
  <2> SUFFICES ASSUME NEW p \in Procs, release'[p].revert # {}
               PROVE  \E c \in Campaigns : release'[p] = [todo |-> {}, revert |-> {c}]
    BY DEF OneReverted
  <2>1. release[p].todo \in SUBSET Campaigns
    BY DEF TypeOK, ServiceTypeOK
  <2>2. release[p].revert # {} =>
          \E c \in Campaigns : release[p] = [todo |-> {}, revert |-> {c}]
    BY DEF PlanInv, OneReverted
  <2>3. CASE release'[p] = release[p]
    BY <2>2, <2>3
  <2>4. ASSUME NEW c \in release[p].todo,
               release'[p] = [todo |-> release[p].todo \ {c}, revert |-> release[p].revert]
        PROVE  FALSE
    <3>1. release[p].revert # {}
      BY <2>4
    <3>2. PICK e \in Campaigns : release[p] = [todo |-> {}, revert |-> {e}]
      BY <2>2, <3>1
    <3>3. QED BY <2>4, <3>2
  <2>5. ASSUME NEW c \in release[p].todo, release'[p] = [todo |-> {}, revert |-> {c}]
        PROVE  \E e \in Campaigns : release'[p] = [todo |-> {}, revert |-> {e}]
    BY <2>1, <2>5
  <2>6. ASSUME NEW due, release'[p] = [todo |-> due, revert |-> {}]
        PROVE  FALSE
    BY <2>6
  <2>7. QED
    BY <2>3, <2>4, <2>5, <2>6, ReleaseChanges DEF ReleaseChange, NoRelease
<1>3. CancelsScheduled'
  <2> SUFFICES ASSUME NEW k \in Clients, request'[k].pc = "cancel"
               PROVE  campaigns'[request'[k].camp].send_mode = "scheduled"
    BY DEF CancelsScheduled
  <2>1. NoRequest.pc = "idle"
    BY DEF NoRequest
  <2>2. CASE request'[k] = request[k]
    <3>1. request[k].camp \in stored /\ campaigns[request[k].camp].send_mode = "scheduled"
      BY <2>2 DEF PlanInv, RequestsStored, CancelsScheduled
    <3>2. QED BY <2>2, <3>1, ScheduledRowStep
  <2>3. CASE /\ request'[k].camp \in stored
             /\ campaigns[request'[k].camp].status = "scheduled"
             /\ UNCHANGED campaigns
    BY <2>3 DEF ScheduledNotReleased, TypeOK, StoreTypeOK
  <2>4. QED BY <2>1, <2>2, <2>3, RequestChanges DEF RequestChange
<1>4. QED BY <1>1, <1>2, <1>3 DEF PlanInv

------------------------------------------------------------------------------
(* The steps of the service as steps of CampaignPlan *)

\* plan and held, as the refinement mapping has them.
Plans == [c \in Campaigns |-> PlanOf(c)]
Releases == UNION {Releasing(p) : p \in Procs}

\* A campaign whose columns stay has the same plan.
LEMMA PlanOfKept ==
  ASSUME NEW c, c \in stored' <=> c \in stored,
         campaigns'[c].send_mode = campaigns[c].send_mode,
         campaigns'[c].released_at = campaigns[c].released_at,
         campaigns'[c].cancelled_at = campaigns[c].cancelled_at
  PROVE  PlanOf(c)' = PlanOf(c)
BY DEF PlanOf

\* Schedulers that let go of releases, or do nothing, leave the plans alone.
LEMMA LetGoStep ==
  ASSUME \A c \in Campaigns : PlanOf(c)' = PlanOf(c),
         \A p \in Procs : Releasing(p)' \subseteq Releasing(p)
  PROVE  Plan!PlanNext
<1>1. Plans' = Plans
  BY DEF Plans
<1>2. Releases' \subseteq Releases
  BY DEF Releases
<1>3. QED BY <1>1, <1>2 DEF Plans, Releases, Plan!PlanNext, Plan!LetGo

\* A statement that changes the plan of one campaign.
LEMMA ChangeStep ==
  ASSUME NEW d \in Campaigns, NEW from, NEW to, PlanOf(d) \in from, PlanOf(d)' = to,
         \A c \in Campaigns : c # d => PlanOf(c)' = PlanOf(c), UNCHANGED release
  PROVE  Plan!Change(d, from, to)
<1>1. Plans[d] \in from /\ Plans' = [Plans EXCEPT ![d] = to]
  BY DEF Plans
<1>2. Releases' = Releases
  BY DEF Releases, Releasing
<1>3. QED BY <1>1, <1>2 DEF Plans, Releases, Plan!Change

\* The statements that leave the three columns of a row alone.
LEMMA ColumnsKept ==
  ASSUME NEW c \in Campaigns, NEW row \in CampaignRow, NEW n, NEW paused \in BOOLEAN,
         campaigns[c] = row,
         campaigns'[c] \in {row, PausedSet(row, paused), Recalculated(c, n)},
         UNCHANGED stored
  PROVE  PlanOf(c)' = PlanOf(c)
<1>1. /\ campaigns'[c].send_mode = row.send_mode
      /\ campaigns'[c].released_at = row.released_at
      /\ campaigns'[c].cancelled_at = row.cancelled_at
  BY DEF PausedSet, Recalculated, CampaignRow
<1>2. QED BY <1>1, PlanOfKept

\* The worker and the webhooks recalculate, and nothing else.
LEMMA RecalculatingKeepsPlans ==
  ASSUME TypeOK,
         \/ \E p \in Procs : Worker(p)
         \/ \E t \in Trackers : Tracker(t),
         NEW c \in Campaigns
  PROVE  PlanOf(c)' = PlanOf(c)
<1>1. campaigns \in [Campaigns -> CampaignRow] /\ campaigns[c] \in CampaignRow
  BY DEF TypeOK, StoreTypeOK
<1>2. ASSUME NEW p \in Procs, Worker(p)
      PROVE  UNCHANGED stored /\ \E n : campaigns'[c] \in {campaigns[c], Recalculated(c, n)}
  <2>1. CASE ApplyRecalculation(p)
    BY <2>1, <1>1 DEF ApplyRecalculation
  <2>2. CASE ~ApplyRecalculation(p)
    BY <1>2, <2>2
    DEF Worker, WorkerStep, HandleJob, Pop, PopLost, PopTimesOut, GetMessage, GetCampaign,
        ReadFails, RequeuePaused, BeginAttempt, CountForRecalculation, RecalculationFails,
        WaitForCadence, SendText, RecordSent, RecordRetry, RecordFailure, ScheduleRetry,
        TimerFires, TimerCancelled, ClaimDueRetryJobs, QueueClaimed, storeVars, dispatchVars
  <2>3. QED BY <2>1, <2>2
<1>3. ASSUME NEW t \in Trackers, Tracker(t)
      PROVE  UNCHANGED stored /\ \E n : campaigns'[c] \in {campaigns[c], Recalculated(c, n)}
  <2>1. CASE ApplyTouched(t)
    BY <2>1, <1>1 DEF ApplyTouched
  <2>2. CASE ~ApplyTouched(t)
    BY <1>3, <2>2
    DEF Tracker, TrackerStep, ReceiveEvent, MarkMessage, CountTouched, TrackFails, storeVars
  <2>3. QED BY <2>1, <2>2
<1>4. QED BY <1>1, <1>2, <1>3, ColumnsKept

\* A request creates, schedules or cancels, or leaves the plans alone.
LEMMA ClientPlans ==
  ASSUME TypeOK, PlanInv, NEW k \in Clients, Client(k)
  PROVE  Plan!PlanNext
<1> PICK d : d = request[k].camp
  OBVIOUS
<1>1. campaigns \in [Campaigns -> CampaignRow]
  BY DEF TypeOK, StoreTypeOK
<1>2. request[k].pc # "idle" =>
        d \in Campaigns /\ request[k].mode \in {"now", "scheduled"}
  <2>1. request[k].pc # "idle" => request[k] \in RequestState
    BY RequestSteps DEF TypeOK
  <2>2. QED BY <2>1 DEF RequestState
<1>3. UNCHANGED release
  BY DEF Client, ClientStep, CreateLooksUp, RescheduleReads, CancelReads, PauseReads,
         ResumeReads, Begin, InsertCampaign, PublishCreated, UpdateSchedule, CancelCampaign,
         PauseCampaign, ResumeCampaign, CountResumed, ApplyResumed
<1>4. ASSUME NEW row, UpdateCampaign(d, row), d \in Campaigns
      PROVE  \A c \in Campaigns : campaigns'[c] = IF c = d THEN row ELSE campaigns[c]
  BY <1>4, <1>1 DEF UpdateCampaign
<1>5. ASSUME \A c \in Campaigns : PlanOf(c)' = PlanOf(c)
      PROVE  Plan!PlanNext
  BY <1>3, <1>5, LetGoStep DEF Releasing
<1>6. CASE UNCHANGED <<stored, campaigns>>
  BY <1>5, <1>6 DEF PlanOf
<1>7. CASE InsertCampaign(k)
  <2>1. d \in Campaigns /\ request[k].mode \in {"now", "scheduled"}
    BY <1>2, <1>7 DEF InsertCampaign, Doing
  <2>2. CASE /\ d \notin stored /\ stored' = stored \union {d}
             /\ UpdateCampaign(d, NewCampaign(d, request[k].mode))
    <3>1. \A c \in Campaigns :
            campaigns'[c] = IF c = d THEN NewCampaign(d, request[k].mode) ELSE campaigns[c]
      BY <1>4, <2>1, <2>2
    <3>2. PlanOf(d) = "absent" /\ PlanOf(d)' = request[k].mode
      BY <2>1, <2>2, <3>1 DEF PlanOf, NewCampaign
    <3>3. \A c \in Campaigns : c # d => PlanOf(c)' = PlanOf(c)
      BY <2>2, <3>1 DEF PlanOf
    <3>4. Plan!Change(d, {"absent"}, request[k].mode)
      BY <1>3, <2>1, <3>2, <3>3, ChangeStep
    <3>5. QED BY <2>1, <3>4 DEF Plan!PlanNext, Plan!Create
  <2>3. QED BY <1>6, <1>7, <2>2 DEF InsertCampaign
<1>8. CASE UpdateSchedule(k)
  <2>1. d \in Campaigns /\ d \in stored /\ UNCHANGED stored
    BY <1>2, <1>8 DEF UpdateSchedule, Doing, PlanInv, RequestsStored
  <2>2. CASE /\ Reschedulable(campaigns[d])
             /\ UpdateCampaign(d, Rescheduled(campaigns[d]))
    <3>1. \A c \in Campaigns :
            campaigns'[c] = IF c = d THEN Rescheduled(campaigns[d]) ELSE campaigns[c]
      BY <1>4, <2>1, <2>2
    <3>2. campaigns[d] \in CampaignRow
      BY <1>1, <2>1
    <3>3. PlanOf(d) \in {"now", "scheduled", "cancelled"} /\ PlanOf(d)' = "scheduled"
      BY <2>1, <2>2, <3>1, <3>2 DEF PlanOf, Reschedulable, Rescheduled, CampaignRow
    <3>4. \A c \in Campaigns : c # d => PlanOf(c)' = PlanOf(c)
      BY <2>1, <3>1 DEF PlanOf
    <3>5. Plan!Schedule(d)
      BY <1>3, <2>1, <3>3, <3>4, ChangeStep DEF Plan!Schedule
    <3>6. QED BY <2>1, <3>5 DEF Plan!PlanNext
  <2>3. CASE UpdateCampaign(d, campaigns[d])
    <3>1. \A c \in Campaigns : campaigns'[c] = campaigns[c]
      BY <1>4, <2>1, <2>3
    <3>2. QED BY <1>5, <2>1, <3>1 DEF PlanOf
  <2>4. QED BY <1>6, <1>8, <2>1, <2>2, <2>3 DEF UpdateSchedule
<1>9. CASE CancelCampaign(k)
  <2>1. /\ d \in Campaigns /\ d \in stored /\ UNCHANGED stored
        /\ campaigns[d].send_mode = "scheduled"
    BY <1>2, <1>9
    DEF CancelCampaign, Doing, PlanInv, RequestsStored, CancelsScheduled
  <2>2. CASE Reschedulable(campaigns[d]) /\ UpdateCampaign(d, Cancelled(campaigns[d]))
    <3>1. \A c \in Campaigns :
            campaigns'[c] = IF c = d THEN Cancelled(campaigns[d]) ELSE campaigns[c]
      BY <1>4, <2>1, <2>2
    <3>2. campaigns[d] \in CampaignRow
      BY <1>1, <2>1
    <3>3. PlanOf(d) \in {"scheduled", "cancelled"} /\ PlanOf(d)' = "cancelled"
      BY <2>1, <2>2, <3>1, <3>2 DEF PlanOf, Reschedulable, Cancelled, CampaignRow
    <3>4. \A c \in Campaigns : c # d => PlanOf(c)' = PlanOf(c)
      BY <2>1, <3>1 DEF PlanOf
    <3>5. Plan!Cancel(d)
      BY <1>3, <2>1, <3>3, <3>4, ChangeStep DEF Plan!Cancel
    <3>6. QED BY <2>1, <3>5 DEF Plan!PlanNext
  <2>3. CASE UpdateCampaign(d, campaigns[d])
    <3>1. \A c \in Campaigns : campaigns'[c] = campaigns[c]
      BY <1>4, <2>1, <2>3
    <3>2. QED BY <1>5, <2>1, <3>1 DEF PlanOf
  <2>4. QED BY <1>6, <1>9, <2>1, <2>2, <2>3 DEF CancelCampaign
<1>10. CASE PauseCampaign(k) \/ ResumeCampaign(k) \/ ApplyResumed(k)
  <2>1. d \in Campaigns /\ UNCHANGED stored
    BY <1>2, <1>10 DEF PauseCampaign, ResumeCampaign, ApplyResumed, Doing
  <2>2. CASE \E paused \in BOOLEAN : \E n :
               \/ UpdateCampaign(d, PausedSet(campaigns[d], paused))
               \/ UpdateCampaign(d, Recalculated(d, n))
    <3>1. PICK paused \in BOOLEAN : \E n :
            \/ UpdateCampaign(d, PausedSet(campaigns[d], paused))
            \/ UpdateCampaign(d, Recalculated(d, n))
      BY <2>2
    <3> PICK n :
            \/ UpdateCampaign(d, PausedSet(campaigns[d], paused))
            \/ UpdateCampaign(d, Recalculated(d, n))
      BY <3>1
    <3>2. \A c \in Campaigns :
            campaigns'[c] \in {campaigns[c], PausedSet(campaigns[c], paused), Recalculated(c, n)}
      BY <1>4, <2>1
    <3>3. QED BY <1>1, <1>5, <2>1, <3>2, ColumnsKept
  <2>3. QED
    BY <1>6, <1>10, <2>1, <2>2 DEF PauseCampaign, ResumeCampaign, ApplyResumed
<1>11. QED
  BY <1>6, <1>7, <1>8, <1>9, <1>10
  DEF Client, ClientStep, CreateLooksUp, RescheduleReads, CancelReads, PauseReads, ResumeReads,
      Begin, PublishCreated, CountResumed, storeVars

\* A scheduler releases what is due, takes a release back, or lets go of one.
LEMMA SchedulerPlans ==
  ASSUME TypeOK, PlanInv, NEW p \in Procs, Scheduler(p)
  PROVE  Plan!PlanNext
<1>1. /\ campaigns \in [Campaigns -> CampaignRow]
      /\ release \in [Procs -> [todo: SUBSET Campaigns, revert: SUBSET Campaigns]]
      /\ UNCHANGED stored
  BY DEF TypeOK, StoreTypeOK, ServiceTypeOK, Scheduler, SchedulerStep, ClaimDueScheduled,
         PublishReleased, RevertRelease, storeVars
<1>2. ASSUME NEW new \in [todo: SUBSET Campaigns, revert: SUBSET Campaigns],
             release' = [release EXCEPT ![p] = new]
      PROVE  /\ Releasing(p)' = new.todo \union new.revert
             /\ \A q \in Procs : q # p => Releasing(q)' = Releasing(q)
  BY <1>1, <1>2 DEF Releasing
<1>3. CASE ClaimDueScheduled(p)
  <2>1. PICK due \in SUBSET {c \in stored : DueForRelease(campaigns[c])} :
          /\ campaigns' = [c \in Campaigns |-> IF c \in due THEN Released(campaigns[c])
                                              ELSE campaigns[c]]
          /\ release' = [release EXCEPT ![p].todo = due] \/ UNCHANGED release
    BY <1>3 DEF ClaimDueScheduled
  <2>2. due \subseteq Campaigns /\ due \subseteq stored
    BY DEF TypeOK, StoreTypeOK
  <2>3. \A c \in due : PlanOf(c) = "scheduled" /\ PlanOf(c)' = "released"
    <3>1. ASSUME NEW c \in due
          PROVE  PlanOf(c) = "scheduled" /\ PlanOf(c)' = "released"
      <4>1. campaigns[c] \in CampaignRow /\ DueForRelease(campaigns[c]) /\ c \in stored
        BY <1>1, <2>2
      <4>2. campaigns'[c] = Released(campaigns[c]) /\ c \in stored'
        BY <1>1, <2>1, <2>2
      <4>3. QED BY <4>1, <4>2 DEF PlanOf, DueForRelease, Released, CampaignRow
    <3>2. QED BY <3>1
  <2>4. \A c \in Campaigns \ due : PlanOf(c)' = PlanOf(c)
    BY <1>1, <2>1 DEF PlanOf
  <2>5. /\ due \subseteq {c \in Campaigns : Plans[c] = "scheduled"}
        /\ Plans' = [c \in Campaigns |-> IF c \in due THEN "released" ELSE Plans[c]]
    BY <2>2, <2>3, <2>4 DEF Plans
  <2>6. Releases' = Releases \/ Releases' = Releases \union due
    <3>1. CASE UNCHANGED release
      BY <3>1 DEF Releases, Releasing
    <3>2. CASE release' = [release EXCEPT ![p].todo = due]
      <4>1. release[p].todo = {} /\ release[p].revert = {}
        BY <1>3 DEF ClaimDueScheduled, NoRelease
      <4>2. /\ release'[p].todo = due /\ release'[p].revert = release[p].revert
            /\ \A q \in Procs : q # p => release'[q] = release[q]
        BY <1>1, <3>2
      <4>3. Releasing(p) = {} /\ Releasing(p)' = due
        BY <4>1, <4>2 DEF Releasing
      <4>4. \A q \in Procs : q # p => Releasing(q)' = Releasing(q)
        BY <4>2 DEF Releasing
      <4>5. QED BY <4>3, <4>4 DEF Releases
    <3>3. QED BY <2>1, <3>1, <3>2
  <2>7. Plan!Release(due)
    BY <2>5, <2>6 DEF Plans, Releases, Plan!Release
  <2>8. QED BY <2>2, <2>7 DEF Plan!PlanNext
<1>4. ASSUME NEW c \in Campaigns, PublishReleased(p, c)
      PROVE  Plan!PlanNext
  <2>1. c \in release[p].todo
    BY <1>4 DEF PublishReleased
  <2>2. \A e \in Campaigns : PlanOf(e)' = PlanOf(e)
    BY <1>4 DEF PublishReleased, storeVars, PlanOf
  <2>3. \A q \in Procs : q # p => release'[q] = release[q]
    BY <1>1, <1>4 DEF PublishReleased
  <2>4. \/ /\ release'[p].todo = release[p].todo \ {c}
           /\ release'[p].revert = release[p].revert
        \/ release'[p] = [todo |-> {}, revert |-> {c}]
    BY <1>1, <1>4 DEF PublishReleased
  <2>5. \A q \in Procs : Releasing(q)' \subseteq Releasing(q)
    BY <2>1, <2>3, <2>4 DEF Releasing
  <2>6. QED BY <2>2, <2>5, LetGoStep
<1>5. ASSUME NEW c \in Campaigns, RevertRelease(p, c)
      PROVE  Plan!PlanNext
  <2>1. /\ c \in release[p].revert
        /\ release' = [release EXCEPT ![p] = NoRelease]
        /\ \/ UpdateCampaign(c, ReleaseReverted(campaigns[c]))
           \/ UNCHANGED campaigns
    BY <1>5 DEF RevertRelease
  <2>2. PICK d \in Campaigns : release[p] = [todo |-> {}, revert |-> {d}]
    BY <2>1 DEF PlanInv, OneReverted
  <2>3. release[p] = [todo |-> {}, revert |-> {c}]
    BY <2>1, <2>2
  <2>4. /\ Releasing(p) = {c} /\ Releasing(p)' = {}
        /\ \A q \in Procs : q # p => Releasing(q)' = Releasing(q)
    BY <1>1, <2>1, <2>3 DEF Releasing, NoRelease
  <2>5. CASE UNCHANGED campaigns
    <3>1. \A e \in Campaigns : PlanOf(e)' = PlanOf(e)
      BY <1>1, <2>5 DEF PlanOf
    <3>2. QED BY <2>4, <3>1, LetGoStep
  <2>6. CASE UpdateCampaign(c, ReleaseReverted(campaigns[c]))
    <3>1. /\ c \in stored /\ campaigns[c].send_mode = "scheduled" /\ campaigns[c].released_at
          /\ \A q \in Procs : c \in Releasing(q) => q = p
      BY <2>4 DEF PlanInv, ReleasesHeld
    <3>2. ~campaigns[c].cancelled_at
      BY <3>1 DEF PlanInv, NeverBoth
    <3>3. \A e \in Campaigns :
            campaigns'[e] = IF e = c THEN ReleaseReverted(campaigns[c]) ELSE campaigns[e]
      BY <1>1, <2>6 DEF UpdateCampaign
    <3>4. campaigns[c] \in CampaignRow
      BY <1>1
    <3>5. PlanOf(c) = "released" /\ PlanOf(c)' = "scheduled"
      BY <1>1, <3>1, <3>2, <3>3, <3>4 DEF PlanOf, ReleaseReverted, CampaignRow
    <3>6. \A e \in Campaigns : e # c => PlanOf(e)' = PlanOf(e)
      BY <1>1, <3>3 DEF PlanOf
    <3>7. Plans[c] = "released" /\ Plans' = [Plans EXCEPT ![c] = "scheduled"]
      BY <3>5, <3>6 DEF Plans
    <3>8. c \in Releases /\ Releases' = Releases \ {c}
      BY <2>4, <3>1 DEF Releases
    <3>9. Plan!TakeBack(c)
      BY <3>7, <3>8 DEF Plans, Releases, Plan!TakeBack
    <3>10. QED BY <3>9 DEF Plan!PlanNext
  <2>7. QED BY <2>1, <2>5, <2>6
<1>6. QED BY <1>3, <1>4, <1>5 DEF Scheduler, SchedulerStep

\* Every step of the service is a step of CampaignPlan.
LEMMA PlanSteps ==
  ASSUME TypeOK, PlanInv, [Next]_vars
  PROVE  Plan!PlanNext
<1>1. CASE \/ \E p \in Procs : Worker(p)
           \/ \E t \in Trackers : Tracker(t)
  <2>1. \A p \in Procs : Releasing(p)' \subseteq Releasing(p)
    BY <1>1 DEF Worker, Tracker, serviceVars, Releasing
  <2>2. \A c \in Campaigns : PlanOf(c)' = PlanOf(c)
    BY <1>1, RecalculatingKeepsPlans
  <2>3. QED BY <2>1, <2>2, LetGoStep
<1>2. CASE UNCHANGED <<stored, campaigns>> /\ \A p \in Procs : release'[p] \in {release[p], NoRelease}
  <2>1. \A p \in Procs : Releasing(p)' \subseteq Releasing(p)
    BY <1>2 DEF Releasing, NoRelease
  <2>2. \A c \in Campaigns : PlanOf(c)' = PlanOf(c)
    BY <1>2 DEF PlanOf
  <2>3. QED BY <2>1, <2>2, LetGoStep
<1>3. ASSUME NEW p \in Procs,
             Stop(p) \/ StopScheduler(p) \/ Exit(p) \/ Crash(p) \/ Start(p)
      PROVE  /\ UNCHANGED <<stored, campaigns>>
             /\ \A q \in Procs : release'[q] \in {release[q], NoRelease}
  BY <1>3
  DEF Stop, StopScheduler, Exit, Crash, Start, ServiceLost, storeVars, serviceVars, TypeOK,
      ServiceTypeOK
<1>4. CASE PushAgain \/ UNCHANGED vars
  BY <1>2, <1>4 DEF PushAgain, vars, dispatchVars, storeVars, serviceVars
<1>5. QED BY <1>1, <1>2, <1>3, <1>4, ClientPlans, SchedulerPlans DEF Next

\* The initial states are those of CampaignPlan.
LEMMA PlanStart == Init => Plan!PlanInit
<1> SUFFICES ASSUME Init PROVE Plan!PlanInit
  OBVIOUS
<1>1. Plans = [c \in Campaigns |-> IF c \in Existing THEN "now" ELSE "absent"]
  BY DEF Plans, PlanOf, Init, NewCampaign
<1>2. Releases = {}
  BY DEF Releases, Releasing, Init, ServiceInit, NoRelease
<1>3. QED BY <1>1, <1>2 DEF Plans, Releases, Plan!PlanInit

\* The invariant of releases holds in every state.
LEMMA PlanAlways == Spec => []PlanInv
<1>1. TypeOK /\ ScheduledNotReleased /\ PlanInv /\ [Next]_vars => PlanInv'
  BY PlanInvStep
<1>2. QED BY <1>1, InitPlan, TypeCorrect, ScheduledTheorem, PTL DEF Spec

\* Every behaviour of the service is one of CampaignPlan, for any number of processes,
\* schedulers, campaigns and clients, and whatever fails: no request that acts on a stale
\* read takes a released campaign back, and no two schedulers publish one release.
THEOREM PlanRefinement == Spec => ImplementsPlan
<1>1. TypeOK /\ PlanInv /\ [Next]_vars => [Plan!PlanNext]_(Plan!planVars)
  BY PlanSteps
<1>2. QED
  BY <1>1, PlanStart, PlanAlways, TypeCorrect, PTL DEF Spec, ImplementsPlan, Plan!PlanSpec

------------------------------------------------------------------------------
(* What completes a campaign.  The counts a recalculation writes may be old, and    *)
(* those of another may be written in between.  What saves the status is that a     *)
(* message that went out stays so (SentStays): counts that once added up to the     *)
(* total of messages sent still tell the truth.                                     *)

AllSent(c) == \A m \in MessagesOf(c) : messages[m].status \in Sent

\* Counts that would complete the campaign were taken after its last message went out.
CountsSound(c, n) ==
  LET total     == Cardinality(MessagesOf(c))
      delivered == n["delivered"] + n["read"]
  IN  n["read"] = total \/ delivered = total \/ n["sent"] + delivered = total => AllSent(c)

HeldSound ==
  \A c \in Campaigns, n \in [MessageStatus -> Nat] : CountsHeld(c, n) => CountsSound(c, n)

CompletionInv == HeldSound /\ CompletedMeansAllSent

------------------------------------------------------------------------------
(* Counting *)

\* Disjoint sets of messages: the sizes add up.
LEMMA DisjointUnion ==
  ASSUME NEW S \in SUBSET Messages, NEW T \in SUBSET Messages, S \intersect T = {}
  PROVE  Cardinality(S \union T) = Cardinality(S) + Cardinality(T)
<1>1. IsFiniteSet(S) /\ IsFiniteSet(T)
  BY StoreAssumption, FS_Subset
<1>2. Cardinality(S) \in Nat /\ Cardinality(T) \in Nat
  BY CountOfMessages
<1>3. Cardinality(S \intersect T) = 0
  BY FS_EmptySet
<1>4. Cardinality(S \union T) = Cardinality(S) + Cardinality(T) - Cardinality(S \intersect T)
  BY <1>1, FS_Union
<1>5. QED BY <1>2, <1>3, <1>4

\* What RecalculateCampaign counts is sound at the moment it counts.
LEMMA CountingIsSound ==
  ASSUME NEW c
  PROVE  CountsSound(c, CountMessages(c))
<1> DEFINE All == MessagesOf(c)
           With(s) == {m \in MessagesOf(c) : messages[m].status = s}
           S == With("sent")
           D == With("delivered")
           R == With("read")
<1>1. /\ CountMessages(c)["sent"] = Cardinality(S)
      /\ CountMessages(c)["delivered"] = Cardinality(D)
      /\ CountMessages(c)["read"] = Cardinality(R)
  BY DEF CountMessages, MessageStatus, Sent
<1>2. /\ All \in SUBSET Messages
      /\ S \in SUBSET All /\ D \in SUBSET All /\ R \in SUBSET All
  BY DEF MessagesOf
<1>3. D \intersect R = {} /\ S \intersect (D \union R) = {}
  OBVIOUS
<1>4. \A m \in S \union (D \union R) : messages[m].status \in Sent
  BY DEF Sent
<1>5. IsFiniteSet(All)
  BY <1>2, StoreAssumption, FS_Subset
<1> HIDE DEF All, S, D, R
<1>6. Cardinality(D \union R) = Cardinality(D) + Cardinality(R)
  BY <1>2, <1>3, DisjointUnion
<1>7. Cardinality(S \union (D \union R)) = Cardinality(S) + Cardinality(D \union R)
  BY <1>2, <1>3, DisjointUnion
<1>8. ASSUME NEW U \in SUBSET (S \union (D \union R)), Cardinality(U) = Cardinality(All)
      PROVE  AllSent(c)
  <2>1. U \in SUBSET All
    BY <1>2
  <2>2. U = All
    BY <2>1, <1>5, <1>8, FS_Subset
  <2>3. QED BY <2>2, <1>4 DEF AllSent, All
<1>9. /\ Cardinality(R) = Cardinality(All) => AllSent(c)
      /\ Cardinality(D \union R) = Cardinality(All) => AllSent(c)
      /\ Cardinality(S \union (D \union R)) = Cardinality(All) => AllSent(c)
  BY <1>8
<1>10. QED BY <1>1, <1>6, <1>7, <1>9 DEF CountsSound, All

------------------------------------------------------------------------------
(* Who holds counts *)

\* A worker that is about to write counts had them, or has just counted.
LEMMA WorkerHolds ==
  ASSUME TypeOK, NEW p \in Procs, WorkerStep(p), worker'[p].pc = "apply"
  PROVE  \/ worker'[p] = worker[p]
         \/ /\ worker'[p].msg = worker[p].msg
            /\ worker'[p].counts = CountMessages(CampaignOf[worker[p].msg])
<1> USE DEF At, Goto, EndJob
<1>1. worker \in [Procs -> {Idle} \union Handling] /\ Idle.pc = "pop"
  BY DEF TypeOK, WorkerTypeOK, Idle
<1>2. worker[p].pc # "pop" => worker[p] \in Handling
  BY <1>1
<1>3. worker'[p] # Idle
  BY <1>1
<1>4. ASSUME \/ Pop(p) \/ GetMessage(p) \/ GetCampaign(p) \/ ReadFails(p) \/ RequeuePaused(p)
             \/ WaitForCadence(p) \/ ScheduleRetry(p)
      PROVE  FALSE
  <2>1. CASE Pop(p)
    BY <2>1, <1>1 DEF Pop
  <2>2. CASE GetMessage(p) \/ GetCampaign(p) \/ WaitForCadence(p)
    BY <2>2, <1>1, <1>2, <1>3 DEF GetMessage, GetCampaign, WaitForCadence, Handling
  <2>3. CASE ReadFails(p) \/ RequeuePaused(p) \/ ScheduleRetry(p)
    BY <2>3, <1>1 DEF ReadFails, RequeuePaused, ScheduleRetry
  <2>4. QED BY <1>4, <2>1, <2>2, <2>3
<1>5. ASSUME NEW next, Recalculate(p, next), worker[p].pc # "pop"
      PROVE  FALSE
  BY <1>5, <1>1, <1>2 DEF Recalculate, Handling
<1>6. ASSUME BeginAttempt(p) \/ RecordSent(p) \/ RecordRetry(p) \/ RecordFailure(p)
      PROVE  FALSE
  BY <1>1, <1>3, <1>5, <1>6 DEF BeginAttempt, RecordSent, RecordRetry, RecordFailure
<1>7. ASSUME ApplyRecalculation(p) \/ RecalculationFails(p)
      PROVE  FALSE
  <2> DEFINE Old == worker[p]
             New == [Old EXCEPT !.pc = Old.next, !.counts = NoCounts, !.next = "pop"]
  <2>1. Old \in Handling
    BY <1>2, <1>7 DEF ApplyRecalculation, RecalculationFails
  <2>2. worker'[p] = New
    BY <1>1, <1>3, <1>7 DEF ApplyRecalculation, RecalculationFails, AfterRecalculation
  <2>3. New.pc \in {"pop", "cadence", "scheduleRetry"}
    <3> HIDE DEF Old
    <3>1. QED BY <2>1 DEF Handling
  <2>4. QED BY <2>2, <2>3
<1>8. ASSUME SendText(p)
      PROVE  FALSE
  <2>1. PICK pc \in {"markSent", "markRetry", "markFailed"} : Goto(p, pc)
    BY <1>8 DEF SendText
  <2>2. worker'[p].pc = pc
    BY <2>1, <1>1, <1>2, <1>8 DEF SendText, Handling
  <2>3. QED BY <2>2
<1>9. CASE CountForRecalculation(p)
  BY <1>9, <1>1, <1>2 DEF CountForRecalculation, Handling
<1>10. CASE UNCHANGED worker
  BY <1>10
<1>11. QED
  BY <1>4, <1>6, <1>7, <1>8, <1>9, <1>10
  DEF WorkerStep, HandleJob, PopLost, PopTimesOut, TimerFires, TimerCancelled,
      ClaimDueRetryJobs, QueueClaimed, dispatchVars, workerVars

\* The same of a resume request.
LEMMA ClientHolds ==
  ASSUME TypeOK, NEW j \in Clients, ClientStep(j), NEW k \in Clients, request'[k].pc = "apply"
  PROVE  \/ request'[k] = request[k]
         \/ /\ request'[k].camp = request[k].camp
            /\ request'[k].counts = CountMessages(request[k].camp)
<1>1. request \in [Clients -> {NoRequest} \union RequestState] /\ NoRequest.pc = "idle"
  BY DEF TypeOK, ServiceTypeOK, NoRequest
<1>2. CASE j # k
  BY <1>1, <1>2
  DEF ClientStep, CreateLooksUp, RescheduleReads, CancelReads, PauseReads, ResumeReads, Begin,
      InsertCampaign, PublishCreated, UpdateSchedule, CancelCampaign, PauseCampaign,
      ResumeCampaign, CountResumed, ApplyResumed, EndRequest, Then
<1>3. CASE j = k
  <2>1. EndRequest(k) => FALSE
    BY <1>1 DEF EndRequest
  <2>2. ASSUME NEW pc \in {"publish", "count"}, Then(k, pc), request[k].pc # "idle"
        PROVE  FALSE
    BY <2>2, <1>1 DEF Then, RequestState
  <2>3. ASSUME NEW kind, NEW c, NEW mode,
               NEW pc \in {"insert", "update", "cancel", "pause", "resume"},
               Begin(k, kind, c, mode, pc)
        PROVE  FALSE
    BY <2>3, <1>1 DEF Begin
  <2>4. CASE CountResumed(k)
    <3>1. request[k] \in RequestState
      BY <2>4, RequestSteps DEF CountResumed, Doing, TypeOK
    <3>2. QED BY <3>1, <2>4, <1>1 DEF CountResumed, RequestState
  <2>5. ASSUME NEW c,
               \/ \E mode \in {"now", "scheduled"} : CreateLooksUp(k, c, mode)
               \/ RescheduleReads(k, c) \/ CancelReads(k, c) \/ PauseReads(k, c)
               \/ ResumeReads(k, c)
        PROVE  FALSE
    BY <2>3, <2>5 DEF CreateLooksUp, RescheduleReads, CancelReads, PauseReads, ResumeReads
  <2>6. QED
    BY <1>3, <2>1, <2>2, <2>4, <2>5
    DEF ClientStep, InsertCampaign, PublishCreated, UpdateSchedule, CancelCampaign,
        PauseCampaign, ResumeCampaign, ApplyResumed, Doing
<1>4. QED BY <1>2, <1>3

\* The same of a webhook.
LEMMA TrackerHolds ==
  ASSUME TypeOK, NEW u \in Trackers, TrackerStep(u), NEW t \in Trackers,
         tracker'[t].pc = "apply"
  PROVE  \/ tracker'[t] = tracker[t]
         \/ tracker'[t].counts = CountMessages(tracker'[t].camp)
<1>1. tracker \in [Trackers -> {NoEvent} \union Marking \union Applying] /\ NoEvent.pc = "idle"
  BY DEF TypeOK, TrackerTypeOK, NoEvent
<1>2. CASE u # t
  BY <1>1, <1>2
  DEF TrackerStep, ReceiveEvent, MarkMessage, CountTouched, ApplyTouched, TrackFails, Proceed
<1>3. CASE u = t
  <2>1. ASSUME NEW s \in Marking, Proceed(t, s)
        PROVE  FALSE
    BY <2>1, <1>1 DEF Proceed, Marking
  <2>2. CASE ReceiveEvent(t) \/ TrackFails(t)
    BY <2>2, <1>1 DEF ReceiveEvent, TrackFails
  <2>3. ASSUME NEW m \in Messages, MarkMessage(t, m)
        PROVE  FALSE
    <3> DEFINE Old == tracker[t]
               Next1 == [Old EXCEPT !.ids = @ \ {m}]
               Next2 == [Next1 EXCEPT !.touched = @ \union {CampaignOf[m]}]
    <3>1. Old \in Marking
      BY <2>3, TrackerAt DEF MarkMessage, Tracking, TypeOK
    <3>2. Next1 \in Marking /\ Next2 \in Marking
      <4> HIDE DEF Old
      <4>1. CampaignOf[m] \in Campaigns
        BY StoreAssumption
      <4>2. QED BY <3>1, <4>1 DEF Marking
    <3>3. Proceed(t, Next1) \/ Proceed(t, Next2)
      BY <2>3 DEF MarkMessage
    <3> HIDE DEF Next1, Next2
    <3>4. QED BY <3>2, <3>3, <2>1
  <2>4. CASE ApplyTouched(t)
    <3> DEFINE Old == tracker[t]
               Rest == [pc |-> "mark", event |-> Old.event, ids |-> {}, touched |-> Old.touched]
    <3>1. Old \in Applying
      BY <2>4, TrackerAt DEF ApplyTouched, Tracking, TypeOK
    <3>2. Rest \in Marking
      <4> HIDE DEF Old
      <4>1. QED BY <3>1 DEF Marking, Applying
    <3>3. Proceed(t, Rest)
      BY <2>4 DEF ApplyTouched
    <3> HIDE DEF Rest
    <3>4. QED BY <3>2, <3>3, <2>1
  <2>5. ASSUME NEW c \in Campaigns, CountTouched(t, c)
        PROVE  tracker'[t].counts = CountMessages(tracker'[t].camp)
    BY <2>5, <1>1 DEF CountTouched
  <2>6. QED BY <1>3, <2>2, <2>3, <2>4, <2>5 DEF TrackerStep
<1>4. QED BY <1>2, <1>3

\* Who writes counts after the step held them before it, or has just taken them.
LEMMA CountsHeldStep ==
  ASSUME TypeOK, [Next]_vars, NEW c \in Campaigns, NEW n, CountsHeld(c, n)'
  PROVE  CountsHeld(c, n) \/ n = CountMessages(c)
<1>1. ASSUME NEW p \in Procs, worker'[p].pc = "apply",
             CampaignOf[worker'[p].msg] = c, worker'[p].counts = n
      PROVE  CountsHeld(c, n) \/ n = CountMessages(c)
  <2>1. CASE worker'[p] = worker[p]
    BY <1>1, <2>1 DEF CountsHeld
  <2>2. CASE Worker(p)
    BY <1>1, <2>1, <2>2, WorkerHolds DEF Worker
  <2>3. CASE ~Worker(p)
    <3>1. worker'[p] = worker[p] \/ worker'[p] = Idle
      BY <2>3, WorkerElsewhere
    <3>2. QED BY <1>1, <2>1, <3>1 DEF Idle
  <2>4. QED BY <2>2, <2>3
<1>2. ASSUME NEW k \in Clients, request'[k].pc = "apply", request'[k].camp = c,
             request'[k].counts = n
      PROVE  CountsHeld(c, n) \/ n = CountMessages(c)
  <2>1. CASE request'[k] = request[k]
    BY <1>2, <2>1 DEF CountsHeld
  <2>2. CASE \E j \in Clients : Client(j)
    BY <1>2, <2>1, <2>2, ClientHolds DEF Client
  <2>3. CASE ~(\E j \in Clients : Client(j))
    <3>1. request'[k] = request[k] \/ request'[k] = NoRequest
      BY <2>3
      DEF Next, Worker, Scheduler, SchedulerStep, ClaimDueScheduled, PublishReleased,
          RevertRelease, Tracker, Stop, StopScheduler, Exit, Crash, Start, PushAgain,
          ServiceLost, vars, serviceVars
    <3>2. QED BY <1>2, <2>1, <3>1 DEF NoRequest
  <2>4. QED BY <2>2, <2>3
<1>3. ASSUME NEW t \in Trackers, tracker'[t].pc = "apply", tracker'[t].camp = c,
             tracker'[t].counts = n
      PROVE  CountsHeld(c, n) \/ n = CountMessages(c)
  <2>1. CASE tracker'[t] = tracker[t]
    BY <1>3, <2>1 DEF CountsHeld
  <2>2. CASE \E u \in Trackers : Tracker(u)
    BY <1>3, <2>1, <2>2, TrackerHolds DEF Tracker
  <2>3. CASE ~(\E u \in Trackers : Tracker(u))
    <3>1. tracker'[t] = tracker[t] \/ tracker'[t] = NoEvent
      BY <2>3
      DEF Next, Worker, Client, Scheduler, Stop, StopScheduler, Exit, Crash, Start, PushAgain,
          TrackerLost, vars
    <3>2. QED BY <1>3, <2>1, <3>1 DEF NoEvent
  <2>4. QED BY <2>2, <2>3
<1>4. QED BY <1>1, <1>2, <1>3 DEF CountsHeld

------------------------------------------------------------------------------
(* CompletedMeansAllSent *)

\* A message that went out stays so, as MessageLifecycle promises.
LEMMA SentStays ==
  ASSUME [Lifecycle!LifecycleNext]_(Lifecycle!lifecycleVars), NEW m \in Messages,
         messages[m].status \in Sent
  PROVE  messages'[m].status \in Sent
<1> DEFINE st == [n \in Messages |-> StateOf(n)]
<1>1. st[m] # "open"
  BY DEF StateOf, Sent
<1>2. st'[m] # "open"
  <2> HIDE DEF st
  <2>1. CASE st' = st
    BY <1>1, <2>1
  <2>2. ASSUME NEW n, NEW to \in {"sent", "delivered", "read"}, st' = [st EXCEPT ![n] = to]
        PROVE  st'[m] # "open"
    <3>1. m \in DOMAIN st
      BY DEF st
    <3>2. QED BY <1>1, <2>2, <3>1
  <2>3. QED
    BY <2>1, <2>2
    DEF st, Lifecycle!LifecycleNext, Lifecycle!lifecycleVars, Lifecycle!HandOver,
        Lifecycle!Record, Lifecycle!Deliver, Lifecycle!Read, Lifecycle!Move
<1>3. StateOf(m)' # "open"
  BY <1>2
<1>4. QED BY <1>3 DEF StateOf

\* A campaign all of whose messages went out stays so.
LEMMA AllSentStays ==
  ASSUME [Lifecycle!LifecycleNext]_(Lifecycle!lifecycleVars), NEW c \in Campaigns, AllSent(c)
  PROVE  AllSent(c)'
BY SentStays DEF AllSent, MessagesOf

\* Sound counts make the campaign complete only if it is.
LEMMA SoundRecalculation ==
  ASSUME NEW c \in Campaigns, NEW n \in [MessageStatus -> Nat], CountsSound(c, n),
         campaigns[c] \in CampaignRow, campaigns[c].status \in Sent => AllSent(c),
         RecalculatedStatus(campaigns[c], n, Cardinality(MessagesOf(c))) \in Sent
  PROVE  AllSent(c)
<1> DEFINE total == Cardinality(MessagesOf(c))
<1> HIDE DEF total
<1>1. \/ n["read"] = total
      \/ n["delivered"] + n["read"] = total
      \/ n["sent"] + (n["delivered"] + n["read"]) = total
      \/ campaigns[c].status \in Sent
  BY DEF RecalculatedStatus, Sent, total
<1>2. QED BY <1>1 DEF CountsSound, total

\* Every step keeps completed campaigns all sent, whichever counts it applies.
LEMMA CompletedStep ==
  ASSUME TypeOK, HeldSound, CompletedMeansAllSent, [Next]_vars,
         [Lifecycle!LifecycleNext]_(Lifecycle!lifecycleVars)
  PROVE  CompletedMeansAllSent'
<1> SUFFICES ASSUME NEW c \in Campaigns, campaigns'[c].status \in Sent
             PROVE  AllSent(c)'
  BY DEF CompletedMeansAllSent, AllSent
<1> SUFFICES AllSent(c)
  BY AllSentStays
<1>1. campaigns[c] \in CampaignRow
  BY DEF TypeOK, StoreTypeOK
<1>2. campaigns[c].status \in Sent => AllSent(c)
  BY DEF CompletedMeansAllSent, AllSent
<1>3. ASSUME NEW mode \in {"now", "scheduled"}, campaigns'[c] = NewCampaign(c, mode)
      PROVE  FALSE
  BY <1>3 DEF NewCampaign, Sent
<1>4. ASSUME NEW n \in [MessageStatus -> Nat], CountsHeld(c, n), campaigns'[c] = Recalculated(c, n)
      PROVE  AllSent(c)
  <2>1. campaigns'[c].status = RecalculatedStatus(campaigns[c], n, Cardinality(MessagesOf(c)))
    BY <1>1, <1>4 DEF Recalculated, CampaignRow
  <2>2. CountsSound(c, n)
    BY <1>4 DEF HeldSound
  <2>3. QED BY <2>1, <2>2, <1>1, <1>2, SoundRecalculation
<1>5. CASE \/ campaigns'[c] = PausedSet(campaigns[c], TRUE)
           \/ campaigns'[c] = PausedSet(campaigns[c], FALSE)
  BY <1>1, <1>2, <1>5 DEF PausedSet, CampaignRow, Sent
<1>6. CASE \/ campaigns'[c] = Rescheduled(campaigns[c])
           \/ campaigns'[c] = Cancelled(campaigns[c])
           \/ campaigns'[c] = Released(campaigns[c])
           \/ campaigns'[c] = ReleaseReverted(campaigns[c])
  BY <1>1, <1>2, <1>6 DEF Rescheduled, Cancelled, Released, ReleaseReverted, CampaignRow, Sent
<1>7. QED
  BY <1>2, <1>3, <1>4, <1>5, <1>6, CampaignChanges DEF CampaignChange

\* Counts that were taken stay sound until they are applied, however late.
LEMMA HeldSoundStep ==
  ASSUME TypeOK, HeldSound, [Next]_vars,
         [Lifecycle!LifecycleNext]_(Lifecycle!lifecycleVars)
  PROVE  HeldSound'
<1> SUFFICES ASSUME NEW c \in Campaigns, NEW n \in [MessageStatus -> Nat], CountsHeld(c, n)'
             PROVE  CountsSound(c, n)'
  BY DEF HeldSound
<1>1. CountsSound(c, n)
  BY CountsHeldStep, CountingIsSound DEF HeldSound
<1>2. AllSent(c) => AllSent(c)'
  BY AllSentStays
<1>3. QED BY <1>1, <1>2 DEF CountsSound, MessagesOf

\* The invariant holds initially: no counts are held, no campaign is completed.
LEMMA InitCompletion == Init => CompletionInv
<1> SUFFICES ASSUME Init PROVE CompletionInv
  OBVIOUS
<1>1. /\ \A p \in Procs : worker[p].pc = "pop"
      /\ \A k \in Clients : request[k].pc = "idle"
      /\ \A t \in Trackers : tracker[t].pc = "idle"
  BY DEF Init, WorkerInit, Idle, ServiceInit, NoRequest, TrackerInit, NoEvent
<1>2. HeldSound
  BY <1>1 DEF HeldSound, CountsHeld
<1>3. CompletedMeansAllSent
  BY DEF Init, NewCampaign, CompletedMeansAllSent, Sent
<1>4. QED BY <1>2, <1>3 DEF CompletionInv

\* With one process a campaign shown as sent, delivered or read has sent all its messages.
THEOREM CompletionTheorem == OneProcess => (Spec => []CompletedMeansAllSent)
<1> SUFFICES ASSUME OneProcess PROVE Spec => []CompletedMeansAllSent
  OBVIOUS
<1>1. TypeOK /\ HandoverInv /\ CompletionInv /\ [Next]_vars => CompletionInv'
  BY NextHandover, HeldSoundStep, CompletedStep DEF CompletionInv
<1>2. CompletionInv => CompletedMeansAllSent
  BY DEF CompletionInv
<1>3. QED BY <1>1, <1>2, InitCompletion, HandoverAlways, PTL DEF Spec
=============================================================================
