------------------------------ MODULE DisparaGO ------------------------------
(***************************************************************************)
(* The service: the dispatch worker, the campaign service with its         *)
(* scheduler, and the webhooks, on the same tables and the same queue      *)
(* (internal/app/app.go, cmd/api/main.go).  The constants say which actors *)
(* take part: no clients and no trackers leave the worker on its own.      *)
(***************************************************************************)
EXTENDS DispatchWorker, CampaignService, WebhookTracking

CONSTANT Existing   \* campaigns created to be sent now before the behaviour begins

ASSUME ExistingAssumption == Existing \subseteq Campaigns

vars == <<dispatchVars, serviceVars, tracker>>

TypeOK ==
  /\ StoreTypeOK
  /\ QueueTypeOK(Messages)
  /\ WorkerTypeOK
  /\ ServiceTypeOK
  /\ TrackerTypeOK

\* The tables as Create leaves them and the jobs it published.
Init ==
  /\ stored = Existing
  /\ messages = [m \in Messages |-> NewMessage]
  /\ campaigns = [c \in Campaigns |-> NewCampaign(c, "now")]
  /\ lateSends = [c \in Campaigns |-> 0]
  /\ queue \in Orderings({m \in Messages : CampaignOf[m] \in Existing})
  /\ phase = [p \in Procs |-> "up"]
  /\ faults = 0
  /\ WorkerInit
  /\ ServiceInit
  /\ TrackerInit

------------------------------------------------------------------------------
Worker(p) == WorkerStep(p) /\ UNCHANGED <<serviceVars, tracker>>
Client(k) == ClientStep(k) /\ UNCHANGED <<workerVars, tracker>>
Scheduler(p) == SchedulerStep(p) /\ UNCHANGED <<workerVars, tracker>>
Tracker(t) == TrackerStep(t) /\ UNCHANGED <<workerVars, serviceVars>>

\* The Redis client sends an RPUSH a second time; whoever waits for it still waits.
PushAgain ==
  /\ \/ \E p \in Procs : \E jobs \in WorkerPushes(p) \union SchedulerPushes(p) : Resend(jobs)
     \/ \E k \in Clients : \E jobs \in ClientPushes(k) : Resend(jobs)
  /\ UNCHANGED <<storeVars, phase, workerVars, serviceVars, tracker>>

\* SIGTERM: Shutdown begins with the worker.
Stop(p) ==
  /\ Enter(p, {"up"}, "stoppingWorker")
  /\ Fault
  /\ UNCHANGED <<storeVars, queue, workerVars, serviceVars, tracker>>

StopScheduler(p) ==
  /\ Enter(p, {"stoppingWorker"}, "stoppingScheduler")
  /\ WorkerStopped(p)
  /\ UNCHANGED <<storeVars, queue, faults, workerVars, serviceVars, tracker>>

Exit(p) ==
  /\ Enter(p, {"stoppingScheduler"}, "down")
  /\ SchedulerStopped(p)
  /\ \A k \in Clients : HostOf[k] = p => request[k] = NoRequest
  /\ \A t \in Trackers : TrackerHost[t] = p => tracker[t] = NoEvent
  /\ UNCHANGED <<storeVars, queue, faults, workerVars, serviceVars, tracker>>

Crash(p) ==
  /\ Enter(p, Phase \ {"down"}, "down")
  /\ Fault
  /\ WorkerLost(p)
  /\ ServiceLost(p)
  /\ TrackerLost(p)
  /\ UNCHANGED <<storeVars, queue>>

Start(p) ==
  /\ Enter(p, {"down"}, "up")
  /\ UNCHANGED <<storeVars, queue, faults, workerVars, serviceVars, tracker>>

Next ==
  \/ \E p \in Procs : Worker(p) \/ Scheduler(p) \/ Stop(p) \/ StopScheduler(p) \/ Exit(p)
                       \/ Crash(p) \/ Start(p)
  \/ \E k \in Clients : Client(k)
  \/ \E t \in Trackers : Tracker(t)
  \/ PushAgain

Spec == Init /\ [][Next]_vars

------------------------------------------------------------------------------
(* Safety with one process. *)

\* The row says that the message went out: by its status, or by the provider's id.
WentOut(row) == row.status \in Sent \/ row.provider_message_id

\* A message whose row says it went out is never handed to the provider again:
\* handleJob looks at the status once, at the top of a job, and prepares the send
\* for as long as the cadence takes.
NeverResent ==
  [][\A m \in Messages : accepted'[m] # accepted[m] => ~WentOut(messages[m])]_vars

\* The state a message has for its reader: open until recorded as sent.
StateOf(m) == IF messages[m].status \in Sent THEN messages[m].status ELSE "open"

Lifecycle == INSTANCE MessageLifecycle WITH
  state <- [m \in Messages |-> StateOf(m)], taken <- accepted

\* Every behaviour of the service is one of MessageLifecycle: no retry, restart or
\* webhook takes a message back from sent, delivered or read, and none is recorded
\* as sent that the provider never took.
ImplementsLifecycle == Lifecycle!LifecycleSpec

\* A pause lets through the one send each process was preparing when it was set, however
\* long that takes and whatever is queued: no other one until the campaign is resumed.
LateSendsBounded == \A c \in Campaigns : lateSends[c] <= Cardinality(Procs)

\* A campaign shown as sent, delivered or read has no message left that did not go
\* out, although its counters were taken at different moments by the worker, the
\* webhooks and the resume request.
CompletedMeansAllSent ==
  \A c \in Campaigns :
    campaigns[c].status \in Sent => \A m \in MessagesOf(c) : messages[m].status \in Sent

\* A job is dropped because its campaign is scheduled only while the scheduler has
\* the release, and with it the publication of all jobs, still before it.
ScheduledNotReleased ==
  \A c \in Campaigns :
    campaigns[c].status = "scheduled" =>
      campaigns[c].send_mode = "scheduled" /\ ~campaigns[c].released_at

\* What is to become of a campaign, from the columns of its row.
PlanOf(c) ==
  IF c \notin stored THEN "absent"
  ELSE IF campaigns[c].cancelled_at THEN "cancelled"
  ELSE IF campaigns[c].released_at THEN "released"
  ELSE campaigns[c].send_mode

\* Released campaigns a scheduler has in hand.
Releasing(p) == release[p].todo \union release[p].revert

Plan == INSTANCE CampaignPlan WITH
  plan <- [c \in Campaigns |-> PlanOf(c)], held <- UNION {Releasing(p) : p \in Procs}

\* Every behaviour of the service is one of CampaignPlan: whichever requests decide on a
\* row a scheduler releases meanwhile, in whichever process, no campaign is both released
\* and cancelled or rescheduled, and no two schedulers hold the same release.
ImplementsPlan == Plan!PlanSpec

------------------------------------------------------------------------------
(* How often a message can go out. *)

\* The provider takes a message at most as often as its row counts attempts: the count is
\* committed before the send is prepared, in every process, and no failure skips it.
SendsCounted == \A m \in Messages : accepted[m] <= messages[m].attempt_count

\* The attempts that are followed by another one when they fail.
Retried == IF MaxAttempts > 0 THEN MaxAttempts - 1 ELSE 0

\* How many attempts there really are: one for each job published, and two for each
\* retried one, by its timer and by the sweeper.  The jobs of a campaign are published
\* when it is created and when it is released, and a failure adds one of each at most:
\* by a release that is repeated, or a command the Redis client sends again.
AttemptsWithinJobs ==
  \A m \in Messages :
    messages[m].attempt_count <=
      2 * Retried + (IF campaigns[CampaignOf[m]].send_mode = "now" THEN 1 ELSE 2) + faults

------------------------------------------------------------------------------
(* Nothing gets lost while nothing fails. *)

\* Some goroutine or the queue will still bring the message to handleJob.
HasJob(m) ==
  \/ \E i \in DOMAIN queue : queue[i] = m
  \/ \E p \in Procs :
       \/ worker[p] # Idle /\ worker[p].msg = m
       \/ timers[p][m] > 0
       \/ m \in swept[p]

\* No job, retry or attempt precedes the commit of the campaign it belongs to: handleJob
\* never finds a message whose row is not there yet.
JobsAreStored ==
  \A m \in Messages :
    CampaignOf[m] \notin stored =>
      /\ messages[m] = NewMessage
      /\ accepted[m] = 0
      /\ ~HasJob(m)

\* The publication of the jobs of c is still to come.
AwaitsPublication(c) ==
  \/ c \notin stored
  \/ campaigns[c].send_mode = "scheduled" /\ ~campaigns[c].released_at
  \/ \E p \in Procs : c \in release[p].todo \union release[p].revert
  \/ \E k \in Clients : request[k].pc = "publish" /\ request[k].camp = c

Settled(m) == messages[m].status \in Sent \union {"failed"}

\* A message neither sent nor failed, of a campaign not cancelled, has a job, waits
\* in the table for the sweeper, or belongs to a campaign still to be published:
\* whatever a reschedule, a release or a pause makes the worker drop comes back.
OpenMessageHeld ==
  faults = 0 =>
    \A m \in Messages :
      Settled(m) \/ campaigns[CampaignOf[m]].cancelled_at \/ HasJob(m)
        \/ messages[m].next_retry_at \/ AwaitsPublication(CampaignOf[m])

AtRest ==
  /\ \A p \in Procs : worker[p] = Idle /\ release[p] = NoRelease
  /\ \A k \in Clients : request[k] = NoRequest
  /\ \A t \in Trackers : tracker[t] = NoEvent

\* With nothing in progress the counters of a campaign are those of its messages.
CountersSettle ==
  faults = 0 /\ AtRest => \A c \in stored : campaigns[c].counts = CountMessages(c)

\* The status "paused" outlives the flag only inside a resume request; otherwise
\* the worker would put the jobs of the campaign back for ever, while a second
\* resume is refused.
PausedMeansPaused ==
  faults = 0 => \A c \in Campaigns :
    campaigns[c].status = "paused" /\ ~campaigns[c].paused =>
      \E k \in Clients : request[k].pc \in {"count", "apply"} /\ request[k].camp = c

------------------------------------------------------------------------------
(* Fairness: every goroutine that can go on does.  Nothing is assumed of the *)
(* clients but that the service finishes a request it has begun.             *)

ServeRequest(k) == Client(k) /\ request[k] # NoRequest

Fairness ==
  /\ \A p \in Procs :
       /\ WF_vars((Pop(p) \/ HandleJob(p)) /\ UNCHANGED <<serviceVars, tracker>>)
       /\ \A m \in Messages :
            /\ WF_vars(TimerFires(p, m) /\ UNCHANGED <<serviceVars, tracker>>)
            /\ WF_vars(QueueClaimed(p, m) /\ UNCHANGED <<serviceVars, tracker>>)
       /\ WF_vars(Scheduler(p))
  /\ \A k \in Clients : WF_vars(ServeRequest(k))

FairSpec == Spec /\ Fairness

\* Unless something fails, every message ends, and stays, sent or failed, or its
\* campaign stays paused or cancelled: however its attempts, timers and sweeps
\* interleave, also when a job left over takes it up again after it failed, and however
\* often the jobs of another, paused campaign are put back in the queue before its own.
EventuallySettled ==
  \A m \in Messages :
    LET c == CampaignOf[m]
    IN  <>[](\/ faults > 0 \/ Settled(m) \/ c \notin stored
             \/ campaigns[c].paused \/ campaigns[c].cancelled_at)

------------------------------------------------------------------------------
(* What the documentation says and the code does not do. *)

\* README: "maximo de 3 tentativas por mensagem".
AttemptsBounded ==
  \A m \in Messages : messages[m].attempt_count <= MaxAttempts

\* runRetrySweeper: "Recover retries that were scheduled via timers but lost due to
\* restarts".  A process that ends leaves the retries only it held in the table.
RestartKeepsRetries ==
  [][\A p \in Procs, m \in Messages :
       /\ phase[p] # "down" /\ phase'[p] = "down"
       /\ messages[m].status = "pending"
       /\ timers[p][m] > 0 \/ m \in swept[p]
       => messages'[m].next_retry_at \/ HasJob(m)']_vars

\* README on cancel: "impede novos envios".  No attempt begins once it is cancelled.
CancelledBeginsNothing ==
  [][\A p \in Procs :
       /\ worker[p].pc = "getCampaign"
       /\ worker'[p].pc = "markProcessing"
       => ~campaigns[CampaignOf[worker[p].msg]].cancelled_at]_vars
=============================================================================
