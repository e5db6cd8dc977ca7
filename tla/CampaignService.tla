--------------------------- MODULE CampaignService ---------------------------
(***************************************************************************)
(* internal/service/campaign_service.go as the HTTP handlers and the       *)
(* integration endpoints call it (create, pause, resume, reschedule,       *)
(* cancel), and internal/worker/campaign_scheduler.go, which releases the  *)
(* scheduled campaigns that are due.                                       *)
(*                                                                         *)
(* A request reads the campaign in one statement, decides on what it read  *)
(* and writes in a later one, so two requests can interleave.  A campaign  *)
(* stands for one external reference: a second create of the same campaign *)
(* is a repeated request.  Requests of other companies are refused before  *)
(* they change anything and are left out, as is input validation.          *)
(***************************************************************************)
EXTENDS CampaignStore, JobQueue

CONSTANTS
  Clients,      \* API clients, one request at a time each
  Requests,     \* the kinds of request they make
  HostOf        \* the process that serves each client

ASSUME ClientAssumption ==
  /\ Requests \subseteq {"now", "scheduled", "pause", "resume", "reschedule", "cancel"}
  /\ HostOf \in [Clients -> Procs]

VARIABLES
  request,      \* of each client: the request in progress
  release       \* of each process: what ReleaseDueScheduled still has to do

serviceVars == <<request, release>>

NoRequest == [pc |-> "idle"]

\* The next statement or command of a request.
RequestPC ==
  {"insert", "publish", "update", "pause", "resume", "count", "apply", "cancel"}

RequestState ==
  [pc: RequestPC, camp: Campaigns, mode: {"now", "scheduled"},
   counts: [MessageStatus -> Nat]]

\* todo: claimed campaigns to publish; revert: the one whose publication failed.
NoRelease == [todo |-> {}, revert |-> {}]

ServiceTypeOK ==
  /\ request \in [Clients -> {NoRequest} \union RequestState]
  /\ release \in [Procs -> [todo: SUBSET Campaigns, revert: SUBSET Campaigns]]

ServiceInit ==
  /\ request = [k \in Clients |-> NoRequest]
  /\ release = [p \in Procs |-> NoRelease]

------------------------------------------------------------------------------
Doing(k, pc) ==
  /\ Running(HostOf[k])
  /\ request[k].pc = pc

EndRequest(k) == request' = [request EXCEPT ![k] = NoRequest]
Then(k, pc) == request' = [request EXCEPT ![k].pc = pc]

\* A request of client k begins: it read what decides that statement pc is next.
Begin(k, kind, c, mode, pc) ==
  /\ kind \in Requests
  /\ Doing(k, "idle")
  /\ request' = [request EXCEPT ![k] =
       [pc |-> pc, camp |-> c, mode |-> mode,
        counts |-> [s \in MessageStatus |-> 0]]]
  /\ UNCHANGED <<storeVars, queueVars, release>>

UpdateCampaign(c, row) == campaigns' = [campaigns EXCEPT ![c] = row]

------------------------------------------------------------------------------
(* Create *)

\* FindByExternalRef.  An immediate campaign that exists already goes on to the
\* INSERT, as one that does not exist.
CreateLooksUp(k, c, mode) ==
  Begin(k, mode, c, mode,
        IF c \in stored /\ mode = "scheduled" THEN "update" ELSE "insert")

\* Mutant: the jobs are published whether or not the transaction was committed.
InsertCampaignUnchecked(k) ==
  /\ Doing(k, "insert")
  /\ LET c == request[k].camp
         Inserted ==
           /\ c \notin stored
           /\ stored' = stored \union {c}
           /\ UpdateCampaign(c, NewCampaign(c, request[k].mode))
     IN  \/ Inserted /\ UNCHANGED faults
         \/ c \in stored /\ UNCHANGED <<stored, campaigns, faults>>
         \/ Fault /\ UNCHANGED <<stored, campaigns>>
  /\ IF request[k].mode = "now" THEN Then(k, "publish") ELSE EndRequest(k)
  /\ UNCHANGED <<messages, lateSends, queue, phase, release>>

\* The transaction of Create; a unique index refuses a second row with the same
\* external reference.
InsertCampaign(k) ==
  /\ Doing(k, "insert")
  /\ LET c == request[k].camp
         Inserted ==
           /\ c \notin stored
           /\ stored' = stored \union {c}
           /\ UpdateCampaign(c, NewCampaign(c, request[k].mode))
     IN  \/ /\ Inserted
            /\ IF request[k].mode = "now" THEN Then(k, "publish") ELSE EndRequest(k)
            /\ UNCHANGED faults
         \/ /\ c \in stored
            /\ EndRequest(k)
            /\ UNCHANGED <<stored, campaigns, faults>>
         \/ /\ Fault
            /\ Inserted \/ UNCHANGED <<stored, campaigns>>
            /\ EndRequest(k)
  /\ UNCHANGED <<messages, lateSends, queue, phase, release>>

PublishCreated(k) ==
  /\ Doing(k, "publish")
  /\ \E jobs \in Orderings(MessagesOf(request[k].camp)) :
       \/ Publish(jobs) /\ UNCHANGED faults
       \/ Fault /\ (Publish(jobs) \/ UNCHANGED queue)
  /\ EndRequest(k)
  /\ UNCHANGED <<storeVars, phase, release>>

------------------------------------------------------------------------------
(* Reschedule and CancelScheduled *)

RescheduleReads(k, c) ==
  /\ c \in stored
  /\ ~campaigns[c].released_at
  /\ Begin(k, "reschedule", c, "scheduled", "update")

\* UpdateScheduledCampaign
UpdateSchedule(k) ==
  /\ Doing(k, "update")
  /\ LET c == request[k].camp
     IN  \/ UpdateCampaign(c, IF Reschedulable(campaigns[c]) THEN Rescheduled(campaigns[c])
                              ELSE campaigns[c])
            /\ UNCHANGED faults
         \/ Fault /\ UNCHANGED campaigns
  /\ EndRequest(k)
  /\ UNCHANGED <<stored, messages, lateSends, queue, phase, release>>

CancelReads(k, c) ==
  /\ c \in stored
  /\ ~campaigns[c].released_at
  /\ campaigns[c].status = "scheduled"
  /\ Begin(k, "cancel", c, "scheduled", "cancel")

\* CancelScheduledCampaign
CancelCampaign(k) ==
  /\ Doing(k, "cancel")
  /\ LET c == request[k].camp
     IN  \/ UpdateCampaign(c, IF Reschedulable(campaigns[c]) THEN Cancelled(campaigns[c])
                              ELSE campaigns[c])
            /\ UNCHANGED faults
         \/ Fault /\ UNCHANGED campaigns
  /\ EndRequest(k)
  /\ UNCHANGED <<stored, messages, lateSends, queue, phase, release>>

------------------------------------------------------------------------------
(* Pause and Resume *)

PauseReads(k, c) ==
  /\ c \in stored
  /\ campaigns[c].status \notin Sent \union {"failed", "partial", "scheduled"}
  /\ Begin(k, "pause", c, "now", "pause")

\* The status read may be another by now: the UPDATE does not look at it.
PauseCampaign(k) ==
  /\ Doing(k, "pause")
  /\ LET c == request[k].camp
     IN  \/ UpdateCampaign(c, PausedSet(campaigns[c], TRUE)) /\ UNCHANGED faults
         \/ Fault /\ UNCHANGED campaigns
  /\ EndRequest(k)
  /\ UNCHANGED <<stored, messages, lateSends, queue, phase, release>>

ResumeReads(k, c) ==
  /\ c \in stored
  /\ campaigns[c].paused
  /\ Begin(k, "resume", c, "now", "resume")

ResumeCampaign(k) ==
  /\ Doing(k, "resume")
  /\ LET c == request[k].camp
     IN  \/ /\ UpdateCampaign(c, PausedSet(campaigns[c], FALSE))
            /\ lateSends' = [lateSends EXCEPT ![c] = 0]
            /\ \/ Then(k, "count") /\ UNCHANGED faults
               \/ EndRequest(k) /\ Fault
         \/ /\ Fault
            /\ EndRequest(k)
            /\ UNCHANGED <<campaigns, lateSends>>
  /\ UNCHANGED <<stored, messages, queue, phase, release>>

CountResumed(k) ==
  /\ Doing(k, "count")
  /\ request' = [request EXCEPT ![k].pc = "apply",
                                ![k].counts = CountMessages(request[k].camp)]
  /\ UNCHANGED <<storeVars, queueVars, release>>

\* When the recalculation fails the status stays "paused" and paused is false.
ApplyResumed(k) ==
  /\ Doing(k, "apply")
  /\ LET c == request[k].camp
     IN  \/ UpdateCampaign(c, Recalculated(c, request[k].counts)) /\ UNCHANGED faults
         \/ Fault /\ UNCHANGED campaigns
  /\ EndRequest(k)
  /\ UNCHANGED <<stored, messages, lateSends, queue, phase, release>>

\* The jobs Create may wait for the answer of RPUSH with.
ClientPushes(k) ==
  IF Doing(k, "publish") THEN Orderings(MessagesOf(request[k].camp)) ELSE {}

ClientStep(k) ==
  \/ \E c \in Campaigns :
       \/ \E mode \in {"now", "scheduled"} : CreateLooksUp(k, c, mode)
       \/ RescheduleReads(k, c) \/ CancelReads(k, c)
       \/ PauseReads(k, c) \/ ResumeReads(k, c)
  \/ InsertCampaign(k) \/ PublishCreated(k) \/ UpdateSchedule(k) \/ CancelCampaign(k)
  \/ PauseCampaign(k) \/ ResumeCampaign(k) \/ CountResumed(k) \/ ApplyResumed(k)

------------------------------------------------------------------------------
(* ReleaseDueScheduled *)

\* The claim commits before anything is published; when the answer of the commit is
\* lost nobody publishes what it released.
ClaimDueScheduled(p) ==
  /\ release[p] = NoRelease
  /\ \E due \in (SUBSET {c \in stored : DueForRelease(campaigns[c])}) \ {{}} :
       /\ campaigns' = [c \in Campaigns |->
                          IF c \in due THEN Released(campaigns[c]) ELSE campaigns[c]]
       /\ \/ SchedulerSucceeds(p) /\ release' = [release EXCEPT ![p].todo = due]
          \/ SchedulerFails(p) /\ UNCHANGED release
  /\ UNCHANGED <<stored, messages, lateSends, queue, phase, request>>

\* All messages of the campaign are published, whatever their status.  The loop ends
\* at the first failure: the campaigns after it stay released.
PublishReleased(p, c) ==
  /\ c \in release[p].todo
  /\ \E jobs \in Orderings(MessagesOf(c)) :
       \/ /\ SchedulerSucceeds(p)
          /\ Publish(jobs)
          /\ release' = [release EXCEPT ![p].todo = @ \ {c}]
       \/ /\ SchedulerFails(p)
          /\ Publish(jobs) \/ UNCHANGED queue
          /\ release' = [release EXCEPT ![p] = [todo |-> {}, revert |-> {c}]]
  /\ UNCHANGED <<storeVars, phase, request>>

\* The jobs ReleaseDueScheduled may wait for the answer of RPUSH with.
SchedulerPushes(p) ==
  UNION {Orderings(MessagesOf(c)) :
           c \in {d \in release[p].todo : phase[p] \in {"up", "stoppingWorker"}}}

\* The error of RevertScheduledCampaignRelease is ignored.
RevertRelease(p, c) ==
  /\ c \in release[p].revert
  /\ \/ SchedulerSucceeds(p) /\ UpdateCampaign(c, ReleaseReverted(campaigns[c]))
     \/ SchedulerFails(p) /\ UNCHANGED campaigns
  /\ release' = [release EXCEPT ![p] = NoRelease]
  /\ UNCHANGED <<stored, messages, lateSends, queue, phase, request>>

SchedulerStep(p) ==
  \/ ClaimDueScheduled(p)
  \/ \E c \in Campaigns : PublishReleased(p, c) \/ RevertRelease(p, c)

SchedulerStopped(p) == release[p] = NoRelease

\* What a crash of process p takes with it.
ServiceLost(p) ==
  /\ release' = [release EXCEPT ![p] = NoRelease]
  /\ request' = [k \in Clients |-> IF HostOf[k] = p THEN NoRequest ELSE request[k]]
=============================================================================
