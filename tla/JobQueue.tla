------------------------------ MODULE JobQueue ------------------------------
(***************************************************************************)
(* The Redis list of campaign_message jobs (internal/queue) and the        *)
(* processes that use it (internal/app): each process runs one dispatch    *)
(* worker, one retry sweeper and one campaign scheduler, and serves the    *)
(* HTTP API.                                                               *)
(*                                                                         *)
(* A job is its message id: the handler reads everything else it decides   *)
(* on from the tables.  BLPOP removes a job before it is handled, so from  *)
(* then on only the process that popped it knows of it.                    *)
(*                                                                         *)
(* Everything that can go wrong outside the code (a statement or a command *)
(* that fails, a shutdown, a crash) is counted in faults.                  *)
(***************************************************************************)
EXTENDS Integers, Sequences, FiniteSets

CONSTANTS
  Procs,        \* processes running the service
  MaxFaults     \* bound on the failures, shutdowns and crashes of a behaviour

ASSUME QueueAssumption ==
  /\ IsFiniteSet(Procs)
  /\ MaxFaults \in Nat

VARIABLES
  queue,        \* the Redis list: RPUSH appends, BLPOP takes the head
  phase,        \* of each process, see Phase
  faults        \* failures so far

queueVars == <<queue, phase, faults>>

\* Shutdown cancels the worker's context, waits for its goroutines, then does the
\* same with the scheduler and at last waits for the HTTP requests.
Phase == {"up", "stoppingWorker", "stoppingScheduler", "down"}

QueueTypeOK(Jobs) ==
  /\ queue \in Seq(Jobs)
  /\ phase \in [Procs -> Phase]
  /\ faults \in 0 .. MaxFaults

\* A fault outside the code.
Fault ==
  /\ faults < MaxFaults
  /\ faults' = faults + 1

\* PublishCampaignMessages: one RPUSH of all the jobs.
Publish(jobs) == queue' = queue \o jobs

\* Mutant: LPUSH instead of RPUSH.
RequeueFirst(job) == queue' = <<job>> \o queue

\* RequeueCampaignMessage.
Requeue(job) == queue' = Append(queue, job)

\* redisclient.New keeps go-redis at its MaxRetries of 3: a command whose answer is lost or
\* late is sent again, so that it takes effect once more before the caller hears of it.
\* What comes in between, another command or a crash, is a step of its own; how often it
\* may happen is bounded by the faults.
Resend(jobs) == Fault /\ Publish(jobs)

\* The jobs of a set of messages in the order they are published.
Orderings(S) ==
  {jobs \in [1 .. Cardinality(S) -> S] : \A m \in S : \E i \in DOMAIN jobs : jobs[i] = m}

------------------------------------------------------------------------------
\* A call made with the worker's context succeeds only until it is cancelled, and
\* fails from then on, or by a fault.
Succeeds(p) ==
  /\ phase[p] = "up"
  /\ UNCHANGED faults

Fails(p) ==
  \/ phase[p] = "stoppingWorker" /\ UNCHANGED faults
  \/ phase[p] = "up" /\ Fault

\* The same for the scheduler's context.
SchedulerSucceeds(p) ==
  /\ phase[p] \in {"up", "stoppingWorker"}
  /\ UNCHANGED faults

SchedulerFails(p) ==
  \/ phase[p] = "stoppingScheduler" /\ UNCHANGED faults
  \/ phase[p] \in {"up", "stoppingWorker"} /\ Fault

\* Calls with context.Background() and HTTP requests go on during a shutdown.
Running(p) == phase[p] # "down"

Enter(p, from, to) ==
  /\ phase[p] \in from
  /\ phase' = [phase EXCEPT ![p] = to]
=============================================================================
