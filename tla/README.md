# A verification development of DisparaGO

DisparaGO sends WhatsApp campaigns: an HTTP API stores a campaign with its messages in
PostgreSQL and queues one job per message in a Redis list; a worker takes the jobs one by
one, paces them, and hands each message to the provider (EvolutionGO); webhooks of the
provider move messages on to delivered and read; a scheduler releases the campaigns that
were created for later. Each of these writes the same two tables, in statements that other
goroutines and other processes can come between, and most of what can go wrong is in
that. Beside them a container migrates the database and ensures its first users when it
starts, other systems synchronise companies, users and campaigns with it, and the client of
the provider remembers the tokens of its instances.

This directory holds TLA+ modules translated from the code, TLC configurations that check
them on small instances, and theorems about them, for every value of the constants, that
the TLA+ proof system checks.

    tlc -config Requests.cfg MCDisparaGO.tla       # a run
    tlc -config Cadence.cfg MCCadence.tla
    tlc -config Provisioning.cfg MCProvisioning.tla
    tlc -config Tokens.cfg MCTokenCache.tla
    tlapm AttemptProofs.tla                        # a proof module

## The system

### Components

| Component | State | Operations | Modelled in |
|---|---|---|---|
| campaign and message tables (`internal/repository/campaign_repository.go`, `migrations/`) | tables `campaigns`, `campaign_messages` | one statement or transaction per operation: Create, MarkMessage*, RecalculateCampaign, SetCampaignPaused, Update/CancelScheduledCampaign, ClaimDue*, Revert | CampaignStore |
| job queue (`internal/queue`, `internal/platform/redisclient`) | one Redis list | RPUSH of jobs, BLPOP | JobQueue |
| dispatch worker (`internal/worker/dispatch_worker.go`) | the job in hand, retry timers, retries swept and not yet queued, lanes | `run`, `handleJob`, `scheduleRetry`, `runRetrySweeper`, `Stop` | DispatchWorker, Cadence (the lanes) |
| send cadence (`waitForHumanCadence`) | per instance: last dispatch, burst goal, burst count | decide how long to wait, wait, count | Cadence |
| campaign service (`internal/service/campaign_service.go`) | requests in progress | Create, Pause, Resume, Reschedule, CancelScheduled, ReleaseDueScheduled | CampaignService |
| campaign scheduler (`internal/worker/campaign_scheduler.go`) | claimed campaigns still to publish | poll, release, revert | CampaignService |
| webhook tracking (`internal/service/webhook_service.go`) | events in progress | Track | WebhookTracking |
| process lifecycle (`internal/app/app.go`, `cmd/api/main.go`) | up, stopping (three stages), down | Start, Shutdown, crash | JobQueue (`phase`), DisparaGO |
| HTTP handlers, routes | none | pass requests on; the integration endpoints upsert company and user first | CampaignService (`ClientStep`), Directory (`Request`), partly |
| EvolutionGO client (`internal/evolutiongo/client.go`) | map of instance tokens, under a lock | SendText, resolveInstanceToken, ListInstances | TokenCache; as one step in DispatchWorker, with its duration in Cadence |
| instance settings (`instance_settings_*.go`) | table `instance_settings` | Get, Save | Cadence, partly |
| company and user synchronisation (`auth_service.go`, `auth_repository.go`) | tables `auth_companies`, `auth_users` | EnsureBootstrap, UpsertCompany, UpsertUser | Directory, partly (login only reads) |
| migrations runner (`internal/platform/migrations/runner.go`) | table `schema_migrations` | Run | Migrations |
| configuration, logging, connections, health, dashboard, web console | none of their own | | no |

### How they interact

The worker, the scheduler, the requests and the webhooks call each other only through the
tables and the queue, never through memory. A job carries ids; everything else the worker
decides on is read from the tables when the job is handled. So the shared variables of the
model are the two tables and the queue, and each component adds the local state of its
goroutines: the program counter of `handleJob`, of a request, of `Track`, of the release
loop, and the values each has read and not used yet.

A container begins with `disparago migrate && exec disparago` (`Dockerfile`), under `restart:
unless-stopped` (`docker-compose.yml`): it applies the files of `migrations/`, then starts the
service, which ensures its bootstrap company and users before it serves. These tables are
shared with the containers beside it and with the integration endpoints, which upsert a
company and a user and go on to `Create`. `Provisioning` composes these. The token map is
memory of one process, in which one goroutine sends; only the provider and the
client know of it, so `TokenCache` stands alone.

### What is hard in it

- A job reads the status of its message and of its campaign once, and sends after two
  recalculations and a wait that may last minutes: anything may have changed.
- A failed attempt leaves two ways back into the queue, a timer and a column.
- `RecalculateCampaign` counts in the snapshot of its statement and writes when it gets the
  row; worker, webhooks and resume requests do so at the same time.
- A request decides on what it read in an earlier statement (`Pause`, `Reschedule`,
  `CancelScheduled`), while the scheduler claims and releases.
- BLPOP takes a job out before it is handled; the claims of the sweeper and of the scheduler
  commit before they publish. A crash, a shutdown, or a failed command comes in between.
- The answer of a statement, a command or a send may be lost after it took effect; the Redis
  client then sends the command again, and the jobs of an RPUSH are in the queue twice.
- A migration file and its row are one transaction, and nothing else keeps two runners from
  executing the same file; a runner may end at any statement, its commit unanswered.
- An upsert is an UPDATE and, when no row was found, an INSERT, with no transaction around
  them; a synchronised campaign is looked up, created and queued in steps of its own, and
  repeated when a step failed.
- The token map is remembered for as long as the process runs, and filled for all instances
  with an answer that may be older than their tokens: they change at the provider meanwhile.
- The cadence is decided from settings that change in the middle of a burst, and the time a
  send was due is kept instead of the time it began.

`PROJECT.json` lists these hazards at their lines with the properties about them.

## The modules

| Module | Models | Extends |
|---|---|---|
| `CampaignStore` | rows of the two tables, each statement a function from row to row | |
| `JobQueue` | the Redis list, the phases of the processes, what can fail | |
| `DispatchWorker` | worker, timers and sweeper, a step per statement, command and call | CampaignStore, JobQueue |
| `CampaignService` | requests and scheduler, a step per statement or command | CampaignStore, JobQueue |
| `WebhookTracking` | `Track`, a step per statement | CampaignStore, JobQueue |
| `MessageLifecycle` | abstract: what the service promises about a message | |
| `CampaignPlan` | abstract: when a campaign is released, cancelled or scheduled again, and who holds its release | |
| `DisparaGO` | all of it together, with shutdown, crash and start; the properties | the three above |
| `Cadence` | the pace of the sends of each instance, in integer time | |
| `SchemaHistory` | abstract: files take effect in order, each once, with its record | |
| `Migrations` | the start of a container and `Run`, a step per statement | |
| `Registry` | abstract: a synchronisation is one atomic upsert or none | |
| `Directory` | bootstrap and integration endpoints, a step per statement | Migrations |
| `Provisioning` | both together, with containers that end and start again; the properties | Directory |
| `TokenCache` | `SendText` with the token map, and the provider's instances | |
| `MCDisparaGO`, `MCCadence`, `MCProvisioning`, `MCTokenCache` | instances for TLC | |
| `TypeProofs`, `LifecycleProofs`, `CampaignProofs`, `FaultFreeProofs`, `AttemptProofs` | theorems about DisparaGO, each extending the one before | |
| `CadenceProofs`, `TokenCacheProofs` | theorems about Cadence and TokenCache | |
| `ProvisioningProofs` | theorems about Provisioning | |

How code becomes steps:

- **Statements are atomic, functions are not.** One SQL statement or transaction, one Redis
  command or one provider call is one action; what the Go code decides after it, up to the
  next one, belongs to the same action. `handleJob` is twelve program counters, named for the
  call that comes next.
- **`RecalculateCampaign` is two actions** although it is one statement: under READ
  COMMITTED its CTE is evaluated in the snapshot the statement began with, and its UPDATE
  locks the campaign row later, reading it again if it changed. `CountMessages` is the first
  half, `Recalculated` the second; three callers (worker, resume, webhook) use them.
- **Clocks are left out of DisparaGO**: a retry, a schedule or a cadence wait may be due at any
  moment. A property that holds for every timing holds for the real one. `Cadence` is where time
  counts.
- **Columns are kept as far as the code branches on them**: `next_retry_at`, `released_at`,
  `cancelled_at` and `provider_message_id` are set or not set.
- **Failures** (`Fault`): any statement, command or send may fail, before or after it took
  effect; a process may be told to stop (SIGTERM) or crash at any moment, and starts again.
  All of them are counted in `faults` and bounded by `MaxFaults`. What follows from a cancelled
  context is no fault: `Succeeds` and `Fails` say which calls fail while a process stops, and
  `Running` marks those made with `context.Background()`.
- **Commands sent again.** `redisclient.New` leaves go-redis at its default of three retries, so
  an RPUSH may take effect more than once before its caller hears of it. `PushAgain` lets every
  RPUSH that is waited for (`WorkerPushes`, `SchedulerPushes`, `ClientPushes`) take effect an extra
  time, counted as a fault; others may queue and pop in between, and the caller may still see
  success, an error or the end of its process. The three retries of one command are not a bound of
  their own: a behaviour has as many as it has faults. A BLPOP whose answer was lost and that
  is sent again is `PopLost` followed by `Pop`.
- **A webhook** names any set of messages with either status at any time: duplicated, late and
  out of order. One for a message with no recorded provider id is skipped, as in the code.
- **An open transaction is a program counter.** What a runner did in a transaction is seen by
  nobody before the commit, so `Migrations` keeps it in `boot` and changes the tables in one
  step; the locks in between only delay others and are left out, but for the primary key of
  `schema_migrations`, which `RecordMigration` waits at and fails on. A failing CREATE TABLE
  (two sessions creating it at once can make one fail) counts as a fault. A file is its
  number; of its statements only the seed of the bootstrap company is kept.
- **A row of the directory is its keys.** An id is a place in the table; `UpdateCompany` and
  `InsertCompany`, `UpdateUser` and `InsertUser` look for external references and user names as
  the statements and the unique indexes do.
- **The provider's instances are external**: a token may be replaced, an instance made or
  removed at any moment. What the provider makes of an instance name sent for want of a token
  is not known, and either answer is possible. With a good token it may still refuse a message
  for good: an invalid number, an instance that is disconnected, a payload it rejects.
- **Constants choose the actors**: `Procs`, `Clients`, `Requests`, `Trackers`, `MaxFaults`,
  `MaxAttempts`. No client and no tracker leaves the worker on its own.

History variables: `accepted` (how often the provider took a message), `lateSends` (sends of
a campaign since it was last paused), `lastSend` and `streak` in Cadence, `accepted` (what callers were
told) in Directory, `kept` (instances unchanged since the process started) in TokenCache. No
guard reads them.

## What is checked

### Runs

All are exhaustive. One process unless stated.

| Run | Instance | Distinct states | Question |
|---|---|---|---|
| `dispatch` | 2 messages, 2 attempts, 1 fault, fairness | 279,263 | with a lost answer, a command sent again, a stop or a crash and the restart, is a message ever sent again after it is recorded as sent, sent without being counted, or attempted more often than its jobs allow, and is MessageLifecycle implemented? Without a fault, is no message lost, do the counters agree at rest, does every message settle? |
| `turns` | 2 campaigns of one message, one client that pauses, schedules and reschedules, fairness | 67,459 | do the circulating jobs of a paused campaign starve others? |
| `requests` | 1 message, 2 clients (symmetric) with all six requests, 1 fault | 683,498 | do interleaved requests and releases strand a message, leave contradictory columns, let more than one send past a pause, publish a job before its row or once too often, and is CampaignPlan implemented? |
| `tracking` | 2 messages (symmetric), 1 webhook, 1 fault | 24,524 | do duplicated, early and late events keep the lifecycle and the status of the campaign? |
| `cadence` | 2 instances (symmetric), bursts of up to 2, lateness 1, clock up to 10 | 704,194 | are sends spaced and bursts bounded whatever is saved meanwhile? |
| `provisioning` | 2 containers, 2 files, 2 callers on one container, 5 kinds of call, 1 fault, fairness | 656,070 | do containers that start side by side migrate once, bootstrap and serve, and do synchronisations that interleave stay atomic and keep what they accepted? |
| `tokens` | 1 sender, 3 instances, 4 tokens, 2 faults, fairness | 158,407 | does the token map send from the wrong instance, give out a stale key without a change, or stay wrong? |
| `attempts`, `restart`, `cancel`, `scaling`, `counters` | small; `scaling` has two processes | | each finds one disagreement between code and document, see below |

Why the bounds are enough for the question asked. Two messages are what it takes for one to
be finished while another is open (counters, partial results) and for two jobs to swap places;
two attempts give one retry with both of its ways back, and a last attempt; one campaign is
enough for every property but starvation, which needs the job of another one; two clients
are what it takes for a request to act on a stale read. One fault can hit any step of a
behaviour; that a second one hits the recovery from the first is left to the proofs, since the
safety properties of `dispatch`, `requests` and `tracking` are proved for every number of
attempts and faults. In `requests` one attempt is enough: its properties about messages ask
whether a job is left, which the retries of `dispatch` cover. Several processes race only
in `scaling`: what holds of them (`LateSendsBounded`, `SendsCounted`, `ImplementsPlan` and
`ScheduledNotReleased`) is proved for any number. `OpenMessageHeld`, `CountersSettle` and
`PausedMeansPaused` begin with `faults = 0`, and `EventuallySettled` with the disjunct `faults > 0`:
after a failure the code does lose jobs, so they ask nothing of those behaviours, and a run
that allows faults has all the behaviours without them as well. In Cadence the clock is long
enough for two full bursts with the pause between them, and for a stall longer than a pause.
Two files are a first and a last one, the last making the tables of the directory; two
containers, one fault and restarts without a bound let one be interrupted anywhere while the
other goes on or waits. One goroutine sends, so `tokens` has one sender; three instances with
four tokens let one be remembered, one change while an answer is on its way and a third be the
one that is asked for, and two faults a failed call besides a restart. The theorems cover the
safety properties for all sizes, with any number of senders.

### Properties

- `NeverResent`: a message whose row shows that it went out, by status or provider id (which
  no later statement clears), is not handed over again. `ImplementsLifecycle`: the refinement maps every status before `sent` to
  `open`, so a message may be processed, fail, be retried and fail for good any number of
  times, but it is recorded as sent only after the provider took it, and then only moves on.
- `LateSendsBounded`: a pause lets through the sends that were being prepared, one of each process.
- `SendsCounted`: the provider takes a message at most as often as its row counts attempts. The count
  is committed before the cadence wait, and a failure of that statement ends the job.
- `AttemptsWithinJobs`: how many attempts there really are, where the README of the repository says
  three (run `attempts`). Each job published pays for one attempt, and an attempt that is retried
  leaves two more jobs, that of its timer and that of the sweeper: `2 * (MaxAttempts - 1) + 1`
  for an immediate campaign. A reschedule lets the jobs be published again, and each failure
  adds one at most: a failed release that is repeated, or a command the Redis client sends again.
- `JobsAreStored`: no job precedes the commit of the row it is about.
- `ImplementsPlan`: the plan of a campaign, read off the columns of its row, moves as `CampaignPlan`
  allows: it is released only while scheduled, never while cancelled, a released one is neither
  cancelled nor rescheduled unless the scheduler that holds the release takes it back, and one
  scheduler at most holds it. Requests decide on rows they read earlier, so all of it rests on the
  conditions of the UPDATEs.
- `CompletedMeansAllSent`: a campaign shown as sent, delivered or read has nothing left that did
  not go out, although counts are taken and applied at different moments.
- `ScheduledNotReleased`: the worker drops jobs of a campaign shown as scheduled; it is then
  still to be released.
- `OpenMessageHeld` (no faults): an open message has a job somewhere, a retry in the table or a
  campaign still to be published.
- `CountersSettle` (worker alone, no faults), `PausedMeansPaused` (no faults): two pieces of
  state that agree again when a job or a request is over.
- `EventuallySettled` (no faults): each message ends sent or failed, for good, unless its
  campaign stays paused or was cancelled.
- `SendsSpaced`, `BurstsBounded`: the pace holds however settings change. A send that was
  late, or took long, is not caught up with by sending faster.

- `ImplementsSchemaHistory`: files take effect in the order of their names, each once, and
  `schema_migrations` names a file exactly from then on, whoever runs them and is interrupted.
- `ServesProvisioned`: a container starts the service only on the whole schema with the
  bootstrap company in it, although another one may have migrated.
- `StartNeverRefused`: a bootstrap fails by a fault only. The insert of a company that another
  container inserted in between would be refused; the seed of the last migration keeps every
  container from it.
- `EventuallyServing`: after the last fault all containers end up serving. The runner that
  loses a race on a file fails, starts over and finds the file recorded.
- `ImplementsRegistry`: whatever comes between the UPDATE and the INSERT of a synchronisation,
  the tables change as by one atomic upsert, or the call is refused.
- `AcceptedIsKept`: a campaign a caller was told is accepted is stored for the company it named,
  and its jobs were queued or wait for the release. An immediate campaign whose publication
  failed is stored without jobs, and the caller has the error; repeating it is refused.
- `SentFromItsInstance`: the token a message goes out with is that of the instance it names.
- `StaleOnlyAfterAChange`: a send carries another key than its instance has only if the instance
  changed at the provider since the process started. It is about the key alone: the provider may
  refuse a message for other reasons, and `ListInstances` may fail.
- `HealedByAnyAnswer`: if answers keep being filled in, the map ends up with the current token
  of every instance, whoever asked for which.

`TypeOK`, `CadenceTypeOK`, `ProvisioningTypeOK` and `TokenTypeOK` are the type invariants.

### Fairness

In `DisparaGO`, `FairSpec` assumes weak fairness of each goroutine's own steps: the dispatch loop (a job
popped and carried through, not the empty BLPOP), each retry timer, each claimed retry being
queued, the scheduler loop, and a request once begun. All of these are loops or
straight-line code that the Go runtime goes on with while the process is up, and every call
in them ends (with an error at the latest). Nothing is assumed of clients beginning requests,
and nothing of the sweeper finding a row: the timer alone brings a retry back.

In `Provisioning`, each container's start is fair: `restart: unless-stopped` starts it again and
its statements end. That covers `Boot(p)` only, not the callers. In `TokenCache` a call to the
provider ends, since the HTTP client has a timeout; that messages come is not assumed
(`HealedByAnyAnswer` has it as its premise).

Each liveness check is about infinite behaviours of a finite instance; attempts are finite
because `MaxAttempts` bounds what is retried.

## Where code and documents disagree

Five runs find what a document or comment of the repository says violated by the code
(details and quotations in `PROJECT.json`):

- `attempts`: more attempts than `RETRY_MAX_ATTEMPTS`. Timer and sweeper both queue a retry, and
  the worker does not skip a message that has failed for good.
- `restart`: the sweeper clears `next_retry_at` before it pushes the job; a process that ends in
  between loses the retry the sweeper exists to recover.
- `cancel`: cancelling is said to prevent new sends, but the jobs of an immediate campaign that
  was rescheduled and then cancelled are attempted.
- `scaling`: with two processes a message is handed over again after it was recorded as sent,
  since `processing` does not keep a second worker away.
- `counters`: a webhook and the worker recalculate at the same time and the older counts stay.

One more is seen in the model and has no run. The repository's README (line 187) asks for
idempotent creation of campaigns. A repeated create of the same external reference is answered
with the campaign only if it is scheduled; an immediate one is refused by the unique index
(`InsertCampaign` in `Directory`). No second campaign comes of it, so it is a matter of reading
whether that is idempotent; `AcceptedIsKept` asks only that what was accepted is kept.

## What is proved

For any sets of clients, webhooks, campaigns, containers, callers, senders and instances,
finitely many processes and messages, any number of faults, attempts, files and tokens; the
assumptions are the named ASSUMEs of the modules, which only give the constants their types
(a message belongs to a campaign, a client to a process). `OneProcess` (at most one process)
is a hypothesis of five theorems, where the code needs it: run `scaling` shows `NeverResent` false
with two, and with two `AttemptsWithinJobs` is false as well, since both can read the same attempt
count, and both retry what only one of them would. `WorkerAlone` adds that there are no requests and no webhooks: run `counters` shows
`CountersSettle` false with one webhook.

| Theorem | Says | Needs |
|---|---|---|
| `TypeCorrect` | `Spec => []TypeOK` | |
| `NeverResentTheorem` | `Spec => NeverResent` | OneProcess |
| `Refinement` | `Spec => ImplementsLifecycle` | OneProcess |
| `ScheduledTheorem` | `Spec => []ScheduledNotReleased` | |
| `PauseTheorem` | `Spec => []LateSendsBounded` | |
| `PlanRefinement` | `Spec => ImplementsPlan` | |
| `CompletionTheorem` | `Spec => []CompletedMeansAllSent` | OneProcess |
| `HeldTheorem` | `Spec => []OpenMessageHeld` | |
| `PausedTheorem` | `Spec => []PausedMeansPaused` | |
| `CountersTheorem` | `Spec => []CountersSettle` | WorkerAlone |
| `JobsStoredTheorem` | `Spec => []JobsAreStored` | |
| `SendsTheorem` | `Spec => []SendsCounted` | |
| `AttemptsTheorem` | `Spec => []AttemptsWithinJobs` | OneProcess |
| `CadenceTypes`, `BurstsTheorem` | `Spec => []CadenceTypeOK`, `Spec => []BurstsBounded` | |
| `SpacingTheorem` | `Spec => SendsSpaced` | |
| `TokenTypes` | `Spec => []TokenTypeOK` | |
| `SentFromInstance`, `StaleAfterAChange` | `Spec => SentFromItsInstance`, `Spec => []StaleOnlyAfterAChange` | |
| `SchemaHistoryImplemented` | `Spec => ImplementsSchemaHistory` | |
| `ProvisioningTypes`, `ServedIsProvisioned` | `Spec => []ProvisioningTypeOK`, `Spec => []ServesProvisioned` | |
| `AcceptedStaysKept` | `Spec => []AcceptedIsKept` | |
| `StartIsNeverRefused` | `Spec => StartNeverRefused` | |
| `RegistryImplemented` | `Spec => ImplementsRegistry` | |

How the proofs go:

- **Types.** One lemma per component, one step per action.
- **Lifecycle.** `NeverResent` says nothing of what `handleJob` remembers. `HandoverInv` does: a
  message in flight, from the look at its status to the record of the send, has not gone
  out (`FlightsUnsent`); what is about to be recorded was taken (`RecordsTaken`); a webhook
  finds only messages that went out (`IdentifiedSent`). A step that keeps these is a step of
  MessageLifecycle or a stutter; `NeverResent` then follows from the abstract specification
  and `IdentifiedSent`.
- **Campaigns.** A row of `campaigns` is written by every component. The lemma
  `CampaignChanges` says once that a step leaves a row alone or rewrites it by one of nine
  statements; the invariants about rows are proved over these statements, not over the actions.
- **Pause.** `LateSendsBounded` is kept because whoever prepares a send began before the pause, and
  prepares one: the late sends and the processes that prepare one add up to no more than the
  processes (`PreparedInTime`). A send moves its process from the second to the first.
  `LateOnlyPaused` and `PausesStored` tie the history variable to the flag.
- **Plan.** What a request or a scheduler still has to do must agree with the rows: `ReleasesHeld` (a
  campaign in a scheduler's hands is stored, scheduled and released, and in nobody else's hands),
  `OneReverted` (a scheduler that takes back has given up the rest), `NeverBoth` (released and
  cancelled exclude each other), `CancelsScheduled` (a cancel under way found a scheduled row, and no
  row becomes immediate again) and `RequestsStored`. Over these each action is one step of
  CampaignPlan or a stutter; `PlanSteps` collects them.
- **Completion.** Counts may be old when applied. `HeldSound` says that counts that would complete a
  campaign were taken after its last message went out, and, since a message that went out stays
  so (from the refinement), they are still right when applied. `CountingIsSound` is the
  arithmetic: the sizes of disjoint sets of messages that add up to the total leave no other.
- **As long as nothing fails.** `UpWithoutFaults` says that without a fault no process stops, so that
  no call fails (`NothingFails`). For `OpenMessageHeld`, `Kept` says where an open message is: in the
  queue, with a worker that still has to record how it ends (`Working`, which unlike `HasJob`
  excludes one that only recalculates), with a timer, claimed, in the table, or with a campaign to
  publish. One lemma per place shows that a message leaves it only for another one; the place
  "dropped because scheduled" rests on `ScheduledTheorem`. For `PausedMeansPaused`, the counts
  that are written add up to all messages (`HeldTotal`), so the CASE of `RecalculateCampaign` never
  comes to its last branch, the one that would keep "paused". For `CountersSettle`, counts
  about to be written are fresh, and a campaign whose counters are old is being recalculated
  (`CountersTrue`).
- **Jobs.** A message of a campaign not stored has no job, and no worker step gives it one
  (`WorkerBringsNothing`); a publication is of a stored campaign, by `RequestsStored` for a request and
  by `ReleasesHeld` for a scheduler.
- **Sends.** `SendsClaimed`: the sends taken and the processes on their way to one add up to no more
  than the attempts counted. `BeginAttempt` adds to the count when it adds a sender, a send moves one
  over, and with several processes each has an attempt of its own.
- **Attempts.** An account per message (`Paid`): the attempts made, two jobs for each retry still to
  come, and the jobs there are, wherever they are (queue, handler, timer, sweeper, column), with the
  publications still owed, never exceed `2 * (MaxAttempts - 1)` and what was granted: one publication
  for an immediate campaign, two for a scheduled one, and one for each fault. Each action is shown to
  pay for what it adds: an attempt that is retried uses up one job and one retry for two jobs
  (`AttemptPrice`), a publication was owed (`ToRelease`, `Publishing`), a reschedule is granted one
  more, and a release that may have been published although it failed, or a command that is sent
  again (`PushAgainKeepsPaid`), is granted by its fault. It needs that a process still knows the attempt count of the row (`AttemptsRead`), which is where one
  process enters, and that one request publishes a campaign (`OnePublisher`). The copies of a job
  in the queue are counted by `Cardinality` over positions (`CopiesAppend`, `CopiesTail`,
  `CopiesPublished`).
- **Schema.** `SchemaInv`: the history is 1, 2, ... and these files are recorded; a container works on
  no file after the first that is missing, and only one container is about to commit.
- **Directory.** `DirectoryInv` adds that user names are unique and that the rows a call found stay
  what they were for the rest of it (`CallsSound`), because no row is deleted and a company never
  changes; `Seeded` that the bootstrap company is there from the last file on. An insert is then an
  insert of what nobody else has inserted, or the unique index refuses it.
- **Tokens.** `TokenInv`: a token that is held anywhere, at the provider, in the map, in an answer
  or as a key, was handed out for the instance it is held for, and of an instance that was kept
  only the current one is held.
- **Cadence.** `CadenceInv` adds to the types: settings are bounded (`SettingsBounded`); a lane
  dates its last send at most `MaxLate` before it began (`LaneSound`); a wait in progress leaves the
  minimum gap and, for a new burst, the minimum pause (`WaitSound`); the burst count is at
  least the streak of sends, except while the pause that ends it is waited for (`CountSound`).

Only model-checked: `EventuallySettled`, `EventuallyServing` and `HealedByAnyAnswer`, since liveness
under fairness and ENABLED are out of the prover's reach, and what the five runs that find a
violation are about. No module uses recursion.

## What is not modelled, and why

- Input validation, authorisation, pagination, dashboards, health: they decide whether a
  request reaches the service, or only read.
- Login, token validation and the webhook token: password hashes, signatures and wall-clock
  expiry are outside the method's reach, and nothing they do changes a table.
- The content of migrations: a file is a number, and that its statements succeed is not
  asked. PostgreSQL's own initialisation also runs the first file (`docker-compose.yml` mounts it);
  it is written with IF NOT EXISTS, so it may take effect twice there, which the model leaves out.
- The names, roles and sources of companies and users, which nothing here branches on.
- The delay asked of the provider (`ProviderDelay*`): a random number nothing depends on.
- The retry delay (`RETRY_DELAY`): a retry may be due at any moment.
- The web console: it only calls the API.
- Cadence with several processes: each has lanes of its own, so nothing holds across them.
- Cadence across a restart: lanes are in memory, so `SendsSpaced` is about one life of the
  process.
- Burst sizes and durations below zero: `validate` refuses them in settings, and the environment
  is taken not to have them; zero and upside-down ranges it may have.

## Plan

Written in this order, the most important behaviour first: tables, queue and worker; the
abstract lifecycle and its refinement; requests and scheduler; webhooks; cadence; the start of
a container and the directory; the token cache; proofs of each as soon as the runs agreed.
What is left, in this order:

1. `ProvisioningProofs` for users that take over a name: `UpsertUser` by design gives the row of a
   name to the last caller, also the operator's. No document says who owns a name, so there is no
   property yet.
2. Batches of releases that fail in the middle: the campaigns after the failing one stay
   released without jobs. The model has the step (`PublishReleased`), no document contradicts it.
3. `ListInstances` refused for the key of the service, which `shouldRetry` takes for the message's
   own final failure: the step is in `TokenCache` (`ListFails`), and again no document says more.
4. `CountersSettle` with requests that do not resume: `JobsAreStored` now says what that proof lacked of
   campaigns not stored yet.
5. `AttemptsWithinJobs` for several processes, with the bound that is true there.
