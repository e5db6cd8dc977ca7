----------------------------- MODULE TypeProofs -----------------------------
(***************************************************************************)
(* Type correctness of DisparaGO for all values of its constants: every    *)
(* variable keeps its type under every step, crashes and failures          *)
(* included.  The lemmas on the statements of the store and on the queue   *)
(* are used again by the modules that extend this one.                     *)
(***************************************************************************)
EXTENDS DisparaGO, FiniteSetTheorems, SequenceTheorems, TLAPS

(* The statements of the store map rows to rows. *)

\* The statements on a message row give a message row.
LEMMA MessageStatements ==
  ASSUME NEW row \in MessageRow, NEW identified \in BOOLEAN
  PROVE  /\ MarkProcessing(row) \in MessageRow
         /\ MarkSent(row, identified) \in MessageRow
         /\ MarkFailed(row) \in MessageRow
         /\ MarkPendingRetry(row) \in MessageRow
         /\ MarkDelivered(row) \in MessageRow
         /\ MarkRead(row) \in MessageRow
         /\ [row EXCEPT !.next_retry_at = FALSE] \in MessageRow
<1> USE DEF MessageRow, MessageStatus, Sent
<1>1. MarkProcessing(row) \in MessageRow
  <2>1. row.attempt_count + 1 \in Nat
    OBVIOUS
  <2>2. \A n \in Nat : [row EXCEPT !.status = "processing", !.attempt_count = n,
                                   !.next_retry_at = FALSE] \in MessageRow
    OBVIOUS
  <2>3. QED BY <2>1, <2>2 DEF MarkProcessing
<1>2. MarkSent(row, identified) \in MessageRow
  BY DEF MarkSent
<1>3. MarkFailed(row) \in MessageRow
  BY DEF MarkFailed
<1>4. MarkPendingRetry(row) \in MessageRow
  BY DEF MarkPendingRetry
<1>5. MarkDelivered(row) \in MessageRow /\ MarkRead(row) \in MessageRow
  BY DEF MarkDelivered, MarkRead
<1>6. [row EXCEPT !.next_retry_at = FALSE] \in MessageRow
  OBVIOUS
<1>7. QED BY <1>1, <1>2, <1>3, <1>4, <1>5, <1>6

\* The statements on a campaign row give a campaign row.
LEMMA CampaignStatements ==
  ASSUME NEW row \in CampaignRow, NEW paused \in BOOLEAN
  PROVE  /\ PausedSet(row, paused) \in CampaignRow
         /\ Rescheduled(row) \in CampaignRow
         /\ Cancelled(row) \in CampaignRow
         /\ Released(row) \in CampaignRow
         /\ ReleaseReverted(row) \in CampaignRow
BY DEF CampaignRow, CampaignStatus, Sent, PausedSet, Rescheduled, Cancelled, Released,
       ReleaseReverted

\* The number of messages that satisfy a condition is a number.
LEMMA CountOfMessages ==
  ASSUME NEW S \in SUBSET Messages
  PROVE  Cardinality(S) \in Nat
<1>1. IsFiniteSet(S)
  BY StoreAssumption, FS_Subset
<1>2. QED BY <1>1, FS_CardinalityType

\* The counts of RecalculateCampaign are numbers, since there are finitely many messages.
LEMMA CountMessagesType ==
  ASSUME NEW c
  PROVE  CountMessages(c) \in [MessageStatus -> Nat]
<1>1. \A s \in MessageStatus : Cardinality({m \in MessagesOf(c) : messages[m].status = s}) \in Nat
  BY CountOfMessages DEF MessagesOf
<1>2. QED BY <1>1 DEF CountMessages

\* The counts of a job that has taken none.
LEMMA NoCountsType == NoCounts \in [MessageStatus -> Nat]
BY DEF NoCounts

\* Create gives a campaign row.
LEMMA NewCampaignType ==
  ASSUME NEW c, NEW mode \in {"now", "scheduled"}
  PROVE  NewCampaign(c, mode) \in CampaignRow
<1>1. Cardinality(MessagesOf(c)) \in Nat
  BY CountOfMessages DEF MessagesOf
<1>2. [s \in MessageStatus |-> IF s = "pending" THEN Cardinality(MessagesOf(c)) ELSE 0]
        \in [MessageStatus -> Nat]
  BY <1>1
<1>3. QED BY <1>2 DEF NewCampaign, CampaignRow, CampaignStatus

\* A recalculated campaign row is one.
LEMMA RecalculatedType ==
  ASSUME NEW c \in Campaigns, campaigns[c] \in CampaignRow, NEW n \in [MessageStatus -> Nat]
  PROVE  Recalculated(c, n) \in CampaignRow
<1>1. RecalculatedStatus(campaigns[c], n, Cardinality(MessagesOf(c))) \in CampaignStatus
  BY DEF RecalculatedStatus, CampaignRow, CampaignStatus, Sent
<1>2. QED BY <1>1 DEF Recalculated, CampaignRow

(* The queue holds jobs. *)

\* The jobs of a set of messages are a sequence of them.
LEMMA OrderingsType ==
  ASSUME NEW S \in SUBSET Messages, NEW jobs \in Orderings(S)
  PROVE  jobs \in Seq(Messages)
<1>1. Cardinality(S) \in Nat
  BY CountOfMessages
<1>2. jobs \in [1 .. Cardinality(S) -> Messages]
  BY DEF Orderings
<1>3. QED BY <1>1, <1>2

\* One job is in order on its own.
LEMMA SingleOrdering ==
  ASSUME NEW m \in Messages
  PROVE  <<m>> \in Orderings({m})
<1>1. Cardinality({m}) = 1
  BY FS_Singleton
<1>2. <<m>> \in [1 .. 1 -> {m}] /\ \A n \in {m} : \E i \in 1 .. 1 : <<m>>[i] = n
  OBVIOUS
<1>3. QED BY <1>1, <1>2 DEF Orderings

\* A step leaves the number of faults alone or adds one within the bound.
LEMMA FaultsType ==
  ASSUME faults \in 0 .. MaxFaults, NEW p,
         \/ Succeeds(p) \/ Fails(p) \/ SchedulerSucceeds(p) \/ SchedulerFails(p)
         \/ Fault \/ UNCHANGED faults
  PROVE  faults' \in 0 .. MaxFaults
BY QueueAssumption DEF Succeeds, Fails, SchedulerSucceeds, SchedulerFails, Fault

------------------------------------------------------------------------------
(* The worker *)

\* A worker past "pop" has a job with all its fields.
LEMMA HandlerAt ==
  ASSUME WorkerTypeOK, NEW p \in Procs, worker[p].pc # "pop"
  PROVE  worker[p] \in Handling
BY DEF WorkerTypeOK, Idle

\* What the actions of handleJob do with worker[p].
LEMMA HandlerMoves ==
  ASSUME WorkerTypeOK, NEW p \in Procs, worker[p] \in Handling,
         NEW pc \in HandlerPC, NEW next \in {"pop", "cadence", "scheduleRetry"},
         NEW attempt \in Nat, NEW counts \in [MessageStatus -> Nat]
  PROVE  LET States == [Procs -> {Idle} \union Handling]
         IN  /\ [worker EXCEPT ![p].pc = pc] \in States
             /\ [worker EXCEPT ![p].pc = pc, ![p].next = next] \in States
             /\ [worker EXCEPT ![p].pc = pc, ![p].attempt = attempt] \in States
             /\ [worker EXCEPT ![p].pc = pc, ![p].counts = counts] \in States
             /\ [worker EXCEPT ![p] = [worker[p] EXCEPT !.pc = pc, !.counts = counts,
                                                        !.next = next]] \in States
<1> DEFINE Old == worker[p]
<1> HIDE DEF Old
<1>1. Old \in Handling
  BY DEF Old
<1>2. /\ [Old EXCEPT !.pc = pc] \in Handling
      /\ [Old EXCEPT !.pc = pc, !.next = next] \in Handling
      /\ [Old EXCEPT !.pc = pc, !.attempt = attempt] \in Handling
      /\ [Old EXCEPT !.pc = pc, !.counts = counts] \in Handling
      /\ [Old EXCEPT !.pc = pc, !.counts = counts, !.next = next] \in Handling
  BY <1>1 DEF Handling
<1>3. worker \in [Procs -> {Idle} \union Handling]
  BY DEF WorkerTypeOK
<1>4. \A new \in Handling : [worker EXCEPT ![p] = new] \in [Procs -> {Idle} \union Handling]
  BY <1>3
<1>5. /\ [worker EXCEPT ![p].pc = pc] = [worker EXCEPT ![p] = [Old EXCEPT !.pc = pc]]
      /\ [worker EXCEPT ![p].pc = pc, ![p].next = next]
           = [worker EXCEPT ![p] = [Old EXCEPT !.pc = pc, !.next = next]]
      /\ [worker EXCEPT ![p].pc = pc, ![p].attempt = attempt]
           = [worker EXCEPT ![p] = [Old EXCEPT !.pc = pc, !.attempt = attempt]]
      /\ [worker EXCEPT ![p].pc = pc, ![p].counts = counts]
           = [worker EXCEPT ![p] = [Old EXCEPT !.pc = pc, !.counts = counts]]
  BY <1>3 DEF Old
<1>6. QED BY <1>2, <1>4, <1>5 DEF Old

\* The ways a job goes on keep its type.
LEMMA HandlerSteps ==
  ASSUME WorkerTypeOK, NEW p \in Procs, worker[p] \in Handling
  PROVE  /\ \A pc \in HandlerPC : Goto(p, pc) => worker' \in [Procs -> {Idle} \union Handling]
         /\ \A next \in {"pop", "cadence", "scheduleRetry"} :
              Recalculate(p, next) => worker' \in [Procs -> {Idle} \union Handling]
         /\ EndJob(p) => worker' \in [Procs -> {Idle} \union Handling]
         /\ AfterRecalculation(p) => worker' \in [Procs -> {Idle} \union Handling]
<1>1. ASSUME NEW pc \in HandlerPC, Goto(p, pc)
      PROVE  worker' \in [Procs -> {Idle} \union Handling]
  <2>1. [worker EXCEPT ![p].pc = pc] \in [Procs -> {Idle} \union Handling]
    BY NoCountsType, 0 \in Nat, HandlerMoves
  <2>2. QED BY <1>1, <2>1 DEF Goto
<1>2. ASSUME NEW next \in {"pop", "cadence", "scheduleRetry"}, Recalculate(p, next)
      PROVE  worker' \in [Procs -> {Idle} \union Handling]
  <2>1. "count" \in HandlerPC
    BY DEF HandlerPC
  <2>2. [worker EXCEPT ![p].pc = "count", ![p].next = next] \in [Procs -> {Idle} \union Handling]
    BY <2>1, NoCountsType, 0 \in Nat, HandlerMoves
  <2>3. QED BY <1>2, <2>2 DEF Recalculate
<1>3. ASSUME EndJob(p)
      PROVE  worker' \in [Procs -> {Idle} \union Handling]
  BY <1>3 DEF EndJob, WorkerTypeOK
<1>4. ASSUME AfterRecalculation(p)
      PROVE  worker' \in [Procs -> {Idle} \union Handling]
  <2>1. CASE worker[p].next = "pop"
    BY <1>4, <2>1 DEF AfterRecalculation, WorkerTypeOK
  <2>2. CASE worker[p].next # "pop"
    <3>1. worker[p].next \in HandlerPC
      BY <2>2 DEF Handling, HandlerPC
    <3>2. [worker EXCEPT ![p] = [worker[p] EXCEPT !.pc = worker[p].next, !.counts = NoCounts,
                                                  !.next = "pop"]]
            \in [Procs -> {Idle} \union Handling]
      BY <3>1, NoCountsType, 0 \in Nat, HandlerMoves
    <3>3. QED BY <1>4, <2>2, <3>2 DEF AfterRecalculation
  <2>3. QED BY <2>1, <2>2
<1>5. QED BY <1>1, <1>2, <1>3, <1>4

\* The part of TypeOK the worker's variables are in.
DispatchTypeOK == StoreTypeOK /\ QueueTypeOK(Messages) /\ WorkerTypeOK

\* The commands on the queue keep it a sequence of jobs.
LEMMA QueueMoves ==
  ASSUME QueueTypeOK(Messages), NEW m \in Messages, NEW S \in SUBSET Messages,
         NEW jobs \in Orderings(S)
  PROVE  /\ Append(queue, m) \in Seq(Messages)
         /\ queue \o jobs \in Seq(Messages)
         /\ queue # << >> => Head(queue) \in Messages /\ Tail(queue) \in Seq(Messages)
<1>1. jobs \in Seq(Messages)
  BY OrderingsType
<1>2. queue \in Seq(Messages)
  BY DEF QueueTypeOK
<1>3. queue # << >> => Head(queue) \in Messages /\ Tail(queue) \in Seq(Messages)
  BY <1>2, HeadTailProperties
<1>4. QED BY <1>1, <1>2, <1>3, ConcatProperties

\* Every step of the worker (dispatch_worker.go) keeps the types.
LEMMA WorkerKeepsTypes ==
  ASSUME DispatchTypeOK, NEW p \in Procs, WorkerStep(p)
  PROVE  DispatchTypeOK'
<1> USE DEF DispatchTypeOK
<1>a. worker[p].pc # "pop" => worker[p] \in Handling
  BY HandlerAt
<1>b. faults \in 0 .. MaxFaults
  BY DEF QueueTypeOK
<1>c. /\ "getMessage" \in HandlerPC /\ "getCampaign" \in HandlerPC
      /\ "requeue" \in HandlerPC /\ "markProcessing" \in HandlerPC
      /\ "count" \in HandlerPC /\ "apply" \in HandlerPC
      /\ "cadence" \in HandlerPC /\ "send" \in HandlerPC
      /\ "markSent" \in HandlerPC /\ "markRetry" \in HandlerPC
      /\ "markFailed" \in HandlerPC /\ "scheduleRetry" \in HandlerPC
  BY DEF HandlerPC
<1>e. ASSUME NEW m \in Messages, Requeue(m)
      PROVE  queue' \in Seq(Messages)
  BY <1>e, ElementOfSeq DEF Requeue, QueueTypeOK
<1>f. worker[p].pc # "pop" =>
        /\ worker[p].msg \in Messages
        /\ CampaignOf[worker[p].msg] \in Campaigns
        /\ messages[worker[p].msg] \in MessageRow
        /\ campaigns[CampaignOf[worker[p].msg]] \in CampaignRow
  BY <1>a, StoreAssumption DEF Handling, StoreTypeOK
<1>1. ASSUME Pop(p) \/ PopLost(p) PROVE DispatchTypeOK'
  <2>1. QueueTypeOK(Messages)'
    BY <1>1, <1>b, FaultsType, HeadTailProperties DEF Pop, PopLost, QueueTypeOK
  <2>2. StoreTypeOK'
    BY <1>1 DEF Pop, PopLost, StoreTypeOK, storeVars
  <2>3. Head(queue) \in Messages
    BY <1>1, HeadTailProperties DEF Pop, PopLost, QueueTypeOK
  <2>4. [pc |-> "getMessage", msg |-> Head(queue), attempt |-> 0,
         counts |-> NoCounts, next |-> "pop"] \in Handling
    BY <2>3, NoCountsType DEF Handling, HandlerPC
  <2>5. WorkerTypeOK'
    BY <1>1, <2>4 DEF Pop, PopLost, WorkerTypeOK, workerVars
  <2>6. QED BY <2>1, <2>2, <2>5
<1>2. ASSUME PopTimesOut(p) PROVE DispatchTypeOK'
  BY <1>2 DEF PopTimesOut, dispatchVars, storeVars, queueVars, workerVars, StoreTypeOK,
              QueueTypeOK, WorkerTypeOK
<1>3. ASSUME GetMessage(p) \/ GetCampaign(p) \/ ReadFails(p) \/ CountForRecalculation(p)
               \/ WaitForCadence(p)
      PROVE  DispatchTypeOK'
  <2>1. StoreTypeOK'
    BY <1>3 DEF GetMessage, GetCampaign, ReadFails, CountForRecalculation, WaitForCadence,
                StoreTypeOK, storeVars
  <2>2. QueueTypeOK(Messages)'
    <3>1. faults' \in 0 .. MaxFaults
      BY <1>3, <1>b, FaultsType
      DEF GetMessage, GetCampaign, ReadFails, CountForRecalculation, WaitForCadence, queueVars
    <3>2. queue' = queue /\ phase' = phase
      BY <1>3
      DEF GetMessage, GetCampaign, ReadFails, CountForRecalculation, WaitForCadence, queueVars
    <3>3. QED BY <3>1, <3>2 DEF QueueTypeOK
  <2>3. worker[p] \in Handling
    BY <1>3, <1>a
    DEF GetMessage, GetCampaign, ReadFails, CountForRecalculation, WaitForCadence, At
  <2>4. worker' \in [Procs -> {Idle} \union Handling]
    <3>1. CASE GetMessage(p)
      <4>1. messages[worker[p].msg].attempt_count \in Nat
        BY <2>3 DEF Handling, StoreTypeOK, MessageRow
      <4>2. [worker EXCEPT ![p].pc = "getCampaign",
                           ![p].attempt = messages[worker[p].msg].attempt_count]
              \in [Procs -> {Idle} \union Handling]
        BY <4>1, <1>c, <2>3, NoCountsType, HandlerMoves
      <4>3. QED BY <3>1, <4>2, <2>3, HandlerSteps DEF GetMessage
    <3>2. CASE CountForRecalculation(p)
      <4>1. [worker EXCEPT ![p].pc = "apply",
                           ![p].counts = CountMessages(CampaignOf[worker[p].msg])]
              \in [Procs -> {Idle} \union Handling]
        BY <1>c, <2>3, CountMessagesType, 0 \in Nat, HandlerMoves
      <4>2. QED BY <3>2, <4>1 DEF CountForRecalculation
    <3>3. CASE GetCampaign(p) \/ ReadFails(p) \/ WaitForCadence(p)
      BY <3>3, <1>c, <2>3, HandlerSteps DEF GetCampaign, ReadFails, WaitForCadence
    <3>4. QED BY <1>3, <3>1, <3>2, <3>3
  <2>5. WorkerTypeOK'
    BY <1>3, <2>4
    DEF GetMessage, GetCampaign, ReadFails, CountForRecalculation, WaitForCadence, WorkerTypeOK
  <2>6. QED BY <2>1, <2>2, <2>5
<1>4. ASSUME RequeuePaused(p) PROVE DispatchTypeOK'
  <2>1. worker[p] \in Handling
    BY <1>4, <1>a DEF RequeuePaused, At
  <2>2. WorkerTypeOK'
    BY <1>4, <2>1, HandlerSteps DEF RequeuePaused, WorkerTypeOK
  <2>3. QueueTypeOK(Messages)'
    <3>1. queue' \in Seq(Messages)
      BY <1>4, <1>e, <2>1 DEF RequeuePaused, QueueTypeOK, Handling
    <3>2. faults' \in 0 .. MaxFaults
      BY <1>4, <1>b, FaultsType DEF RequeuePaused
    <3>3. QED BY <1>4, <3>1, <3>2 DEF RequeuePaused, QueueTypeOK
  <2>4. StoreTypeOK'
    BY <1>4 DEF RequeuePaused, StoreTypeOK, storeVars
  <2>5. QED BY <2>2, <2>3, <2>4
<1>5. ASSUME BeginAttempt(p) \/ RecordSent(p) \/ RecordRetry(p) \/ RecordFailure(p)
      PROVE  DispatchTypeOK'
  <2> USE DEF BeginAttempt, RecordSent, RecordRetry, RecordFailure
  <2>1. worker[p].pc # "pop" /\ worker[p] \in Handling
    BY <1>5, <1>a DEF At
  <2>2. WorkerTypeOK'
    <3>1. worker' \in [Procs -> {Idle} \union Handling]
      BY <1>5, <2>1, HandlerSteps
    <3>2. QED BY <1>5, <3>1 DEF WorkerTypeOK
  <2>3. QueueTypeOK(Messages)'
    <3>1. faults' \in 0 .. MaxFaults
      BY <1>5, <1>b, FaultsType
    <3>2. QED BY <1>5, <3>1 DEF QueueTypeOK
  <2>4. \A identified \in BOOLEAN :
          LET row == messages[worker[p].msg]
          IN  /\ MarkProcessing(row) \in MessageRow
              /\ MarkSent(row, identified) \in MessageRow
              /\ MarkPendingRetry(row) \in MessageRow
              /\ MarkFailed(row) \in MessageRow
    BY <1>f, <2>1, MessageStatements
  <2>5. messages' \in [Messages -> MessageRow]
    BY <1>5, <1>f, <2>1, <2>4 DEF Update, StoreTypeOK
  <2>6. StoreTypeOK'
    BY <1>5, <2>5 DEF StoreTypeOK
  <2>7. QED BY <2>2, <2>3, <2>6
<1>6. ASSUME ApplyRecalculation(p) \/ RecalculationFails(p) PROVE DispatchTypeOK'
  <2> USE DEF ApplyRecalculation, RecalculationFails
  <2>1. worker[p].pc # "pop" /\ worker[p] \in Handling
    BY <1>6, <1>a DEF At
  <2>2. WorkerTypeOK'
    BY <1>6, <2>1, HandlerSteps DEF WorkerTypeOK
  <2>3. QueueTypeOK(Messages)'
    <3>1. faults' \in 0 .. MaxFaults
      BY <1>6, <1>b, FaultsType
    <3>2. QED BY <1>6, <3>1 DEF QueueTypeOK
  <2>4. Recalculated(CampaignOf[worker[p].msg], worker[p].counts) \in CampaignRow
    BY <1>f, <2>1, RecalculatedType DEF Handling
  <2>5. campaigns' \in [Campaigns -> CampaignRow]
    BY <1>6, <1>f, <2>1, <2>4 DEF StoreTypeOK, storeVars
  <2>6. StoreTypeOK'
    BY <1>6, <2>5 DEF StoreTypeOK, storeVars
  <2>7. QED BY <2>2, <2>3, <2>6
<1>7. ASSUME SendText(p) PROVE DispatchTypeOK'
  <2> USE DEF SendText
  <2>1. worker[p].pc # "pop" /\ worker[p] \in Handling
    BY <1>7, <1>a DEF At
  <2>2. worker' \in [Procs -> {Idle} \union Handling]
    BY <1>7, <1>c, <2>1, HandlerSteps
  <2>3. accepted' \in [Messages -> Nat]
    BY <1>7, <1>f, <2>1 DEF WorkerTypeOK
  <2>4. WorkerTypeOK'
    BY <1>7, <2>2, <2>3 DEF WorkerTypeOK
  <2>5. lateSends' \in [Campaigns -> Nat]
    BY <1>7, <1>f, <2>1 DEF StoreTypeOK
  <2>6. StoreTypeOK'
    BY <1>7, <2>5 DEF StoreTypeOK
  <2>7. QueueTypeOK(Messages)'
    BY <1>7 DEF queueVars, QueueTypeOK
  <2>8. QED BY <2>4, <2>6, <2>7
<1>8. ASSUME ScheduleRetry(p) PROVE DispatchTypeOK'
  <2> USE DEF ScheduleRetry
  <2>1. worker[p].pc # "pop" /\ worker[p] \in Handling
    BY <1>8, <1>a DEF At
  <2>2. worker' \in [Procs -> {Idle} \union Handling]
    BY <1>8, <2>1, HandlerSteps
  <2>3. timers' \in [Procs -> [Messages -> Nat]]
    BY <1>8, <1>f, <2>1 DEF WorkerTypeOK
  <2>4. QED
    BY <1>8, <2>2, <2>3 DEF WorkerTypeOK, storeVars, queueVars, StoreTypeOK, QueueTypeOK
<1>9. ASSUME NEW m \in Messages, TimerFires(p, m) \/ TimerCancelled(p, m)
      PROVE  DispatchTypeOK'
  <2> USE DEF TimerFires, TimerCancelled
  <2>1. timers' \in [Procs -> [Messages -> Nat]]
    BY <1>9 DEF StopTimer, WorkerTypeOK
  <2>2. WorkerTypeOK'
    BY <1>9, <2>1 DEF WorkerTypeOK
  <2>3. QueueTypeOK(Messages)'
    <3>1. queue' \in Seq(Messages)
      BY <1>9, <1>e DEF queueVars, QueueTypeOK
    <3>2. faults' \in 0 .. MaxFaults
      BY <1>9, <1>b, FaultsType DEF queueVars
    <3>3. QED BY <1>9, <3>1, <3>2 DEF queueVars, QueueTypeOK
  <2>4. StoreTypeOK'
    BY <1>9 DEF storeVars, StoreTypeOK
  <2>5. QED BY <2>2, <2>3, <2>4
<1>10. ASSUME ClaimDueRetryJobs(p) PROVE DispatchTypeOK'
  <2> USE DEF ClaimDueRetryJobs
  <2>1. WorkerTypeOK'
    BY <1>10 DEF WorkerTypeOK
  <2>2. QueueTypeOK(Messages)'
    <3>1. faults' \in 0 .. MaxFaults
      BY <1>10, <1>b, FaultsType
    <3>2. QED BY <1>10, <3>1 DEF QueueTypeOK
  <2>3. \A m \in Messages : /\ messages[m] \in MessageRow
                            /\ [messages[m] EXCEPT !.next_retry_at = FALSE] \in MessageRow
    BY MessageStatements DEF StoreTypeOK
  <2>4. messages' \in [Messages -> MessageRow]
    BY <1>10, <2>3
  <2>5. StoreTypeOK'
    BY <1>10, <2>4 DEF StoreTypeOK
  <2>6. QED BY <2>1, <2>2, <2>5
<1>11. ASSUME NEW m \in Messages, QueueClaimed(p, m) PROVE DispatchTypeOK'
  <2> USE DEF QueueClaimed
  <2>1. WorkerTypeOK'
    BY <1>11 DEF WorkerTypeOK
  <2>2. QueueTypeOK(Messages)'
    <3>1. queue' \in Seq(Messages)
      BY <1>11, <1>e DEF QueueTypeOK
    <3>2. faults' \in 0 .. MaxFaults
      BY <1>11, <1>b, FaultsType
    <3>3. QED BY <1>11, <3>1, <3>2 DEF QueueTypeOK
  <2>3. StoreTypeOK'
    BY <1>11 DEF storeVars, StoreTypeOK
  <2>4. QED BY <2>1, <2>2, <2>3
<1>12. QED
  BY <1>1, <1>2, <1>3, <1>4, <1>5, <1>6, <1>7, <1>8, <1>9, <1>10, <1>11
  DEF WorkerStep, HandleJob

------------------------------------------------------------------------------
(* The campaign service *)

\* The part of TypeOK the service's variables are in.
CampaignsTypeOK == StoreTypeOK /\ QueueTypeOK(Messages) /\ ServiceTypeOK

\* The ways a request goes on keep its type.
LEMMA RequestSteps ==
  ASSUME ServiceTypeOK, NEW k \in Clients
  PROVE  /\ \A pc \in RequestPC :
              request[k].pc # "idle" /\ Then(k, pc)
                => request' \in [Clients -> {NoRequest} \union RequestState]
         /\ EndRequest(k) => request' \in [Clients -> {NoRequest} \union RequestState]
         /\ request[k].pc # "idle" =>
              request[k] \in RequestState /\ request[k].camp \in Campaigns
<1> DEFINE Old == request[k]
<1> HIDE DEF Old
<1>1. request \in [Clients -> {NoRequest} \union RequestState]
  BY DEF ServiceTypeOK
<1>2. Old.pc # "idle" => Old \in RequestState
  BY <1>1 DEF Old, NoRequest
<1>3. ASSUME NEW pc \in RequestPC, Old.pc # "idle", Then(k, pc)
      PROVE  request' \in [Clients -> {NoRequest} \union RequestState]
  <2>1. [Old EXCEPT !.pc = pc] \in RequestState
    BY <1>2, <1>3 DEF RequestState
  <2>2. request' = [request EXCEPT ![k] = [Old EXCEPT !.pc = pc]]
    BY <1>1, <1>3 DEF Then, Old
  <2>3. QED BY <1>1, <2>1, <2>2
<1>4. ASSUME EndRequest(k)
      PROVE  request' \in [Clients -> {NoRequest} \union RequestState]
  BY <1>1, <1>4 DEF EndRequest
<1>5. Old \in RequestState => Old.camp \in Campaigns
  BY DEF RequestState
<1>6. QED BY <1>2, <1>3, <1>4, <1>5 DEF Old

\* A request that begins has all its fields.
LEMMA BeginKeepsTypes ==
  ASSUME CampaignsTypeOK, NEW k \in Clients, NEW kind, NEW c \in Campaigns,
         NEW mode \in {"now", "scheduled"}, NEW pc \in RequestPC, Begin(k, kind, c, mode, pc)
  PROVE  CampaignsTypeOK'
<1> USE DEF Begin, CampaignsTypeOK
<1>1. [s \in MessageStatus |-> 0] \in [MessageStatus -> Nat]
  OBVIOUS
<1>2. [pc |-> pc, camp |-> c, mode |-> mode, counts |-> [s \in MessageStatus |-> 0]]
        \in RequestState
  BY <1>1 DEF RequestState
<1>3. ServiceTypeOK'
  BY <1>2 DEF ServiceTypeOK
<1>4. QED BY <1>3 DEF StoreTypeOK, QueueTypeOK, storeVars, queueVars

\* Every step of a request (campaign_service.go) keeps the types.
LEMMA ClientKeepsTypes ==
  ASSUME CampaignsTypeOK, NEW k \in Clients, ClientStep(k)
  PROVE  CampaignsTypeOK'
<1> USE DEF CampaignsTypeOK
<1>a. faults \in 0 .. MaxFaults
  BY DEF QueueTypeOK
<1>b. /\ "insert" \in RequestPC /\ "publish" \in RequestPC /\ "update" \in RequestPC
      /\ "pause" \in RequestPC /\ "resume" \in RequestPC /\ "count" \in RequestPC
      /\ "apply" \in RequestPC /\ "cancel" \in RequestPC
  BY DEF RequestPC
<1>c. request[k].pc # "idle" => request[k] \in RequestState /\ request[k].camp \in Campaigns
  BY RequestSteps
<1>d. ASSUME NEW c \in Campaigns, NEW row \in CampaignRow, UpdateCampaign(c, row)
      PROVE  campaigns' \in [Campaigns -> CampaignRow]
  BY <1>d DEF UpdateCampaign, StoreTypeOK
<1>e. ASSUME NEW c \in Campaigns, NEW paused \in BOOLEAN
      PROVE  /\ PausedSet(campaigns[c], paused) \in CampaignRow
             /\ Rescheduled(campaigns[c]) \in CampaignRow
             /\ Cancelled(campaigns[c]) \in CampaignRow
             /\ campaigns[c] \in CampaignRow
  BY CampaignStatements DEF StoreTypeOK
<1>1. ASSUME NEW c \in Campaigns, NEW mode \in {"now", "scheduled"}, CreateLooksUp(k, c, mode)
      PROVE  CampaignsTypeOK'
  BY <1>1, <1>b, BeginKeepsTypes DEF CreateLooksUp
<1>2. ASSUME NEW c \in Campaigns,
             RescheduleReads(k, c) \/ CancelReads(k, c) \/ PauseReads(k, c) \/ ResumeReads(k, c)
      PROVE  CampaignsTypeOK'
  BY <1>2, <1>b, BeginKeepsTypes DEF RescheduleReads, CancelReads, PauseReads, ResumeReads
<1>3. ASSUME InsertCampaign(k) PROVE CampaignsTypeOK'
  <2> USE DEF InsertCampaign
  <2>1. request[k].pc # "idle" /\ request[k] \in RequestState /\ request[k].camp \in Campaigns
    BY <1>3, <1>c DEF Doing
  <2>2. request' \in [Clients -> {NoRequest} \union RequestState]
    BY <1>3, <1>b, <2>1, RequestSteps
  <2>3. NewCampaign(request[k].camp, request[k].mode) \in CampaignRow
    BY <2>1, NewCampaignType DEF RequestState
  <2>4. campaigns' \in [Campaigns -> CampaignRow]
    BY <1>3, <1>d, <2>1, <2>3 DEF StoreTypeOK
  <2>5. stored' \subseteq Campaigns
    BY <1>3, <2>1 DEF StoreTypeOK
  <2>6. faults' \in 0 .. MaxFaults
    BY <1>3, <1>a, FaultsType
  <2>7. QED
    BY <1>3, <2>2, <2>4, <2>5, <2>6 DEF StoreTypeOK, QueueTypeOK, ServiceTypeOK
<1>4. ASSUME PublishCreated(k) PROVE CampaignsTypeOK'
  <2> USE DEF PublishCreated
  <2>1. request' \in [Clients -> {NoRequest} \union RequestState]
    BY <1>4, RequestSteps
  <2>2. queue' \in Seq(Messages)
    <3>1. MessagesOf(request[k].camp) \subseteq Messages
      BY DEF MessagesOf
    <3>2. \A jobs \in Orderings(MessagesOf(request[k].camp)) :
            jobs \in Seq(Messages) /\ queue \o jobs \in Seq(Messages)
      BY <3>1, OrderingsType, ConcatProperties DEF QueueTypeOK
    <3>3. QED BY <1>4, <3>2 DEF Publish, QueueTypeOK
  <2>3. faults' \in 0 .. MaxFaults
    BY <1>4, <1>a, FaultsType
  <2>4. QED
    BY <1>4, <2>1, <2>2, <2>3 DEF StoreTypeOK, QueueTypeOK, ServiceTypeOK, storeVars
<1>5. ASSUME UpdateSchedule(k) \/ CancelCampaign(k) \/ PauseCampaign(k) PROVE CampaignsTypeOK'
  <2> USE DEF UpdateSchedule, CancelCampaign, PauseCampaign
  <2>1. request[k].camp \in Campaigns
    BY <1>5, <1>c DEF Doing
  <2>2. request' \in [Clients -> {NoRequest} \union RequestState]
    BY <1>5, RequestSteps
  <2>3. campaigns' \in [Campaigns -> CampaignRow]
    <3>1. CASE UNCHANGED campaigns
      BY <3>1 DEF StoreTypeOK
    <3>2. CASE campaigns' # campaigns
      BY <1>5, <3>2, <1>d, <1>e, <2>1
    <3>3. QED BY <3>1, <3>2
  <2>4. faults' \in 0 .. MaxFaults
    BY <1>5, <1>a, FaultsType
  <2>5. QED
    BY <1>5, <2>2, <2>3, <2>4 DEF StoreTypeOK, QueueTypeOK, ServiceTypeOK
<1>6. ASSUME ResumeCampaign(k) PROVE CampaignsTypeOK'
  <2> USE DEF ResumeCampaign
  <2>1. request[k].pc # "idle" /\ request[k].camp \in Campaigns
    BY <1>6, <1>c DEF Doing
  <2>2. request' \in [Clients -> {NoRequest} \union RequestState]
    BY <1>6, <1>b, <2>1, RequestSteps
  <2>3. campaigns' \in [Campaigns -> CampaignRow]
    BY <1>6, <1>d, <1>e, <2>1 DEF StoreTypeOK
  <2>4. lateSends' \in [Campaigns -> Nat]
    <3>1. lateSends \in [Campaigns -> Nat]
      BY DEF StoreTypeOK
    <3>2. [lateSends EXCEPT ![request[k].camp] = 0] \in [Campaigns -> Nat]
      BY <3>1
    <3>3. \/ lateSends' = [lateSends EXCEPT ![request[k].camp] = 0]
          \/ UNCHANGED lateSends
      BY <1>6
    <3>4. QED BY <3>1, <3>2, <3>3
  <2>5. faults' \in 0 .. MaxFaults
    BY <1>6, <1>a, FaultsType
  <2>6. QED
    BY <1>6, <2>2, <2>3, <2>4, <2>5 DEF StoreTypeOK, QueueTypeOK, ServiceTypeOK
<1>7. ASSUME CountResumed(k) PROVE CampaignsTypeOK'
  <2> USE DEF CountResumed
  <2> DEFINE Old == request[k]
             Counts == CountMessages(request[k].camp)
  <2> HIDE DEF Old, Counts
  <2>1. Old \in RequestState
    BY <1>7, <1>c DEF Doing, Old
  <2>2. Counts \in [MessageStatus -> Nat]
    BY CountMessagesType DEF Counts
  <2>3. [Old EXCEPT !.pc = "apply", !.counts = Counts] \in RequestState
    BY <1>b, <2>1, <2>2 DEF RequestState
  <2>4. request' = [request EXCEPT ![k] = [Old EXCEPT !.pc = "apply", !.counts = Counts]]
    BY <1>7 DEF Old, Counts, ServiceTypeOK
  <2>5. ServiceTypeOK'
    BY <1>7, <2>3, <2>4 DEF ServiceTypeOK
  <2>6. QED BY <1>7, <2>5 DEF StoreTypeOK, QueueTypeOK, storeVars, queueVars
<1>8. ASSUME ApplyResumed(k) PROVE CampaignsTypeOK'
  <2> USE DEF ApplyResumed
  <2>1. request[k] \in RequestState /\ request[k].camp \in Campaigns
    BY <1>8, <1>c DEF Doing
  <2>2. request[k].counts \in [MessageStatus -> Nat]
    BY <2>1 DEF RequestState
  <2>3. request' \in [Clients -> {NoRequest} \union RequestState]
    BY <1>8, RequestSteps
  <2>4. campaigns' \in [Campaigns -> CampaignRow]
    BY <1>8, <1>d, <1>e, <2>1, <2>2, RecalculatedType DEF StoreTypeOK
  <2>5. faults' \in 0 .. MaxFaults
    BY <1>8, <1>a, FaultsType
  <2>6. QED
    BY <1>8, <2>3, <2>4, <2>5 DEF StoreTypeOK, QueueTypeOK, ServiceTypeOK
<1>9. QED
  BY <1>1, <1>2, <1>3, <1>4, <1>5, <1>6, <1>7, <1>8 DEF ClientStep

\* What is left to the scheduler of process p is a set of campaigns.
LEMMA ReleaseSteps ==
  ASSUME ServiceTypeOK, NEW p \in Procs,
         NEW todo \in SUBSET Campaigns, NEW revert \in SUBSET Campaigns
  PROVE  /\ release[p].todo \in SUBSET Campaigns /\ release[p].revert \in SUBSET Campaigns
         /\ [release EXCEPT ![p] = [todo |-> todo, revert |-> revert]]
              \in [Procs -> [todo: SUBSET Campaigns, revert: SUBSET Campaigns]]
         /\ [release EXCEPT ![p].todo = todo]
              \in [Procs -> [todo: SUBSET Campaigns, revert: SUBSET Campaigns]]
BY DEF ServiceTypeOK

\* Every step of the scheduler (ReleaseDueScheduled) keeps the types.
LEMMA SchedulerKeepsTypes ==
  ASSUME CampaignsTypeOK, NEW p \in Procs, SchedulerStep(p)
  PROVE  CampaignsTypeOK'
<1> USE DEF CampaignsTypeOK
<1>a. faults \in 0 .. MaxFaults
  BY DEF QueueTypeOK
<1>1. ASSUME ClaimDueScheduled(p) PROVE CampaignsTypeOK'
  <2> USE DEF ClaimDueScheduled
  <2>1. \A c \in Campaigns : campaigns[c] \in CampaignRow /\ Released(campaigns[c]) \in CampaignRow
    BY CampaignStatements DEF StoreTypeOK
  <2>2. campaigns' \in [Campaigns -> CampaignRow]
    BY <1>1, <2>1
  <2>3. release' \in [Procs -> [todo: SUBSET Campaigns, revert: SUBSET Campaigns]]
    <3>1. PICK due \in SUBSET stored :
            release' = [release EXCEPT ![p].todo = due] \/ UNCHANGED release
      BY <1>1
    <3>2. due \in SUBSET Campaigns
      BY DEF StoreTypeOK
    <3>3. [release EXCEPT ![p].todo = due]
            \in [Procs -> [todo: SUBSET Campaigns, revert: SUBSET Campaigns]]
      BY <3>2, ReleaseSteps
    <3>4. QED BY <3>1, <3>3 DEF ServiceTypeOK
  <2>4. faults' \in 0 .. MaxFaults
    BY <1>1, <1>a, FaultsType
  <2>5. QED
    BY <1>1, <2>2, <2>3, <2>4 DEF StoreTypeOK, QueueTypeOK, ServiceTypeOK
<1>2. ASSUME NEW c \in Campaigns, PublishReleased(p, c) PROVE CampaignsTypeOK'
  <2> USE DEF PublishReleased
  <2>1. queue' \in Seq(Messages)
    <3>1. MessagesOf(c) \subseteq Messages
      BY DEF MessagesOf
    <3>2. \A jobs \in Orderings(MessagesOf(c)) :
            jobs \in Seq(Messages) /\ queue \o jobs \in Seq(Messages)
      BY <3>1, OrderingsType, ConcatProperties DEF QueueTypeOK
    <3>3. QED BY <1>2, <3>2 DEF Publish, QueueTypeOK
  <2>2. release' \in [Procs -> [todo: SUBSET Campaigns, revert: SUBSET Campaigns]]
    <3>1. \/ release' = [release EXCEPT ![p].todo = @ \ {c}]
          \/ release' = [release EXCEPT ![p] = [todo |-> {}, revert |-> {c}]]
      BY <1>2
    <3>2. release[p].todo \ {c} \in SUBSET Campaigns
      BY ReleaseSteps
    <3>3. [release EXCEPT ![p].todo = release[p].todo \ {c}]
            \in [Procs -> [todo: SUBSET Campaigns, revert: SUBSET Campaigns]]
      BY <3>2, ReleaseSteps
    <3>4. [release EXCEPT ![p] = [todo |-> {}, revert |-> {c}]]
            \in [Procs -> [todo: SUBSET Campaigns, revert: SUBSET Campaigns]]
      BY {} \in SUBSET Campaigns, {c} \in SUBSET Campaigns, ReleaseSteps
    <3>5. QED BY <3>1, <3>3, <3>4
  <2>3. faults' \in 0 .. MaxFaults
    BY <1>2, <1>a, FaultsType
  <2>4. QED
    BY <1>2, <2>1, <2>2, <2>3 DEF StoreTypeOK, QueueTypeOK, ServiceTypeOK, storeVars
<1>3. ASSUME NEW c \in Campaigns, RevertRelease(p, c) PROVE CampaignsTypeOK'
  <2> USE DEF RevertRelease
  <2>1. campaigns[c] \in CampaignRow /\ ReleaseReverted(campaigns[c]) \in CampaignRow
    BY CampaignStatements DEF StoreTypeOK
  <2>2. campaigns' \in [Campaigns -> CampaignRow]
    BY <1>3, <2>1 DEF UpdateCampaign, StoreTypeOK
  <2>3. release' \in [Procs -> [todo: SUBSET Campaigns, revert: SUBSET Campaigns]]
    BY <1>3 DEF NoRelease, ServiceTypeOK
  <2>4. faults' \in 0 .. MaxFaults
    BY <1>3, <1>a, FaultsType
  <2>5. QED
    BY <1>3, <2>2, <2>3, <2>4 DEF StoreTypeOK, QueueTypeOK, ServiceTypeOK
<1>4. QED BY <1>1, <1>2, <1>3 DEF SchedulerStep

------------------------------------------------------------------------------
(* The webhooks *)

\* The part of TypeOK the webhooks' variables are in.
TrackingTypeOK == StoreTypeOK /\ QueueTypeOK(Messages) /\ TrackerTypeOK

\* A webhook that marks or applies has the fields of that state.
LEMMA TrackerAt ==
  ASSUME TrackerTypeOK, NEW t \in Trackers
  PROVE  /\ tracker[t].pc = "mark" => tracker[t] \in Marking
         /\ tracker[t].pc = "apply" => tracker[t] \in Applying
BY DEF TrackerTypeOK, NoEvent, Marking, Applying

\* The way Track goes on keeps its type.
LEMMA ProceedType ==
  ASSUME TrackerTypeOK, NEW t \in Trackers, NEW s \in Marking, Proceed(t, s)
  PROVE  TrackerTypeOK'
BY DEF TrackerTypeOK, Proceed

\* Every step of a webhook (Track) keeps the types.
LEMMA TrackerKeepsTypes ==
  ASSUME TrackingTypeOK, NEW t \in Trackers, TrackerStep(t)
  PROVE  TrackingTypeOK'
<1> USE DEF TrackingTypeOK
<1>1. ASSUME ReceiveEvent(t) PROVE TrackingTypeOK'
  <2> USE DEF ReceiveEvent
  <2>1. \A event \in Events, ids \in SUBSET Messages :
          [pc |-> "mark", event |-> event, ids |-> ids, touched |-> {}] \in Marking
    BY DEF Marking
  <2>2. TrackerTypeOK'
    BY <1>1, <2>1 DEF TrackerTypeOK
  <2>3. QED BY <1>1, <2>2 DEF StoreTypeOK, QueueTypeOK, storeVars, queueVars
<1>2. ASSUME NEW m \in Messages, MarkMessage(t, m) PROVE TrackingTypeOK'
  <2> USE DEF MarkMessage
  <2> DEFINE Old == tracker[t]
             Next1 == [Old EXCEPT !.ids = @ \ {m}]
             Next2 == [Next1 EXCEPT !.touched = @ \union {CampaignOf[m]}]
  <2>1. Old \in Marking
    BY <1>2, TrackerAt DEF Tracking
  <2>2. Next1 \in Marking /\ Next2 \in Marking
    <3> HIDE DEF Old
    <3>1. CampaignOf[m] \in Campaigns
      BY StoreAssumption
    <3>2. QED BY <2>1, <3>1 DEF Marking
  <2>3. Proceed(t, Next1) \/ Proceed(t, Next2)
    BY <1>2
  <2>4. TrackerTypeOK'
    <3> HIDE DEF Next1, Next2
    <3>1. QED BY <2>2, <2>3, ProceedType
  <2>5. messages[m] \in MessageRow /\ \A event : Marked(messages[m], event) \in MessageRow
    BY MessageStatements DEF StoreTypeOK, Marked
  <2>6. messages' \in [Messages -> MessageRow]
    BY <1>2, <2>5 DEF StoreTypeOK
  <2>7. QED BY <1>2, <2>4, <2>6 DEF StoreTypeOK, QueueTypeOK, queueVars
<1>3. ASSUME NEW c \in Campaigns, CountTouched(t, c) PROVE TrackingTypeOK'
  <2> USE DEF CountTouched
  <2>1. tracker[t] \in Marking
    BY <1>3, TrackerAt DEF Tracking
  <2>2. [pc |-> "apply", event |-> tracker[t].event, touched |-> tracker[t].touched \ {c},
         camp |-> c, counts |-> CountMessages(c)] \in Applying
    BY <2>1, CountMessagesType DEF Marking, Applying
  <2>3. TrackerTypeOK'
    BY <1>3, <2>2 DEF TrackerTypeOK
  <2>4. QED BY <1>3, <2>3 DEF StoreTypeOK, QueueTypeOK, storeVars, queueVars
<1>4. ASSUME ApplyTouched(t) PROVE TrackingTypeOK'
  <2> USE DEF ApplyTouched
  <2> DEFINE Old == tracker[t]
             Rest == [pc |-> "mark", event |-> Old.event, ids |-> {}, touched |-> Old.touched]
  <2>1. Old \in Applying
    BY <1>4, TrackerAt DEF Tracking
  <2>2. /\ Rest \in Marking
        /\ Old.camp \in Campaigns /\ Old.counts \in [MessageStatus -> Nat]
    <3> HIDE DEF Old
    <3>1. QED BY <2>1 DEF Marking, Applying
  <2>3. Proceed(t, Rest)
    BY <1>4
  <2>4. TrackerTypeOK'
    <3> HIDE DEF Rest
    <3>1. QED BY <2>2, <2>3, ProceedType
  <2>5. Recalculated(Old.camp, Old.counts) \in CampaignRow
    BY <2>2, RecalculatedType DEF StoreTypeOK
  <2>6. campaigns' \in [Campaigns -> CampaignRow]
    BY <1>4, <2>2, <2>5 DEF StoreTypeOK
  <2>7. QED BY <1>4, <2>4, <2>6 DEF StoreTypeOK, QueueTypeOK, queueVars
<1>5. ASSUME TrackFails(t) PROVE TrackingTypeOK'
  <2>1. faults' \in 0 .. MaxFaults
    BY <1>5, FaultsType DEF TrackFails, QueueTypeOK
  <2>2. QED
    BY <1>5, <2>1 DEF TrackFails, TrackerTypeOK, StoreTypeOK, QueueTypeOK, storeVars
<1>6. QED BY <1>1, <1>2, <1>3, <1>4, <1>5 DEF TrackerStep

------------------------------------------------------------------------------
(* The whole service *)

\* The initial states have their types.
LEMMA InitTypes == Init => TypeOK
<1> SUFFICES ASSUME Init PROVE TypeOK
  OBVIOUS
<1> USE DEF Init
<1>1. NewMessage \in MessageRow
  BY DEF NewMessage, MessageRow, MessageStatus
<1>2. \A c \in Campaigns : NewCampaign(c, "now") \in CampaignRow
  BY NewCampaignType
<1>3. StoreTypeOK
  BY <1>1, <1>2, ExistingAssumption DEF StoreTypeOK
<1>4. queue \in Seq(Messages)
  <2>1. {m \in Messages : CampaignOf[m] \in Existing} \in SUBSET Messages
    OBVIOUS
  <2>2. QED BY <2>1, OrderingsType
<1>5. QueueTypeOK(Messages)
  BY <1>4, QueueAssumption DEF QueueTypeOK, Phase
<1>6. WorkerTypeOK
  BY DEF WorkerTypeOK, WorkerInit, NoTimers
<1>7. ServiceTypeOK
  BY DEF ServiceTypeOK, ServiceInit, NoRelease
<1>8. TrackerTypeOK
  BY DEF TrackerTypeOK, TrackerInit
<1>9. QED BY <1>3, <1>5, <1>6, <1>7, <1>8 DEF TypeOK

\* Shutdowns, crashes and starts keep the types.
LEMMA LifeKeepsTypes ==
  ASSUME TypeOK, NEW p \in Procs,
         Stop(p) \/ StopScheduler(p) \/ Exit(p) \/ Crash(p) \/ Start(p)
  PROVE  TypeOK'
<1> USE DEF Stop, StopScheduler, Exit, Crash, Start, TypeOK
<1>1. QueueTypeOK(Messages)'
  <2>1. faults' \in 0 .. MaxFaults
    BY FaultsType DEF QueueTypeOK
  <2>2. phase' \in [Procs -> Phase]
    BY DEF Enter, QueueTypeOK, Phase
  <2>3. QED BY <2>1, <2>2 DEF QueueTypeOK
<1>2. StoreTypeOK'
  BY DEF StoreTypeOK, storeVars
<1>3. WorkerTypeOK'
  <2>1. CASE UNCHANGED workerVars
    BY <2>1 DEF WorkerTypeOK, workerVars
  <2>2. CASE WorkerLost(p)
    BY <2>2 DEF WorkerLost, WorkerTypeOK, NoTimers
  <2>3. QED BY <2>1, <2>2
<1>4. ServiceTypeOK'
  <2>1. CASE UNCHANGED serviceVars
    BY <2>1 DEF ServiceTypeOK, serviceVars
  <2>2. CASE ServiceLost(p)
    BY <2>2 DEF ServiceLost, ServiceTypeOK, NoRelease
  <2>3. QED BY <2>1, <2>2
<1>5. TrackerTypeOK'
  BY DEF TrackerLost, TrackerTypeOK
<1>6. QED BY <1>1, <1>2, <1>3, <1>4, <1>5

\* What the Redis client may send again are jobs of some messages, each once.
LEMMA PushedJobs ==
  ASSUME TypeOK, PushAgain
  PROVE  /\ \E S \in SUBSET Messages : \E jobs \in Orderings(S) : queue' = queue \o jobs
         /\ Fault /\ UNCHANGED <<storeVars, phase, workerVars, serviceVars, tracker>>
<1>1. \A c \in Campaigns : MessagesOf(c) \in SUBSET Messages
  BY DEF MessagesOf
<1>2. CASE \E p \in Procs : \E jobs \in WorkerPushes(p) : Resend(jobs)
  <2>1. PICK m \in Messages : Resend(<<m>>)
    BY <1>2 DEF WorkerPushes
  <2>2. <<m>> \in Orderings({m})
    BY SingleOrdering
  <2>3. QED BY <2>1, <2>2 DEF Resend, Publish, PushAgain
<1>3. CASE \E p \in Procs : \E jobs \in SchedulerPushes(p) : Resend(jobs)
  <2>1. PICK c \in Campaigns : \E jobs \in Orderings(MessagesOf(c)) : Resend(jobs)
    BY <1>3 DEF SchedulerPushes, TypeOK, ServiceTypeOK
  <2>2. QED BY <1>1, <2>1 DEF Resend, Publish, PushAgain
<1>4. CASE \E k \in Clients : \E jobs \in ClientPushes(k) : Resend(jobs)
  <2>1. PICK k \in Clients : \E jobs \in ClientPushes(k) : Resend(jobs)
    BY <1>4
  <2>2. /\ request[k].pc = "publish"
        /\ \E jobs \in Orderings(MessagesOf(request[k].camp)) : Resend(jobs)
    BY <2>1 DEF ClientPushes, Doing
  <2>3. request[k].camp \in Campaigns
    BY <2>2, RequestSteps DEF TypeOK
  <2>4. QED BY <1>1, <2>2, <2>3 DEF Resend, Publish, PushAgain
<1>5. QED BY <1>2, <1>3, <1>4 DEF PushAgain

\* Every step keeps the types.
LEMMA NextKeepsTypes == TypeOK /\ [Next]_vars => TypeOK'
<1> SUFFICES ASSUME TypeOK, [Next]_vars PROVE TypeOK'
  OBVIOUS
<1> USE DEF TypeOK
<1>1. ASSUME NEW p \in Procs, Worker(p) PROVE TypeOK'
  BY <1>1, WorkerKeepsTypes
  DEF Worker, DispatchTypeOK, serviceVars, ServiceTypeOK, TrackerTypeOK
<1>2. ASSUME NEW p \in Procs, Scheduler(p) PROVE TypeOK'
  BY <1>2, SchedulerKeepsTypes
  DEF Scheduler, CampaignsTypeOK, workerVars, WorkerTypeOK, TrackerTypeOK
<1>3. ASSUME NEW k \in Clients, Client(k) PROVE TypeOK'
  BY <1>3, ClientKeepsTypes
  DEF Client, CampaignsTypeOK, workerVars, WorkerTypeOK, TrackerTypeOK
<1>4. ASSUME NEW t \in Trackers, Tracker(t) PROVE TypeOK'
  BY <1>4, TrackerKeepsTypes
  DEF Tracker, TrackingTypeOK, workerVars, serviceVars, WorkerTypeOK, ServiceTypeOK
<1>5. ASSUME NEW p \in Procs,
             Stop(p) \/ StopScheduler(p) \/ Exit(p) \/ Crash(p) \/ Start(p)
      PROVE  TypeOK'
  BY <1>5, LifeKeepsTypes
<1>6. CASE UNCHANGED vars
  BY <1>6
  DEF vars, dispatchVars, storeVars, queueVars, workerVars, serviceVars, StoreTypeOK,
      QueueTypeOK, WorkerTypeOK, ServiceTypeOK, TrackerTypeOK
<1>7. CASE PushAgain
  <2>1. QueueTypeOK(Messages)'
    <3>1. PICK S \in SUBSET Messages : \E jobs \in Orderings(S) : queue' = queue \o jobs
      BY <1>7, PushedJobs
    <3>2. queue' \in Seq(Messages)
      BY <3>1, OrderingsType, ConcatProperties DEF QueueTypeOK
    <3>3. faults' \in 0 .. MaxFaults
      BY <1>7, PushedJobs, FaultsType DEF QueueTypeOK
    <3>4. QED BY <1>7, <3>2, <3>3, PushedJobs DEF QueueTypeOK
  <2>2. UNCHANGED <<storeVars, workerVars, serviceVars, tracker>>
    BY <1>7 DEF PushAgain
  <2>3. QED
    BY <2>1, <2>2
    DEF storeVars, workerVars, serviceVars, StoreTypeOK, WorkerTypeOK, ServiceTypeOK,
        TrackerTypeOK
<1>8. QED BY <1>1, <1>2, <1>3, <1>4, <1>5, <1>6, <1>7 DEF Next

\* Every variable keeps its type, whatever the numbers of processes, clients, webhooks,
\* campaigns, messages, attempts and failures are.
THEOREM TypeCorrect == Spec => []TypeOK
<1>1. QED BY InitTypes, NextKeepsTypes, PTL DEF Spec
=============================================================================
