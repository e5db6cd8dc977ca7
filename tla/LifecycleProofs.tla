--------------------------- MODULE LifecycleProofs ---------------------------
(***************************************************************************)
(* With one process the service implements MessageLifecycle, for any       *)
(* number of messages, campaigns, clients, webhooks, attempts and          *)
(* failures.  The run "scaling" shows why the hypothesis is there: two     *)
(* processes can hold jobs of the same message.                            *)
(***************************************************************************)
EXTENDS TypeProofs

OneProcess == \A p, q \in Procs : p = q

\* handleJob of p has seen that its message did not go out and will not look again.
InFlight(p) ==
  \/ worker[p].pc \in {"getCampaign", "requeue", "markProcessing", "cadence", "send",
                       "markSent", "markRetry", "markFailed"}
  \/ worker[p].pc \in {"count", "apply"} /\ worker[p].next = "cadence"

\* A message in flight has not gone out: nobody else can have sent it since handleJob
\* looked.
FlightsUnsent == \A p \in Procs : InFlight(p) => messages[worker[p].msg].status \notin Sent

\* What is about to be recorded as sent was taken by the provider.
RecordsTaken == \A p \in Procs : worker[p].pc = "markSent" => accepted[worker[p].msg] > 0

\* A webhook finds only messages that went out.
IdentifiedSent ==
  \A m \in Messages : messages[m].provider_message_id => messages[m].status \in Sent

\* The inductive invariant.  NeverResent alone is not inductive: it says nothing of what
\* handleJob remembers between its look at the status and the send.
HandoverInv == FlightsUnsent /\ RecordsTaken /\ IdentifiedSent

\* The invariant holds initially: no worker has a job.
LEMMA InitHandover == Init => HandoverInv
<1> SUFFICES ASSUME Init PROVE HandoverInv
  OBVIOUS
<1>1. \A p \in Procs : worker[p] = Idle
  BY DEF Init, WorkerInit
<1>2. \A p \in Procs : worker[p].pc = "pop"
  BY <1>1 DEF Idle
<1>3. IdentifiedSent
  BY DEF Init, NewMessage, IdentifiedSent
<1>4. QED BY <1>2, <1>3 DEF HandoverInv, FlightsUnsent, RecordsTaken, InFlight

\* A step that leaves the messages and the provider alone is a stutter of the lifecycle.
LEMMA LifecycleStutter ==
  ASSUME UNCHANGED <<messages, accepted>>
  PROVE  UNCHANGED Lifecycle!lifecycleVars
BY DEF Lifecycle!lifecycleVars, StateOf

\* A step that changes none of the three variables of the invariant.
LEMMA HandoverFrame ==
  ASSUME HandoverInv, UNCHANGED <<worker, messages, accepted>>
  PROVE  HandoverInv'
BY DEF HandoverInv, FlightsUnsent, RecordsTaken, IdentifiedSent, InFlight

\* A step of the only worker that moves its handler and neither writes nor sends.
LEMMA HandlerMove ==
  ASSUME OneProcess, HandoverInv, NEW p \in Procs, UNCHANGED <<messages, accepted>>,
         worker'[p].pc # "markSent",
         InFlight(p)' => messages[worker'[p].msg].status \notin Sent
  PROVE  HandoverInv'
<1>1. \A q \in Procs : q = p
  BY DEF OneProcess
<1>2. IdentifiedSent'
  BY DEF HandoverInv, IdentifiedSent
<1>3. FlightsUnsent'
  BY <1>1 DEF FlightsUnsent
<1>4. RecordsTaken'
  BY <1>1 DEF RecordsTaken
<1>5. QED BY <1>2, <1>3, <1>4 DEF HandoverInv

\* The steps of handleJob that neither write to the message nor send it.
LEMMA ReadingSteps ==
  ASSUME OneProcess, TypeOK, HandoverInv, NEW p \in Procs,
         \/ Pop(p) \/ GetMessage(p) \/ GetCampaign(p) \/ ReadFails(p) \/ RequeuePaused(p)
         \/ CountForRecalculation(p) \/ ApplyRecalculation(p) \/ RecalculationFails(p)
         \/ WaitForCadence(p) \/ ScheduleRetry(p)
  PROVE  HandoverInv' /\ UNCHANGED Lifecycle!lifecycleVars
<1> USE DEF At, Goto, EndJob
<1>1. worker \in [Procs -> {Idle} \union Handling] /\ Idle.pc = "pop"
  BY DEF TypeOK, WorkerTypeOK, Idle
<1>2. worker[p].pc # "pop" => worker[p] \in Handling
  BY <1>1
<1>3. InFlight(p) => messages[worker[p].msg].status \notin Sent
  BY DEF HandoverInv, FlightsUnsent
<1>4. UNCHANGED <<messages, accepted>>
  BY DEF Pop, GetMessage, GetCampaign, ReadFails, RequeuePaused, CountForRecalculation,
         ApplyRecalculation, RecalculationFails, WaitForCadence, ScheduleRetry, storeVars
<1>5. /\ worker'[p].pc # "markSent"
      /\ InFlight(p)' => messages[worker'[p].msg].status \notin Sent
  <2>1. CASE Pop(p)
    BY <2>1, <1>1 DEF Pop, InFlight
  <2>2. CASE GetMessage(p)
    BY <2>2, <1>1, <1>2 DEF GetMessage, InFlight, Handling
  <2>3. CASE GetCampaign(p)
    BY <2>3, <1>1, <1>2, <1>3 DEF GetCampaign, InFlight, Handling
  <2>4. CASE ReadFails(p) \/ RequeuePaused(p) \/ ScheduleRetry(p)
    BY <2>4, <1>1 DEF ReadFails, RequeuePaused, ScheduleRetry, InFlight
  <2>5. CASE CountForRecalculation(p)
    BY <2>5, <1>1, <1>2, <1>3 DEF CountForRecalculation, InFlight, Handling
  <2>6. CASE ApplyRecalculation(p) \/ RecalculationFails(p)
    <3>1. CASE worker[p].next = "pop"
      BY <2>6, <3>1, <1>1
      DEF ApplyRecalculation, RecalculationFails, AfterRecalculation, InFlight
    <3>2. CASE worker[p].next # "pop"
      <4>1. /\ worker'[p].pc = worker[p].next
            /\ worker'[p].msg = worker[p].msg
            /\ worker'[p].next = "pop"
        <5> DEFINE Old == worker[p]
        <5>1. worker[p] \in Handling
          BY <2>6, <1>2 DEF ApplyRecalculation, RecalculationFails
        <5>2. worker' = [worker EXCEPT ![p] =
                           [Old EXCEPT !.pc = Old.next, !.counts = NoCounts, !.next = "pop"]]
          BY <2>6, <3>2 DEF ApplyRecalculation, RecalculationFails, AfterRecalculation
        <5>3. worker'[p] = [Old EXCEPT !.pc = Old.next, !.counts = NoCounts, !.next = "pop"]
          BY <1>1, <5>2
        <5> HIDE DEF Old
        <5>4. /\ worker'[p].pc = Old.next
              /\ worker'[p].msg = Old.msg
              /\ worker'[p].next = "pop"
          <6>1. Old \in Handling
            BY <5>1 DEF Old
          <6>2. QED BY <6>1, <5>3 DEF Handling
        <5>5. QED BY <5>4 DEF Old
      <4>2. worker[p].next \in {"cadence", "scheduleRetry"} /\ worker[p].pc \in {"count", "apply"}
        BY <2>6, <3>2, <1>2 DEF ApplyRecalculation, RecalculationFails, Handling
      <4>3. QED BY <4>1, <4>2, <1>3 DEF InFlight
    <3>3. QED BY <3>1, <3>2
  <2>7. CASE WaitForCadence(p)
    BY <2>7, <1>1, <1>2, <1>3 DEF WaitForCadence, InFlight, Handling
  <2>8. QED BY <2>1, <2>2, <2>3, <2>4, <2>5, <2>6, <2>7
<1>6. QED BY <1>4, <1>5, HandlerMove, LifecycleStutter

\* The update of one row by the only worker.
LEMMA RowWrite ==
  ASSUME OneProcess, TypeOK, HandoverInv, NEW p \in Procs, NEW m \in Messages, NEW row,
         Update(m, row), UNCHANGED accepted,
         row.provider_message_id => row.status \in Sent,
         worker'[p].pc # "markSent",
         InFlight(p)' => worker'[p].msg = m /\ row.status \notin Sent
  PROVE  HandoverInv'
<1>1. \A q \in Procs : q = p
  BY DEF OneProcess
<1>2. \A n \in Messages : messages'[n] = IF n = m THEN row ELSE messages[n]
  BY DEF Update, TypeOK, StoreTypeOK
<1>3. IdentifiedSent'
  BY <1>2 DEF HandoverInv, IdentifiedSent
<1>4. FlightsUnsent'
  BY <1>1, <1>2 DEF FlightsUnsent
<1>5. RecordsTaken'
  BY <1>1 DEF RecordsTaken
<1>6. QED BY <1>3, <1>4, <1>5 DEF HandoverInv

\* An open message that stays open.
LEMMA OpenStutter ==
  ASSUME TypeOK, NEW m \in Messages, NEW row, Update(m, row), UNCHANGED accepted,
         messages[m].status \notin Sent, row.status \notin Sent
  PROVE  UNCHANGED Lifecycle!lifecycleVars
<1>1. \A n \in Messages : messages'[n] = IF n = m THEN row ELSE messages[n]
  BY DEF Update, TypeOK, StoreTypeOK
<1>2. \A n \in Messages : StateOf(n)' = StateOf(n)
  BY <1>1 DEF StateOf
<1>3. [n \in Messages |-> StateOf(n)]' = [n \in Messages |-> StateOf(n)]
  BY <1>2
<1>4. QED BY <1>3 DEF Lifecycle!lifecycleVars

\* What the statements of the worker do to the row of an open message.
LEMMA OpenRowStatements ==
  ASSUME NEW row \in MessageRow, NEW identified \in BOOLEAN, ~row.provider_message_id
  PROVE  /\ \A new \in {MarkProcessing(row), MarkFailed(row), MarkPendingRetry(row)} :
              new.status \notin Sent /\ ~new.provider_message_id
         /\ MarkSent(row, identified).status = "sent"
<1> USE DEF MessageRow, MessageStatus, Sent
<1>1. MarkProcessing(row).status = "processing" /\ ~MarkProcessing(row).provider_message_id
  BY DEF MarkProcessing
<1>2. MarkFailed(row).status = "failed" /\ ~MarkFailed(row).provider_message_id
  BY DEF MarkFailed
<1>3. MarkPendingRetry(row).status = "pending" /\ ~MarkPendingRetry(row).provider_message_id
  BY DEF MarkPendingRetry
<1>4. MarkSent(row, identified).status = "sent"
  BY DEF MarkSent
<1>5. QED BY <1>1, <1>2, <1>3, <1>4

\* The steps of handleJob that write the row of the message.
LEMMA WritingSteps ==
  ASSUME OneProcess, TypeOK, HandoverInv, NEW p \in Procs,
         BeginAttempt(p) \/ RecordSent(p) \/ RecordRetry(p) \/ RecordFailure(p)
  PROVE  /\ HandoverInv'
         /\ [Lifecycle!LifecycleNext]_(Lifecycle!lifecycleVars)
<1>1. worker \in [Procs -> {Idle} \union Handling] /\ Idle.pc = "pop"
  BY DEF TypeOK, WorkerTypeOK, Idle
<1>2. worker[p] \in Handling /\ InFlight(p)
  BY <1>1 DEF BeginAttempt, RecordSent, RecordRetry, RecordFailure, At, InFlight
<1>m. PICK m \in Messages : m = worker[p].msg
  BY <1>2 DEF Handling
<1>3. messages[m] \in MessageRow
  BY DEF TypeOK, StoreTypeOK
<1>4. messages[m].status \notin Sent /\ ~messages[m].provider_message_id
  BY <1>m, <1>2 DEF HandoverInv, FlightsUnsent, IdentifiedSent
<1>5. UNCHANGED accepted
  BY DEF BeginAttempt, RecordSent, RecordRetry, RecordFailure
<1>6. \/ worker'[p] = Idle
      \/ /\ worker'[p].pc = "count"
         /\ worker'[p].msg = m
         /\ worker'[p].next = "cadence" => BeginAttempt(p)
  <2>1. CASE EndJob(p)
    BY <2>1, <1>1 DEF EndJob
  <2>2. ASSUME NEW next \in {"pop", "cadence", "scheduleRetry"}, Recalculate(p, next)
        PROVE  worker'[p].pc = "count" /\ worker'[p].msg = m /\ worker'[p].next = next
    BY <2>2, <1>m, <1>1, <1>2 DEF Recalculate, Handling
  <2>3. QED
    BY <2>1, <2>2 DEF BeginAttempt, RecordSent, RecordRetry, RecordFailure
<1>7. /\ worker'[p].pc # "markSent"
      /\ InFlight(p)' => worker'[p].msg = m /\ BeginAttempt(p)
  BY <1>1, <1>6 DEF InFlight
<1>8. CASE UNCHANGED messages
  <2>1. InFlight(p)' => messages[worker'[p].msg].status \notin Sent
    BY <1>4, <1>7
  <2>2. HandoverInv'
    BY <2>1, <1>5, <1>7, <1>8, HandlerMove
  <2>3. QED BY <2>2, <1>5, <1>8, LifecycleStutter
<1>9. ASSUME NEW row \in {MarkProcessing(messages[m]), MarkPendingRetry(messages[m]),
                          MarkFailed(messages[m])},
             Update(m, row)
      PROVE  HandoverInv' /\ UNCHANGED Lifecycle!lifecycleVars
  <2>1. row.status \notin Sent /\ ~row.provider_message_id
    BY <1>3, <1>4, OpenRowStatements
  <2>2. HandoverInv'
    BY <2>1, <1>3, <1>5, <1>7, <1>9, RowWrite
  <2>3. QED BY <2>1, <2>2, <1>3, <1>4, <1>5, <1>9, OpenStutter
<1>10. ASSUME NEW identified \in BOOLEAN, RecordSent(p), Update(m, MarkSent(messages[m], identified))
       PROVE  HandoverInv' /\ Lifecycle!Record(m)
  <2>1. MarkSent(messages[m], identified).status = "sent"
    BY <1>3, <1>4, OpenRowStatements
  <2>2. ~BeginAttempt(p)
    BY <1>10 DEF RecordSent, BeginAttempt, At
  <2>3. HandoverInv'
    BY <2>1, <2>2, <1>3, <1>5, <1>7, <1>10, RowWrite DEF Sent
  <2>4. accepted[m] > 0
    BY <1>m, <1>10 DEF RecordSent, At, HandoverInv, RecordsTaken
  <2>5. \A n \in Messages :
          messages'[n] = IF n = m THEN MarkSent(messages[m], identified) ELSE messages[n]
    BY <1>3, <1>10 DEF Update, TypeOK, StoreTypeOK
  <2>6. StateOf(m) = "open" /\ StateOf(m)' = "sent"
    <3>1. messages'[m].status = "sent"
      BY <2>1, <2>5, <1>3
    <3>2. QED BY <3>1, <1>4 DEF StateOf, Sent
  <2>7. [n \in Messages |-> StateOf(n)]' = [[n \in Messages |-> StateOf(n)] EXCEPT ![m] = "sent"]
    <3>1. \A n \in Messages : StateOf(n)' = IF n = m THEN "sent" ELSE StateOf(n)
      BY <2>5, <2>6 DEF StateOf
    <3>2. QED BY <3>1
  <2>8. Lifecycle!Record(m)
    BY <2>4, <2>6, <2>7, <1>3, <1>5 DEF Lifecycle!Record, Lifecycle!Move
  <2>9. QED BY <2>3, <2>8
<1>11. QED
  BY <1>m, <1>8, <1>9, <1>10
  DEF BeginAttempt, RecordSent, RecordRetry, RecordFailure, Lifecycle!LifecycleNext

\* A send (SendText) hands over a message that is open, and counts it.
LEMMA SendingStep ==
  ASSUME OneProcess, TypeOK, HandoverInv, NEW p \in Procs, SendText(p)
  PROVE  /\ HandoverInv'
         /\ [Lifecycle!LifecycleNext]_(Lifecycle!lifecycleVars)
<1>1. worker \in [Procs -> {Idle} \union Handling] /\ Idle.pc = "pop"
  BY DEF TypeOK, WorkerTypeOK, Idle
<1>2. worker[p] \in Handling /\ InFlight(p)
  BY <1>1 DEF SendText, At, InFlight
<1>3. PICK m \in Messages : m = worker[p].msg
  BY <1>2 DEF Handling
<1>4. messages[m].status \notin Sent
  BY <1>2, <1>3 DEF HandoverInv, FlightsUnsent
<1>5. accepted \in [Messages -> Nat]
  BY DEF TypeOK, WorkerTypeOK
<1>6. PICK taken \in BOOLEAN, pc \in {"markSent", "markRetry", "markFailed"} :
        /\ pc = "markSent" => taken
        /\ accepted' = IF taken THEN [accepted EXCEPT ![m] = @ + 1] ELSE accepted
        /\ Goto(p, pc)
  BY <1>3 DEF SendText
<1>7. worker'[p].pc = pc /\ worker'[p].msg = m
  BY <1>1, <1>2, <1>3, <1>6 DEF Goto, Handling
<1>8. UNCHANGED messages
  BY DEF SendText
<1>9. \A q \in Procs : q = p
  BY DEF OneProcess
<1>10. FlightsUnsent'
  BY <1>4, <1>7, <1>8, <1>9 DEF FlightsUnsent
<1>11. RecordsTaken'
  <2>1. taken => accepted'[m] > 0
    BY <1>5, <1>6
  <2>2. QED BY <2>1, <1>6, <1>7, <1>9 DEF RecordsTaken
<1>12. IdentifiedSent'
  BY <1>8 DEF HandoverInv, IdentifiedSent
<1>13. CASE taken
  <2>1. StateOf(m) = "open"
    BY <1>4 DEF StateOf
  <2>2. [n \in Messages |-> StateOf(n)]' = [n \in Messages |-> StateOf(n)]
    BY <1>8 DEF StateOf
  <2>3. Lifecycle!HandOver(m)
    BY <1>6, <1>13, <2>1, <2>2 DEF Lifecycle!HandOver
  <2>4. QED BY <2>3, <1>10, <1>11, <1>12 DEF HandoverInv, Lifecycle!LifecycleNext
<1>14. CASE ~taken
  BY <1>6, <1>8, <1>10, <1>11, <1>12, <1>14, LifecycleStutter DEF HandoverInv
<1>15. QED BY <1>13, <1>14

\* The sweeper touches next_retry_at only.
LEMMA SweepingStep ==
  ASSUME TypeOK, HandoverInv, NEW p \in Procs, ClaimDueRetryJobs(p)
  PROVE  HandoverInv' /\ UNCHANGED Lifecycle!lifecycleVars
<1>1. UNCHANGED <<worker, accepted>>
  BY DEF ClaimDueRetryJobs
<1>2. \A n \in Messages : /\ messages'[n].status = messages[n].status
                          /\ messages'[n].provider_message_id = messages[n].provider_message_id
  BY DEF ClaimDueRetryJobs, TypeOK, StoreTypeOK, MessageRow
<1>3. [n \in Messages |-> StateOf(n)]' = [n \in Messages |-> StateOf(n)]
  BY <1>2 DEF StateOf
<1>4. \A q \in Procs : InFlight(q) => worker[q].msg \in Messages
  BY DEF InFlight, TypeOK, WorkerTypeOK, Idle, Handling
<1>5. FlightsUnsent'
  BY <1>1, <1>2, <1>4 DEF HandoverInv, FlightsUnsent, InFlight
<1>6. RecordsTaken' /\ IdentifiedSent'
  BY <1>1, <1>2 DEF HandoverInv, RecordsTaken, IdentifiedSent
<1>7. QED BY <1>1, <1>3, <1>5, <1>6 DEF HandoverInv, Lifecycle!lifecycleVars

\* Every step of the worker keeps the invariant and is a step of MessageLifecycle.
LEMMA WorkerHandover ==
  ASSUME OneProcess, TypeOK, HandoverInv, NEW p \in Procs, WorkerStep(p)
  PROVE  /\ HandoverInv'
         /\ [Lifecycle!LifecycleNext]_(Lifecycle!lifecycleVars)
<1>1. CASE UNCHANGED <<worker, messages, accepted>>
  BY <1>1, HandoverFrame, LifecycleStutter
<1>2. CASE PopLost(p) \/ PopTimesOut(p)
  BY <1>1, <1>2 DEF PopLost, PopTimesOut, dispatchVars, storeVars, workerVars
<1>3. ASSUME NEW m \in Messages, TimerFires(p, m) \/ TimerCancelled(p, m) \/ QueueClaimed(p, m)
      PROVE  UNCHANGED <<worker, messages, accepted>>
  BY <1>3 DEF TimerFires, TimerCancelled, QueueClaimed, storeVars
<1>4. QED
  BY <1>1, <1>2, <1>3, ReadingSteps, WritingSteps, SendingStep, SweepingStep
  DEF WorkerStep, HandleJob

\* An event moves a message that went out on, and leaves the others alone.
LEMMA MarkingStep ==
  ASSUME TypeOK, HandoverInv, NEW t \in Trackers, NEW m \in Messages, MarkMessage(t, m),
         UNCHANGED workerVars
  PROVE  /\ HandoverInv'
         /\ [Lifecycle!LifecycleNext]_(Lifecycle!lifecycleVars)
<1>1. UNCHANGED <<worker, accepted>>
  BY DEF workerVars
<1>2. CASE UNCHANGED messages
  BY <1>1, <1>2, HandoverFrame, LifecycleStutter
<1>3. CASE messages[m].provider_message_id
  <2>1. PICK row : /\ row \in {MarkDelivered(messages[m]), MarkRead(messages[m])}
                   /\ messages' = [messages EXCEPT ![m] = row]
    BY <1>3 DEF MarkMessage, Marked
  <2>2. messages[m] \in MessageRow /\ messages[m].status \in Sent
    BY <1>3 DEF TypeOK, StoreTypeOK, HandoverInv, IdentifiedSent
  <2>3. /\ row = MarkDelivered(messages[m]) =>
             row.status = IF messages[m].status = "read" THEN "read" ELSE "delivered"
        /\ row = MarkRead(messages[m]) => row.status = "read"
    BY <2>2 DEF MarkDelivered, MarkRead, MessageRow
  <2>4. \A n \in Messages : messages'[n] = IF n = m THEN row ELSE messages[n]
    BY <2>1 DEF TypeOK, StoreTypeOK
  <2>5. row.status \in {"delivered", "read"}
    BY <2>1, <2>3
  <2>6. HandoverInv'
    <3>1. \A q \in Procs : InFlight(q) => worker[q].msg \in Messages \ {m}
      BY <2>2 DEF HandoverInv, FlightsUnsent, InFlight, TypeOK, WorkerTypeOK, Idle, Handling
    <3>2. FlightsUnsent'
      BY <3>1, <2>4, <1>1 DEF HandoverInv, FlightsUnsent, InFlight
    <3>3. RecordsTaken' /\ IdentifiedSent'
      BY <2>4, <2>5, <1>1 DEF HandoverInv, RecordsTaken, IdentifiedSent, Sent
    <3>4. QED BY <3>2, <3>3 DEF HandoverInv
  <2>7. /\ StateOf(m) = messages[m].status /\ StateOf(m)' = row.status
        /\ [n \in Messages |-> StateOf(n)]'
             = [[n \in Messages |-> StateOf(n)] EXCEPT ![m] = row.status]
    <3>1. StateOf(m) = messages[m].status /\ StateOf(m)' = row.status
      BY <2>2, <2>4, <2>5 DEF StateOf, Sent
    <3>2. \A n \in Messages : StateOf(n)' = IF n = m THEN row.status ELSE StateOf(n)
      BY <3>1, <2>4 DEF StateOf
    <3>3. QED BY <3>1, <3>2
  <2>8. CASE row.status = "read"
    <3>1. Lifecycle!Read(m)
      BY <2>2, <2>7, <2>8, <1>1 DEF Lifecycle!Read, Lifecycle!Move, Sent
    <3>2. QED BY <3>1, <2>6 DEF Lifecycle!LifecycleNext
  <2>9. CASE row.status = "delivered"
    <3>1. messages[m].status \in {"sent", "delivered"}
      BY <2>1, <2>2, <2>3, <2>9 DEF Sent
    <3>2. Lifecycle!Deliver(m)
      BY <3>1, <2>7, <2>9, <1>1 DEF Lifecycle!Deliver, Lifecycle!Move
    <3>3. QED BY <3>2, <2>6 DEF Lifecycle!LifecycleNext
  <2>10. QED BY <2>5, <2>8, <2>9
<1>4. QED BY <1>2, <1>3 DEF MarkMessage

\* Every step of the service keeps the invariant and is a step of MessageLifecycle.
LEMMA NextHandover ==
  ASSUME OneProcess, TypeOK, HandoverInv, [Next]_vars
  PROVE  /\ HandoverInv'
         /\ [Lifecycle!LifecycleNext]_(Lifecycle!lifecycleVars)
<1>1. CASE UNCHANGED <<worker, messages, accepted>>
  BY <1>1, HandoverFrame, LifecycleStutter
<1>2. ASSUME NEW p \in Procs, Worker(p)
      PROVE  HandoverInv' /\ [Lifecycle!LifecycleNext]_(Lifecycle!lifecycleVars)
  BY <1>2, WorkerHandover DEF Worker
<1>3. ASSUME NEW p \in Procs, Scheduler(p)
      PROVE  UNCHANGED <<worker, messages, accepted>>
  BY <1>3
  DEF Scheduler, SchedulerStep, ClaimDueScheduled, PublishReleased, RevertRelease, workerVars,
      storeVars
<1>4. ASSUME NEW k \in Clients, Client(k)
      PROVE  UNCHANGED <<worker, messages, accepted>>
  BY <1>4
  DEF Client, ClientStep, CreateLooksUp, RescheduleReads, CancelReads, PauseReads, ResumeReads,
      Begin, InsertCampaign, PublishCreated, UpdateSchedule, CancelCampaign, PauseCampaign,
      ResumeCampaign, CountResumed, ApplyResumed, workerVars, storeVars
<1>5. ASSUME NEW t \in Trackers, Tracker(t)
      PROVE  HandoverInv' /\ [Lifecycle!LifecycleNext]_(Lifecycle!lifecycleVars)
  <2>1. CASE \E m \in Messages : MarkMessage(t, m)
    BY <1>5, <2>1, MarkingStep DEF Tracker
  <2>2. CASE \/ ReceiveEvent(t) \/ ApplyTouched(t) \/ TrackFails(t)
             \/ \E c \in Campaigns : CountTouched(t, c)
    BY <1>1, <1>5, <2>2
    DEF Tracker, ReceiveEvent, ApplyTouched, TrackFails, CountTouched, workerVars, storeVars
  <2>3. QED BY <1>5, <2>1, <2>2 DEF Tracker, TrackerStep
<1>6. ASSUME PushAgain \/ \E p \in Procs : Stop(p) \/ StopScheduler(p) \/ Exit(p) \/ Start(p)
      PROVE  UNCHANGED <<worker, messages, accepted>>
  BY <1>6 DEF PushAgain, Stop, StopScheduler, Exit, Start, storeVars, workerVars
<1>7. ASSUME NEW p \in Procs, Crash(p)
      PROVE  HandoverInv' /\ UNCHANGED Lifecycle!lifecycleVars
  <2>1. UNCHANGED <<messages, accepted>> /\ worker'[p] = Idle
    BY <1>7 DEF Crash, storeVars, WorkerLost, TypeOK, WorkerTypeOK
  <2>2. worker'[p].pc = "pop"
    BY <2>1 DEF Idle
  <2>3. HandoverInv'
    BY <2>1, <2>2, HandlerMove DEF InFlight
  <2>4. QED BY <2>1, <2>3, LifecycleStutter
<1>8. CASE UNCHANGED vars
  BY <1>1, <1>8 DEF vars, dispatchVars, storeVars, workerVars
<1>9. QED BY <1>1, <1>2, <1>3, <1>4, <1>5, <1>6, <1>7, <1>8 DEF Next

\* The initial states are those of MessageLifecycle.
LEMMA LifecycleStart == Init => Lifecycle!LifecycleInit
<1> SUFFICES ASSUME Init PROVE Lifecycle!LifecycleInit
  OBVIOUS
<1>1. \A m \in Messages : StateOf(m) = "open"
  BY DEF Init, NewMessage, StateOf, Sent
<1>2. QED BY <1>1 DEF Lifecycle!LifecycleInit, Init, WorkerInit

------------------------------------------------------------------------------
\* Of the steps of the lifecycle only the hand-over of an open message asks the provider.
LEMMA OnlyOpenHandedOver ==
  ASSUME HandoverInv, [Lifecycle!LifecycleNext]_(Lifecycle!lifecycleVars),
         NEW m \in Messages, accepted'[m] # accepted[m]
  PROVE  ~WentOut(messages[m])
<1>1. accepted' # accepted
  OBVIOUS
<1>2. PICK n \in Messages : Lifecycle!HandOver(n)
  BY <1>1
  DEF Lifecycle!LifecycleNext, Lifecycle!lifecycleVars, Lifecycle!Record, Lifecycle!Deliver,
      Lifecycle!Read, Lifecycle!Move
<1>3. StateOf(n) = "open" /\ accepted' = [accepted EXCEPT ![n] = @ + 1]
  BY <1>2 DEF Lifecycle!HandOver
<1>4. m = n
  BY <1>3
<1>5. messages[m].status \notin Sent
  BY <1>3, <1>4 DEF StateOf, Sent
<1>6. QED BY <1>5 DEF WentOut, HandoverInv, IdentifiedSent

\* The types and the invariant hold throughout.
LEMMA HandoverAlways == OneProcess => (Spec => [](TypeOK /\ HandoverInv))
<1> SUFFICES ASSUME OneProcess PROVE Spec => [](TypeOK /\ HandoverInv)
  OBVIOUS
<1>1. TypeOK /\ HandoverInv /\ [Next]_vars => HandoverInv'
  BY NextHandover
<1>2. QED BY <1>1, InitHandover, TypeCorrect, PTL DEF Spec

\* With one process a message whose row says it went out is never handed to the provider
\* again, whatever timers, sweeps and restarts left behind in the queue.
THEOREM NeverResentTheorem == OneProcess => (Spec => NeverResent)
<1> SUFFICES ASSUME OneProcess PROVE Spec => NeverResent
  OBVIOUS
<1>1. TypeOK /\ HandoverInv /\ [Next]_vars =>
        [\A m \in Messages : accepted'[m] # accepted[m] => ~WentOut(messages[m])]_vars
  BY NextHandover, OnlyOpenHandedOver
<1>2. QED BY <1>1, HandoverAlways, PTL DEF Spec, NeverResent

\* With one process every behaviour of the service is a behaviour of MessageLifecycle.
THEOREM Refinement == OneProcess => (Spec => ImplementsLifecycle)
<1> SUFFICES ASSUME OneProcess PROVE Spec => ImplementsLifecycle
  OBVIOUS
<1>1. TypeOK /\ HandoverInv /\ [Next]_vars
        => [Lifecycle!LifecycleNext]_(Lifecycle!lifecycleVars)
  BY NextHandover
<1>2. QED
  BY <1>1, HandoverAlways, LifecycleStart, PTL
  DEF Spec, ImplementsLifecycle, Lifecycle!LifecycleSpec
=============================================================================
