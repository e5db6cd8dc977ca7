---------------------------- MODULE AttemptProofs ----------------------------
(***************************************************************************)
(* How often a message can go out: no job precedes the commit of its       *)
(* campaign (JobsAreStored) and no message is handed over more often than  *)
(* its row counts (SendsCounted), for any number of processes; and with    *)
(* one process the attempts are paid for by the jobs published and the     *)
(* two jobs each retried attempt leaves (AttemptsWithinJobs).              *)
(***************************************************************************)
EXTENDS FaultFreeProofs, FunctionTheorems

------------------------------------------------------------------------------
(* The jobs of a message in the queue *)

Places(q, m) == {i \in DOMAIN q : q[i] = m}
Copies(q, m) == Cardinality(Places(q, m))

\* There are finitely many of them.
LEMMA CopiesType ==
  ASSUME NEW q \in Seq(Messages), NEW m
  PROVE  /\ IsFiniteSet(Places(q, m)) /\ Copies(q, m) \in Nat
         /\ Copies(q, m) = 0 <=> \A i \in DOMAIN q : q[i] # m
<1>1. Len(q) \in Nat /\ DOMAIN q = 1 .. Len(q)
  BY LenProperties
<1>2. IsFiniteSet(1 .. Len(q)) /\ Places(q, m) \subseteq 1 .. Len(q)
  BY <1>1, FS_Interval DEF Places
<1>3. IsFiniteSet(Places(q, m)) /\ Copies(q, m) \in Nat
  BY <1>2, FS_Subset, FS_CardinalityType DEF Copies
<1>4. Copies(q, m) = 0 <=> Places(q, m) = {}
  BY <1>3, FS_EmptySet DEF Copies
<1>5. QED BY <1>3, <1>4 DEF Places

\* RPUSH of one job adds one copy of it.
LEMMA CopiesAppend ==
  ASSUME NEW q \in Seq(Messages), NEW n \in Messages, NEW m
  PROVE  Copies(Append(q, n), m) = Copies(q, m) + (IF n = m THEN 1 ELSE 0)
<1> DEFINE l == Len(q)
           r == Append(q, n)
<1>1. l \in Nat /\ DOMAIN q = 1 .. l
  BY LenProperties
<1>2. r \in Seq(Messages) /\ Len(r) = l + 1
      /\ \A i \in 1 .. l + 1 : r[i] = IF i = l + 1 THEN n ELSE q[i]
  BY <1>1
<1>3. DOMAIN r = 1 .. l + 1
  BY <1>2, LenProperties
<1> HIDE DEF l, r
<1>4. Places(r, m) = IF n = m THEN Places(q, m) \union {l + 1} ELSE Places(q, m)
  BY <1>1, <1>2, <1>3 DEF Places
<1>5. l + 1 \notin Places(q, m)
  BY <1>1 DEF Places
<1>6. IsFiniteSet(Places(q, m)) /\ Copies(q, m) \in Nat
  BY CopiesType
<1>7. Cardinality(Places(q, m) \union {l + 1}) = Copies(q, m) + 1
  BY <1>5, <1>6, FS_AddElement DEF Copies
<1>8. QED BY <1>4, <1>6, <1>7 DEF Copies, r

\* BLPOP takes one copy of the head.
LEMMA CopiesTail ==
  ASSUME NEW q \in Seq(Messages), q # << >>, NEW m
  PROVE  Copies(q, m) = Copies(Tail(q), m) + (IF Head(q) = m THEN 1 ELSE 0)
<1> DEFINE l == Len(q)
           t == Tail(q)
           Later == Places(q, m) \ {1}
           Shift == [i \in Places(t, m) |-> i + 1]
<1>1. l \in Nat \ {0} /\ DOMAIN q = 1 .. l /\ Head(q) = q[1]
  BY LenProperties, EmptySeq
<1>2. t \in Seq(Messages) /\ Len(t) = l - 1 /\ \A i \in 1 .. l - 1 : t[i] = q[i + 1]
  BY HeadTailProperties
<1>3. DOMAIN t = 1 .. l - 1
  BY <1>2, LenProperties
<1> HIDE DEF l, t
<1>4. Shift \in [Places(t, m) -> Later]
  BY <1>1, <1>2, <1>3 DEF Places
<1>5. \A i, j \in Places(t, m) : Shift[i] = Shift[j] => i = j
  BY <1>1, <1>3 DEF Places
<1>6. \A j \in Later : \E i \in Places(t, m) : Shift[i] = j
  <2> SUFFICES ASSUME NEW j \in Later PROVE \E i \in Places(t, m) : Shift[i] = j
    OBVIOUS
  <2>1. j - 1 \in Places(t, m) /\ (j - 1) + 1 = j
    BY <1>1, <1>2, <1>3 DEF Places
  <2>2. QED BY <2>1
<1>7. ExistsBijection(Places(t, m), Later)
  BY <1>4, <1>5, <1>6, Fun_IsBij DEF ExistsBijection
<1>8. Cardinality(Later) = Copies(t, m) /\ Copies(t, m) \in Nat
  BY <1>2, <1>7, CopiesType, FS_Bijection DEF Copies
<1>9. Cardinality(Later) = IF 1 \in Places(q, m) THEN Copies(q, m) - 1 ELSE Copies(q, m)
  BY CopiesType, FS_RemoveElement DEF Copies
<1>10. 1 \in Places(q, m) <=> Head(q) = m
  BY <1>1 DEF Places
<1>11. QED BY <1>8, <1>9, <1>10, CopiesType DEF t

\* The published jobs of a set of messages hold one copy of each.
LEMMA CopiesPublished ==
  ASSUME NEW q \in Seq(Messages), NEW S \in SUBSET Messages, NEW jobs \in Orderings(S), NEW m
  PROVE  Copies(q \o jobs, m) = Copies(q, m) + (IF m \in S THEN 1 ELSE 0)
<1> DEFINE l == Len(q)
           n == Cardinality(S)
           r == q \o jobs
<1>1. l \in Nat /\ DOMAIN q = 1 .. l
  BY LenProperties
<1>2. IsFiniteSet(S) /\ n \in Nat
  BY StoreAssumption, FS_Subset, FS_CardinalityType
<1>3. jobs \in [1 .. n -> S] /\ \A e \in S : \E i \in 1 .. n : jobs[i] = e
  BY DEF Orderings
<1>4. jobs \in Seq(Messages) /\ Len(jobs) = n
  BY <1>2, <1>3, OrderingsType, LenProperties
<1>5. /\ r \in Seq(Messages) /\ Len(r) = l + n
      /\ \A i \in 1 .. l + n : r[i] = IF i <= l THEN q[i] ELSE jobs[i - l]
  BY <1>4, ConcatProperties
<1>6. DOMAIN r = 1 .. l + n
  BY <1>5, LenProperties
<1>7. \A i, j \in 1 .. n : jobs[i] = jobs[j] => i = j
  <2>1. jobs \in Surjection(1 .. n, S)
    BY <1>3, Fun_IsSurj
  <2>2. IsFiniteSet(1 .. n) /\ Cardinality(1 .. n) = Cardinality(S)
    BY <1>2, FS_Interval
  <2>3. jobs \in Injection(1 .. n, S)
    BY <2>1, <2>2, FS_SurjSameCardinalityImpliesInj
  <2>4. QED BY <2>3, Fun_InjectionProperties
<1> HIDE DEF l, n, r
<1>8. CASE m \in S
  <2>1. PICK i \in 1 .. n : jobs[i] = m
    BY <1>3, <1>8
  <2>2. Places(r, m) = Places(q, m) \union {l + i}
    <3>1. ASSUME NEW j \in 1 .. l + n
          PROVE  r[j] = m <=> j \in Places(q, m) \/ j = l + i
      <4>1. CASE j <= l
        BY <1>1, <1>2, <1>5, <2>1, <4>1 DEF Places
      <4>2. CASE j > l
        <5>1. j - l \in 1 .. n /\ r[j] = jobs[j - l]
          BY <1>1, <1>2, <1>5, <4>2
        <5>2. jobs[j - l] = m <=> j - l = i
          BY <1>7, <2>1, <5>1
        <5>3. QED BY <1>1, <1>2, <5>1, <5>2, <4>2 DEF Places
      <4>3. QED BY <1>1, <4>1, <4>2
    <3>2. l + i \in 1 .. l + n /\ Places(q, m) \subseteq 1 .. l + n
      BY <1>1, <1>2 DEF Places
    <3>3. QED BY <1>6, <3>1, <3>2 DEF Places
  <2>3. l + i \notin Places(q, m)
    BY <1>1, <1>2 DEF Places
  <2>4. IsFiniteSet(Places(q, m)) /\ Copies(q, m) \in Nat
    BY CopiesType
  <2>5. Cardinality(Places(q, m) \union {l + i}) = Copies(q, m) + 1
    BY <2>3, <2>4, FS_AddElement DEF Copies
  <2>6. QED BY <1>8, <2>2, <2>4, <2>5 DEF Copies, r
<1>9. CASE m \notin S
  <2>1. Places(r, m) = Places(q, m)
    BY <1>1, <1>2, <1>3, <1>5, <1>6, <1>9 DEF Places
  <2>2. QED BY <1>9, <2>1, CopiesType DEF Copies, r
<1>10. QED BY <1>8, <1>9

------------------------------------------------------------------------------
(* JobsAreStored *)

\* The ways a job goes on, field by field.
LEMMA HandlerFields ==
  ASSUME TypeOK, NEW p \in Procs, worker[p].pc # "pop"
  PROVE  /\ worker[p] # Idle /\ worker[p].pc \in HandlerPC
         /\ worker[p].msg \in Messages /\ worker[p].attempt \in Nat
         /\ worker[p].next \in {"pop", "cadence", "scheduleRetry"}
         /\ \A pc : Goto(p, pc) =>
              /\ worker'[p].pc = pc /\ worker'[p].next = worker[p].next
              /\ worker'[p].msg = worker[p].msg /\ worker'[p].attempt = worker[p].attempt
         /\ \A next : Recalculate(p, next) =>
              /\ worker'[p].pc = "count" /\ worker'[p].next = next
              /\ worker'[p].msg = worker[p].msg /\ worker'[p].attempt = worker[p].attempt
         /\ EndJob(p) => worker'[p] = Idle
         /\ AfterRecalculation(p) =>
              \/ worker'[p] = Idle
              \/ /\ worker'[p].pc = worker[p].next /\ worker'[p].next = "pop"
                 /\ worker'[p].msg = worker[p].msg /\ worker'[p].attempt = worker[p].attempt
<1> DEFINE Old == worker[p]
<1>1. worker \in [Procs -> {Idle} \union Handling] /\ Idle.pc = "pop"
  BY DEF TypeOK, WorkerTypeOK, Idle
<1>2. Old \in Handling /\ Old # Idle
  BY <1>1
<1>3. /\ Old.pc \in HandlerPC /\ Old.msg \in Messages /\ Old.attempt \in Nat
      /\ Old.next \in {"pop", "cadence", "scheduleRetry"}
  <2> HIDE DEF Old
  <2>1. QED BY <1>2 DEF Handling
<1>4. ASSUME NEW pc, Goto(p, pc)
      PROVE  /\ worker'[p].pc = pc /\ worker'[p].next = worker[p].next
             /\ worker'[p].msg = worker[p].msg /\ worker'[p].attempt = worker[p].attempt
  BY <1>1, <1>2, <1>4 DEF Goto, Handling
<1>5. ASSUME NEW next, Recalculate(p, next)
      PROVE  /\ worker'[p].pc = "count" /\ worker'[p].next = next
             /\ worker'[p].msg = worker[p].msg /\ worker'[p].attempt = worker[p].attempt
  BY <1>1, <1>2, <1>5 DEF Recalculate, Handling
<1>6. EndJob(p) => worker'[p] = Idle
  BY <1>1 DEF EndJob
<1>7. ASSUME AfterRecalculation(p), worker'[p] # Idle
      PROVE  /\ worker'[p].pc = Old.next /\ worker'[p].next = "pop"
             /\ worker'[p].msg = Old.msg /\ worker'[p].attempt = Old.attempt
  <2>1. worker'[p] = [Old EXCEPT !.pc = Old.next, !.counts = NoCounts, !.next = "pop"]
    BY <1>1, <1>7 DEF AfterRecalculation
  <2> HIDE DEF Old
  <2>2. QED BY <1>2, <2>1 DEF Handling
<1>8. QED BY <1>2, <1>3, <1>4, <1>5, <1>6, <1>7

\* handleJob keeps to its message until it is done with it.
LEMMA HandlerKeepsMessage ==
  ASSUME TypeOK, NEW p \in Procs, WorkerStep(p), worker'[p] # Idle
  PROVE  \/ worker[p] # Idle /\ worker'[p].msg = worker[p].msg
         \/ queue # << >> /\ worker'[p].msg = Head(queue)
<1>1. worker \in [Procs -> {Idle} \union Handling] /\ Idle.pc = "pop"
  BY DEF TypeOK, WorkerTypeOK, Idle
<1>2. CASE worker'[p] = worker[p]
  BY <1>2
<1>3. CASE Pop(p)
  BY <1>1, <1>3 DEF Pop
<1>4. CASE GetMessage(p) \/ CountForRecalculation(p)
  <2>1. worker[p] \in Handling /\ worker[p] # Idle
    BY <1>1, <1>4 DEF GetMessage, CountForRecalculation, At
  <2>2. worker'[p].msg = worker[p].msg
    BY <1>1, <1>4, <2>1 DEF GetMessage, CountForRecalculation, EndJob, Handling
  <2>3. QED BY <2>1, <2>2
<1>5. CASE \/ GetCampaign(p) \/ ReadFails(p) \/ RequeuePaused(p) \/ BeginAttempt(p)
           \/ ApplyRecalculation(p) \/ RecalculationFails(p) \/ WaitForCadence(p)
           \/ SendText(p) \/ RecordSent(p) \/ RecordRetry(p) \/ RecordFailure(p)
           \/ ScheduleRetry(p)
  BY <1>5, HandlerFields
  DEF GetCampaign, ReadFails, RequeuePaused, BeginAttempt, ApplyRecalculation,
      RecalculationFails, WaitForCadence, SendText, RecordSent, RecordRetry, RecordFailure,
      ScheduleRetry, At
<1>6. CASE \/ PopLost(p) \/ PopTimesOut(p) \/ ClaimDueRetryJobs(p)
           \/ \E m \in Messages : TimerFires(p, m) \/ TimerCancelled(p, m) \/ QueueClaimed(p, m)
  BY <1>2, <1>6 DEF PopLost, PopTimesOut, ClaimDueRetryJobs, TimerFires, TimerCancelled,
                    QueueClaimed, dispatchVars, workerVars
<1>7. QED BY <1>3, <1>4, <1>5, <1>6 DEF WorkerStep, HandleJob

\* A message without a job and without a retry due in the table is left alone by the
\* workers, and gets no job from them.
LEMMA WorkerBringsNothing ==
  ASSUME TypeOK, NEW p \in Procs, WorkerStep(p), NEW m \in Messages,
         ~HasJob(m), ~messages[m].next_retry_at
  PROVE  messages'[m] = messages[m] /\ accepted'[m] = accepted[m] /\ ~HasJob(m)'
<1>1. /\ worker \in [Procs -> {Idle} \union Handling] /\ Idle.pc = "pop"
      /\ queue \in Seq(Messages) /\ timers \in [Procs -> [Messages -> Nat]]
      /\ swept \in [Procs -> SUBSET Messages] /\ messages \in [Messages -> MessageRow]
      /\ accepted \in [Messages -> Nat]
  BY DEF TypeOK, WorkerTypeOK, StoreTypeOK, QueueTypeOK, Idle
<1>2. /\ Copies(queue, m) = 0
      /\ \A q \in Procs : /\ worker[q] # Idle => worker[q].msg # m
                          /\ timers[q][m] = 0 /\ m \notin swept[q]
  BY <1>1, CopiesType DEF HasJob
<1>3. Copies(queue', m) = 0
  <2>1. CASE UNCHANGED queue
    BY <1>2, <2>1
  <2>2. CASE queue # << >> /\ queue' = Tail(queue)
    <3>1. Tail(queue) \in Seq(Messages)
      BY <1>1, <2>2, HeadTailProperties
    <3>2. Copies(Tail(queue), m) \in Nat
      BY <3>1, CopiesType
    <3>3. 0 = Copies(Tail(queue), m) + (IF Head(queue) = m THEN 1 ELSE 0)
      BY <1>1, <1>2, <2>2, CopiesTail
    <3>4. QED BY <2>2, <3>2, <3>3
  <2>3. ASSUME NEW n \in Messages, n # m, Requeue(n)
        PROVE  Copies(queue', m) = 0
    BY <1>1, <1>2, <2>3, CopiesAppend DEF Requeue
  <2>4. CASE RequeuePaused(p)
    BY <1>2, <2>1, <2>3, <2>4, HandlerFields DEF RequeuePaused, At
  <2>5. ASSUME NEW n \in Messages, TimerFires(p, n) \/ TimerCancelled(p, n) \/ QueueClaimed(p, n)
        PROVE  Copies(queue', m) = 0
    <3>1. n # m
      BY <1>2, <2>5 DEF TimerFires, TimerCancelled, QueueClaimed, StopTimer
    <3>2. QED BY <2>1, <2>3, <2>5, <3>1 DEF TimerFires, TimerCancelled, QueueClaimed, queueVars
  <2>6. QED
    BY <2>1, <2>2, <2>4, <2>5
    DEF WorkerStep, HandleJob, Pop, PopLost, PopTimesOut, GetMessage, GetCampaign, ReadFails,
        BeginAttempt, CountForRecalculation, ApplyRecalculation, RecalculationFails,
        WaitForCadence, SendText, RecordSent, RecordRetry, RecordFailure, ScheduleRetry,
        ClaimDueRetryJobs, dispatchVars, queueVars
<1>4. ASSUME NEW q \in Procs, worker'[q] # Idle
      PROVE  worker'[q].msg # m
  <2>1. CASE q = p
    <3>1. queue # << >> => Head(queue) # m
      BY <1>1, <1>2, CopiesTail, CopiesType, HeadTailProperties
    <3>2. QED BY <1>2, <1>4, <2>1, <3>1, HandlerKeepsMessage
  <2>2. CASE q # p
    BY <1>2, <1>4, <2>2, OtherWorkers
  <2>3. QED BY <2>1, <2>2
<1>5. ASSUME NEW q \in Procs
      PROVE  timers'[q][m] = 0
  <2>1. CASE ScheduleRetry(p)
    BY <1>1, <1>2, <2>1, HandlerFields DEF ScheduleRetry, At
  <2>2. ASSUME NEW n \in Messages, StopTimer(p, n)
        PROVE  timers'[q][m] = 0
    BY <1>1, <1>2, <2>2 DEF StopTimer
  <2>3. CASE UNCHANGED timers
    BY <1>2, <2>3
  <2>4. QED
    BY <2>1, <2>2, <2>3
    DEF WorkerStep, HandleJob, Pop, PopLost, PopTimesOut, GetMessage, GetCampaign, ReadFails,
        RequeuePaused, BeginAttempt, CountForRecalculation, ApplyRecalculation,
        RecalculationFails, WaitForCadence, SendText, RecordSent, RecordRetry, RecordFailure,
        TimerFires, TimerCancelled, ClaimDueRetryJobs, QueueClaimed, dispatchVars, workerVars
<1>6. ASSUME NEW q \in Procs
      PROVE  m \notin swept'[q]
  <2>1. CASE ClaimDueRetryJobs(p)
    BY <1>1, <1>2, <2>1 DEF ClaimDueRetryJobs, RetryClaimable
  <2>2. ASSUME NEW n \in Messages, QueueClaimed(p, n)
        PROVE  m \notin swept'[q]
    BY <1>1, <1>2, <2>2 DEF QueueClaimed
  <2>3. CASE UNCHANGED swept
    BY <1>2, <2>3
  <2>4. QED
    BY <2>1, <2>2, <2>3
    DEF WorkerStep, HandleJob, Pop, PopLost, PopTimesOut, GetMessage, GetCampaign, ReadFails,
        RequeuePaused, BeginAttempt, CountForRecalculation, ApplyRecalculation,
        RecalculationFails, WaitForCadence, SendText, RecordSent, RecordRetry, RecordFailure,
        ScheduleRetry, TimerFires, TimerCancelled, dispatchVars, workerVars
<1>7. messages'[m] = messages[m]
  <2>1. CASE ClaimDueRetryJobs(p)
    BY <1>1, <2>1 DEF ClaimDueRetryJobs, RetryClaimable
  <2>2. ASSUME NEW row, Update(worker[p].msg, row), worker[p].pc # "pop"
        PROVE  messages'[m] = messages[m]
    BY <1>1, <1>2, <2>2 DEF Update
  <2>3. CASE UNCHANGED messages
    BY <2>3
  <2>4. CASE BeginAttempt(p) \/ RecordSent(p) \/ RecordRetry(p) \/ RecordFailure(p)
    BY <2>2, <2>3, <2>4 DEF BeginAttempt, RecordSent, RecordRetry, RecordFailure, At
  <2>5. QED
    BY <2>1, <2>3, <2>4
    DEF WorkerStep, HandleJob, Pop, PopLost, PopTimesOut, GetMessage, GetCampaign, ReadFails,
        RequeuePaused, CountForRecalculation, ApplyRecalculation, RecalculationFails,
        WaitForCadence, SendText, ScheduleRetry, TimerFires, TimerCancelled, QueueClaimed,
        storeVars, dispatchVars
<1>8. accepted'[m] = accepted[m]
  <2>1. CASE SendText(p)
    <3>1. worker[p].msg # m
      BY <1>1, <1>2, <2>1 DEF SendText, At
    <3>2. QED BY <1>1, <2>1, <3>1 DEF SendText
  <2>2. CASE ~SendText(p)
    BY <2>2
    DEF WorkerStep, HandleJob, Pop, PopLost, PopTimesOut, GetMessage, GetCampaign, ReadFails,
        RequeuePaused, BeginAttempt, CountForRecalculation, ApplyRecalculation,
        RecalculationFails, WaitForCadence, RecordSent, RecordRetry, RecordFailure,
        ScheduleRetry, TimerFires, TimerCancelled, ClaimDueRetryJobs, QueueClaimed, workerVars,
        dispatchVars
  <2>3. QED BY <2>1, <2>2
<1>9. queue' \in Seq(Messages)
  BY WorkerKeepsTypes DEF TypeOK, DispatchTypeOK, QueueTypeOK
<1>10. ~HasJob(m)'
  BY <1>3, <1>4, <1>5, <1>6, <1>9, CopiesType DEF HasJob
<1>11. QED BY <1>7, <1>8, <1>10

\* What the Redis client sends again are jobs of campaigns that are stored.
LEMMA PushedAreStored ==
  ASSUME TypeOK, JobsAreStored, RequestsStored, ReleasesHeld, PushAgain
  PROVE  \E S \in SUBSET {n \in Messages : CampaignOf[n] \in stored} :
           \E jobs \in Orderings(S) : Publish(jobs)
<1>1. \A c \in stored : MessagesOf(c) \in SUBSET {n \in Messages : CampaignOf[n] \in stored}
  BY DEF MessagesOf
<1>2. CASE \E p \in Procs : \E jobs \in WorkerPushes(p) : Resend(jobs)
  <2>1. PICK p \in Procs, n \in Messages :
          /\ \/ At(p, "requeue") /\ worker[p].msg = n
             \/ timers[p][n] > 0 \/ n \in swept[p]
          /\ Publish(<<n>>)
    BY <1>2 DEF WorkerPushes, Resend
  <2>2. HasJob(n)
    BY <2>1 DEF HasJob, At, Idle
  <2>3. {n} \in SUBSET {i \in Messages : CampaignOf[i] \in stored}
    BY <2>2 DEF JobsAreStored
  <2>4. QED BY <2>1, <2>3, SingleOrdering
<1>3. CASE \E p \in Procs : \E jobs \in SchedulerPushes(p) : Resend(jobs)
  <2>1. PICK p \in Procs : \E c \in release[p].todo :
                             \E jobs \in Orderings(MessagesOf(c)) : Publish(jobs)
    BY <1>3 DEF SchedulerPushes, Resend
  <2>2. PICK c \in release[p].todo : \E jobs \in Orderings(MessagesOf(c)) : Publish(jobs)
    BY <2>1
  <2>3. c \in stored
    BY DEF ReleasesHeld, Releasing
  <2>4. QED BY <1>1, <2>2, <2>3
<1>4. CASE \E k \in Clients : \E jobs \in ClientPushes(k) : Resend(jobs)
  <2>1. PICK k \in Clients : /\ request[k].pc = "publish"
                             /\ \E jobs \in Orderings(MessagesOf(request[k].camp)) : Publish(jobs)
    BY <1>4 DEF ClientPushes, Doing, Resend
  <2>2. request[k].camp \in stored
    BY <2>1 DEF RequestsStored
  <2>3. QED BY <1>1, <2>1, <2>2
<1>5. QED BY <1>2, <1>3, <1>4 DEF PushAgain

\* Every step leaves a message alone whose campaign is not stored yet: only the commit of
\* the campaign lets its jobs be published, and its row be updated.
LEMMA JobsStoredStep ==
  ASSUME TypeOK, JobsAreStored, RequestsStored, ReleasesHeld, [Next]_vars
  PROVE  JobsAreStored'
<1> SUFFICES ASSUME NEW m \in Messages, CampaignOf[m] \notin stored'
             PROVE  messages'[m] = NewMessage /\ accepted'[m] = 0 /\ ~HasJob(m)'
  BY DEF JobsAreStored
<1>1. CampaignOf[m] \notin stored
  BY StoredGrows
<1>2. /\ messages[m] = NewMessage /\ accepted[m] = 0 /\ ~HasJob(m)
      /\ ~messages[m].next_retry_at /\ ~messages[m].provider_message_id
  BY <1>1 DEF JobsAreStored, NewMessage
<1>3. ASSUME NEW p \in Procs, Worker(p)
      PROVE  messages'[m] = NewMessage /\ accepted'[m] = 0 /\ ~HasJob(m)'
  BY <1>2, <1>3, WorkerBringsNothing DEF Worker
<1>4. ASSUME NEW S \in SUBSET Messages, m \notin S, NEW jobs \in Orderings(S), Publish(jobs)
      PROVE  \A i \in DOMAIN queue' : queue'[i] # m
  <2>1. queue \in Seq(Messages)
    BY DEF TypeOK, QueueTypeOK
  <2>2. Copies(queue', m) = Copies(queue, m)
    <3>1. Copies(queue, m) \in Nat
      BY <2>1, CopiesType
    <3>2. QED BY <1>4, <2>1, <3>1, CopiesPublished DEF Publish
  <2>3. Copies(queue, m) = 0
    BY <1>2, <2>1, CopiesType DEF HasJob
  <2>4. queue' \in Seq(Messages)
    BY NextKeepsTypes DEF TypeOK, QueueTypeOK
  <2>5. QED BY <2>2, <2>3, <2>4, CopiesType
<1>5. CASE \/ \E k \in Clients : Client(k)
           \/ \E p \in Procs : Scheduler(p)
  <2>1. UNCHANGED <<messages, workerVars>>
    BY <1>5
    DEF Client, ClientStep, CreateLooksUp, RescheduleReads, CancelReads, PauseReads,
        ResumeReads, Begin, InsertCampaign, PublishCreated, UpdateSchedule, CancelCampaign,
        PauseCampaign, ResumeCampaign, CountResumed, ApplyResumed, Scheduler, SchedulerStep,
        ClaimDueScheduled, PublishReleased, RevertRelease, storeVars
  <2>2. UNCHANGED queue \/ \E c \in stored : \E jobs \in Orderings(MessagesOf(c)) : Publish(jobs)
    <3>1. ASSUME NEW k \in Clients, PublishCreated(k)
          PROVE  \/ UNCHANGED queue
                 \/ \E c \in stored : \E jobs \in Orderings(MessagesOf(c)) : Publish(jobs)
      <4>1. request[k].camp \in stored
        BY <3>1 DEF PublishCreated, Doing, RequestsStored
      <4>2. QED BY <3>1, <4>1 DEF PublishCreated
    <3>2. ASSUME NEW p \in Procs, NEW c \in Campaigns, PublishReleased(p, c)
          PROVE  \/ UNCHANGED queue
                 \/ \E d \in stored : \E jobs \in Orderings(MessagesOf(d)) : Publish(jobs)
      <4>1. c \in stored
        BY <3>2 DEF PublishReleased, ReleasesHeld, Releasing
      <4>2. QED BY <3>2, <4>1 DEF PublishReleased
    <3>3. QED
      BY <1>5, <3>1, <3>2
      DEF Client, ClientStep, CreateLooksUp, RescheduleReads, CancelReads, PauseReads,
          ResumeReads, Begin, InsertCampaign, UpdateSchedule, CancelCampaign, PauseCampaign,
          ResumeCampaign, CountResumed, ApplyResumed, Scheduler, SchedulerStep,
          ClaimDueScheduled, RevertRelease, queueVars
  <2>3. \A c \in stored : MessagesOf(c) \in SUBSET Messages /\ m \notin MessagesOf(c)
    BY <1>1 DEF MessagesOf
  <2>4. \A i \in DOMAIN queue' : queue'[i] # m
    BY <1>2, <1>4, <2>2, <2>3 DEF HasJob
  <2>5. ~HasJob(m)'
    BY <1>2, <2>1, <2>4 DEF HasJob, workerVars
  <2>6. QED BY <1>2, <2>1, <2>5 DEF workerVars
<1>6. ASSUME NEW t \in Trackers, Tracker(t)
      PROVE  messages'[m] = NewMessage /\ accepted'[m] = 0 /\ ~HasJob(m)'
  <2>1. UNCHANGED <<queue, workerVars>>
    BY <1>6
    DEF Tracker, TrackerStep, ReceiveEvent, MarkMessage, CountTouched, ApplyTouched,
        TrackFails, queueVars
  <2>2. ASSUME NEW n \in Messages, MarkMessage(t, n)
        PROVE  messages'[m] = messages[m]
    BY <1>2, <2>2 DEF MarkMessage, TypeOK, StoreTypeOK
  <2>3. messages'[m] = messages[m]
    BY <1>6, <2>2
    DEF Tracker, TrackerStep, ReceiveEvent, CountTouched, ApplyTouched, TrackFails, storeVars
  <2>4. QED BY <1>2, <2>1, <2>3 DEF HasJob, workerVars
<1>7. ASSUME NEW p \in Procs, Crash(p)
      PROVE  messages'[m] = NewMessage /\ accepted'[m] = 0 /\ ~HasJob(m)'
  <2>1. \A q \in Procs : /\ worker'[q] \in {worker[q], Idle}
                         /\ timers'[q] \in {timers[q], NoTimers}
                         /\ swept'[q] \in {swept[q], {}}
    BY <1>7 DEF Crash, WorkerLost, TypeOK, WorkerTypeOK
  <2>2. ~HasJob(m)'
    BY <1>2, <1>7, <2>1 DEF Crash, HasJob, NoTimers
  <2>3. QED BY <1>2, <1>7, <2>2 DEF Crash, WorkerLost, storeVars
<1>8. CASE \/ \E p \in Procs : Stop(p) \/ StopScheduler(p) \/ Exit(p) \/ Start(p)
           \/ UNCHANGED vars
  BY <1>2, <1>8
  DEF Stop, StopScheduler, Exit, Start, vars, dispatchVars, queueVars, storeVars, workerVars,
      HasJob
<1>9. CASE PushAgain
  <2>1. PICK S \in SUBSET {n \in Messages : CampaignOf[n] \in stored} :
          \E jobs \in Orderings(S) : Publish(jobs)
    BY <1>9, PushedAreStored
  <2>2. S \in SUBSET Messages /\ m \notin S
    BY <1>1
  <2>3. \A i \in DOMAIN queue' : queue'[i] # m
    BY <1>4, <2>1, <2>2
  <2>4. UNCHANGED <<messages, workerVars>>
    BY <1>9 DEF PushAgain, storeVars
  <2>5. QED BY <1>2, <2>3, <2>4 DEF HasJob, workerVars
<1>10. QED BY <1>3, <1>5, <1>6, <1>7, <1>8, <1>9 DEF Next

\* Initially only the messages of stored campaigns have jobs.
LEMMA InitJobsStored == Init => JobsAreStored
<1> SUFFICES ASSUME Init, NEW m \in Messages, CampaignOf[m] \notin stored
             PROVE  messages[m] = NewMessage /\ accepted[m] = 0 /\ ~HasJob(m)
  BY DEF JobsAreStored
<1>1. PICK jobs \in Orderings({n \in Messages : CampaignOf[n] \in Existing}) : queue = jobs
  BY DEF Init
<1>2. \A i \in DOMAIN queue : queue[i] # m
  BY <1>1 DEF Init, Orderings
<1>3. QED BY <1>2 DEF Init, WorkerInit, HasJob, Idle, NoTimers

\* No job of a message precedes the commit of the row its handler will read, for any
\* number of processes.
THEOREM JobsStoredTheorem == Spec => []JobsAreStored
<1>1. TypeOK /\ PlanInv /\ JobsAreStored /\ [Next]_vars => JobsAreStored'
  BY JobsStoredStep DEF PlanInv
<1>2. QED BY <1>1, InitJobsStored, TypeCorrect, PlanAlways, PTL DEF Spec

------------------------------------------------------------------------------
(* SendsCounted *)

\* The handler of p has counted an attempt and is on its way to the send.
Underway(p) ==
  \/ worker[p].pc \in {"cadence", "send"}
  \/ worker[p].pc \in {"count", "apply"} /\ worker[p].next = "cadence"

Senders(m) == {p \in Procs : Underway(p) /\ worker[p].msg = m}

\* Every send made or under way is counted.
SendsClaimed ==
  \A m \in Messages : accepted[m] + Cardinality(Senders(m)) <= messages[m].attempt_count

\* handleJob gets on its way to a send only by counting the attempt.
LEMMA UnderwayEntered ==
  ASSUME TypeOK, NEW p \in Procs, WorkerStep(p), Underway(p)'
  PROVE  /\ worker[p].msg \in Messages
         /\ worker'[p].msg = worker[p].msg /\ worker'[p].attempt = worker[p].attempt
         /\ ~SendText(p)
         /\ \/ Underway(p)
            \/ /\ BeginAttempt(p)
               /\ messages'[worker[p].msg].attempt_count
                    = messages[worker[p].msg].attempt_count + 1
<1>1. worker \in [Procs -> {Idle} \union Handling] /\ Idle.pc = "pop"
  BY DEF TypeOK, WorkerTypeOK, Idle
<1>2. worker'[p] # Idle /\ worker'[p].pc \in {"cadence", "send", "count", "apply"}
      /\ (worker'[p].pc \in {"count", "apply"} => worker'[p].next = "cadence")
  BY <1>1 DEF Underway
<1>3. ASSUME SendText(p)
      PROVE  FALSE
  <2>1. PICK pc \in {"markSent", "markRetry", "markFailed"} : Goto(p, pc)
    BY <1>3 DEF SendText
  <2>2. QED BY <1>2, <1>3, <2>1, HandlerFields DEF SendText, At
<1>4. CASE worker'[p] = worker[p]
  <2>1. Underway(p) /\ worker[p].pc # "pop"
    BY <1>2, <1>4 DEF Underway
  <2>2. QED BY <1>3, <1>4, <2>1, HandlerFields
<1>5. ASSUME Pop(p) \/ GetMessage(p) \/ GetCampaign(p) \/ ReadFails(p) \/ RequeuePaused(p)
             \/ ScheduleRetry(p) \/ RecordSent(p) \/ RecordRetry(p) \/ RecordFailure(p)
      PROVE  FALSE
  <2>1. CASE Pop(p)
    BY <1>1, <1>2, <2>1 DEF Pop
  <2>2. CASE GetMessage(p)
    <3>1. worker[p] \in Handling
      BY <1>1, <2>2 DEF GetMessage, At
    <3>2. QED BY <1>1, <1>2, <2>2, <3>1 DEF GetMessage, EndJob, Handling
  <2>3. CASE \/ GetCampaign(p) \/ ReadFails(p) \/ RequeuePaused(p) \/ ScheduleRetry(p)
             \/ RecordSent(p) \/ RecordRetry(p) \/ RecordFailure(p)
    BY <1>2, <2>3, HandlerFields
    DEF GetCampaign, ReadFails, RequeuePaused, ScheduleRetry, RecordSent, RecordRetry,
        RecordFailure, At
  <2>4. QED BY <1>5, <2>1, <2>2, <2>3
<1>6. CASE BeginAttempt(p)
  <2>1. /\ worker[p].msg \in Messages /\ Recalculate(p, "cadence")
        /\ Update(worker[p].msg, MarkProcessing(messages[worker[p].msg]))
    BY <1>2, <1>6, HandlerFields DEF BeginAttempt, At
  <2>2. messages'[worker[p].msg].attempt_count = messages[worker[p].msg].attempt_count + 1
    BY <2>1 DEF Update, MarkProcessing, TypeOK, StoreTypeOK, MessageRow
  <2>3. QED BY <1>3, <1>6, <2>1, <2>2, HandlerFields DEF BeginAttempt, At
<1>7. CASE CountForRecalculation(p)
  <2>1. worker[p].pc = "count" /\ worker[p] \in Handling
    BY <1>1, <1>7 DEF CountForRecalculation, At
  <2>2. /\ worker'[p].pc = "apply" /\ worker'[p].msg = worker[p].msg
        /\ worker'[p].attempt = worker[p].attempt /\ worker'[p].next = worker[p].next
    BY <1>1, <1>7, <2>1 DEF CountForRecalculation, Handling
  <2>3. QED BY <1>2, <1>3, <2>1, <2>2, HandlerFields DEF Underway
<1>8. CASE ApplyRecalculation(p) \/ RecalculationFails(p) \/ WaitForCadence(p)
  BY <1>2, <1>3, <1>8, HandlerFields
  DEF ApplyRecalculation, RecalculationFails, WaitForCadence, At, Underway
<1>9. CASE \/ PopLost(p) \/ PopTimesOut(p) \/ ClaimDueRetryJobs(p)
           \/ \E m \in Messages : TimerFires(p, m) \/ TimerCancelled(p, m) \/ QueueClaimed(p, m)
  BY <1>4, <1>9 DEF PopLost, PopTimesOut, ClaimDueRetryJobs, TimerFires, TimerCancelled,
                    QueueClaimed, dispatchVars, workerVars
<1>10. QED BY <1>3, <1>5, <1>6, <1>7, <1>8, <1>9 DEF WorkerStep, HandleJob

\* The attempt count of a row changes by one, when an attempt begins.
LEMMA AttemptChanges ==
  ASSUME TypeOK, [Next]_vars, NEW m \in Messages
  PROVE  /\ messages[m].attempt_count \in Nat
         /\ \/ messages'[m].attempt_count = messages[m].attempt_count
            \/ /\ \E p \in Procs : Worker(p) /\ BeginAttempt(p) /\ worker[p].msg = m
               /\ messages'[m].attempt_count = messages[m].attempt_count + 1
<1>1. messages \in [Messages -> MessageRow] /\ messages[m].attempt_count \in Nat
  BY DEF TypeOK, StoreTypeOK, MessageRow
<1>2. CASE messages'[m] = messages[m]
  BY <1>1, <1>2
<1>3. ASSUME NEW n \in Messages, NEW row, Update(n, row),
             row.attempt_count = messages[n].attempt_count
      PROVE  messages'[m].attempt_count = messages[m].attempt_count
  BY <1>1, <1>3 DEF Update
<1>4. ASSUME NEW n \in Messages, NEW identified
      PROVE  /\ MarkSent(messages[n], identified).attempt_count = messages[n].attempt_count
             /\ MarkFailed(messages[n]).attempt_count = messages[n].attempt_count
             /\ MarkPendingRetry(messages[n]).attempt_count = messages[n].attempt_count
             /\ MarkProcessing(messages[n]).attempt_count = messages[n].attempt_count + 1
  <2>1. messages[n] \in MessageRow
    BY <1>1
  <2>2. QED BY <2>1 DEF MarkSent, MarkFailed, MarkPendingRetry, MarkProcessing, MessageRow
<1>5. ASSUME NEW p \in Procs, Worker(p), BeginAttempt(p)
      PROVE  \/ messages'[m].attempt_count = messages[m].attempt_count
             \/ /\ worker[p].msg = m
                /\ messages'[m].attempt_count = messages[m].attempt_count + 1
  BY <1>1, <1>4, <1>5, HandlerFields DEF BeginAttempt, Update, At
<1>6. ASSUME NEW p \in Procs, Worker(p), ~BeginAttempt(p)
      PROVE  messages'[m].attempt_count = messages[m].attempt_count
  <2>1. CASE ClaimDueRetryJobs(p)
    <3>1. messages'[m] \in {messages[m], [messages[m] EXCEPT !.next_retry_at = FALSE]}
      BY <2>1 DEF ClaimDueRetryJobs
    <3>2. messages[m] \in MessageRow
      BY <1>1
    <3>3. QED BY <3>1, <3>2 DEF MessageRow
  <2>2. CASE RecordSent(p) \/ RecordRetry(p) \/ RecordFailure(p)
    <3>1. worker[p].msg \in Messages
      BY <2>2, HandlerFields DEF RecordSent, RecordRetry, RecordFailure, At
    <3>2. QED BY <1>2, <1>3, <1>4, <2>2, <3>1 DEF RecordSent, RecordRetry, RecordFailure
  <2>3. CASE UNCHANGED messages
    BY <2>3
  <2>4. QED
    BY <1>6, <2>1, <2>2, <2>3
    DEF Worker, WorkerStep, HandleJob, Pop, PopLost, PopTimesOut, GetMessage, GetCampaign,
        ReadFails, RequeuePaused, CountForRecalculation, ApplyRecalculation,
        RecalculationFails, WaitForCadence, SendText, ScheduleRetry, TimerFires,
        TimerCancelled, QueueClaimed, storeVars, dispatchVars
<1>7. ASSUME NEW t \in Trackers, Tracker(t)
      PROVE  messages'[m].attempt_count = messages[m].attempt_count
  <2>1. ASSUME NEW n \in Messages, MarkMessage(t, n)
        PROVE  messages'[m].attempt_count = messages[m].attempt_count
    BY <1>1, <2>1 DEF MarkMessage, Marked, MarkDelivered, MarkRead, MessageRow
  <2>2. CASE UNCHANGED messages
    BY <2>2
  <2>3. QED
    BY <1>7, <2>1, <2>2
    DEF Tracker, TrackerStep, ReceiveEvent, CountTouched, ApplyTouched, TrackFails, storeVars
<1>8. CASE \/ \E k \in Clients : Client(k)
           \/ \E p \in Procs : Scheduler(p)
           \/ \E p \in Procs : Stop(p) \/ StopScheduler(p) \/ Exit(p) \/ Crash(p) \/ Start(p)
           \/ PushAgain
           \/ UNCHANGED vars
  <2>1. UNCHANGED messages
    BY <1>8
    DEF Client, ClientStep, CreateLooksUp, RescheduleReads, CancelReads, PauseReads,
        ResumeReads, Begin, InsertCampaign, PublishCreated, UpdateSchedule, CancelCampaign,
        PauseCampaign, ResumeCampaign, CountResumed, ApplyResumed, Scheduler, SchedulerStep,
        ClaimDueScheduled, PublishReleased, RevertRelease, Stop, StopScheduler, Exit, Crash,
        Start, PushAgain, storeVars, dispatchVars, vars
  <2>2. QED BY <1>2, <2>1
<1>9. QED BY <1>1, <1>5, <1>6, <1>7, <1>8 DEF Next

\* The provider takes a message from a handler on its way to the send.
LEMMA AcceptedChanges ==
  ASSUME TypeOK, [Next]_vars, NEW m \in Messages
  PROVE  /\ accepted[m] \in Nat
         /\ \/ accepted'[m] = accepted[m]
            \/ /\ \E p \in Procs : Worker(p) /\ SendText(p) /\ Underway(p) /\ worker[p].msg = m
               /\ accepted'[m] = accepted[m] + 1
<1>1. accepted \in [Messages -> Nat]
  BY DEF TypeOK, WorkerTypeOK
<1>2. ASSUME NEW p \in Procs, Worker(p), SendText(p)
      PROVE  \/ accepted'[m] = accepted[m]
             \/ Underway(p) /\ worker[p].msg = m /\ accepted'[m] = accepted[m] + 1
  BY <1>1, <1>2 DEF SendText, At, Underway
<1>3. ASSUME NEW p \in Procs, Worker(p), ~SendText(p)
      PROVE  UNCHANGED accepted
  BY <1>3
  DEF Worker, WorkerStep, HandleJob, Pop, PopLost, PopTimesOut, GetMessage, GetCampaign,
      ReadFails, RequeuePaused, BeginAttempt, CountForRecalculation, ApplyRecalculation,
      RecalculationFails, WaitForCadence, RecordSent, RecordRetry, RecordFailure,
      ScheduleRetry, TimerFires, TimerCancelled, ClaimDueRetryJobs, QueueClaimed, workerVars,
      dispatchVars
<1>4. ASSUME ~(\E p \in Procs : Worker(p))
      PROVE  UNCHANGED accepted
  BY <1>4
  DEF Next, Client, Scheduler, Tracker, Stop, StopScheduler, Exit, Crash, Start, PushAgain,
      WorkerLost, workerVars, dispatchVars, vars
<1>5. QED BY <1>1, <1>2, <1>3, <1>4

\* Who is on the way to a send of m: finitely many processes.
LEMMA SendersFinite ==
  ASSUME NEW m
  PROVE  IsFiniteSet(Senders(m)) /\ Cardinality(Senders(m)) \in Nat
<1>1. Senders(m) \subseteq Procs
  BY DEF Senders
<1>2. QED BY <1>1, QueueAssumption, FS_Subset, FS_CardinalityType

\* Whoever gets on the way to a send has added one to the count, whoever sends leaves.
LEMMA SendsClaimedStep ==
  ASSUME TypeOK, SendsClaimed, [Next]_vars
  PROVE  SendsClaimed'
<1> SUFFICES ASSUME NEW m \in Messages
             PROVE  accepted'[m] + Cardinality(Senders(m)') <= messages'[m].attempt_count
  BY DEF SendsClaimed
<1> DEFINE Now == Senders(m)
           After == Senders(m)'
           a == messages[m].attempt_count
<1>1. /\ IsFiniteSet(Now) /\ Cardinality(Now) \in Nat /\ a \in Nat /\ accepted[m] \in Nat
      /\ accepted[m] + Cardinality(Now) <= a
  BY SendersFinite, AttemptChanges, AcceptedChanges DEF SendsClaimed
<1>2. ASSUME NEW p \in After, p \notin Now
      PROVE  /\ p \in Procs /\ WorkerStep(p) /\ BeginAttempt(p)
             /\ messages'[m].attempt_count = a + 1
  <2>1. p \in Procs /\ Underway(p)' /\ worker'[p].msg = m
    BY <1>2 DEF Senders
  <2>2. worker'[p] # Idle
    BY <2>1 DEF Underway, Idle
  <2>3. worker'[p] # worker[p]
    BY <1>2, <2>1 DEF Senders, Underway
  <2>4. WorkerStep(p)
    BY <2>1, <2>2, <2>3, WorkerElsewhere DEF Worker
  <2>5. QED BY <1>2, <2>1, <2>4, UnderwayEntered DEF Senders
<1>3. CASE \E p \in After : p \notin Now
  <2>1. PICK p \in After : p \notin Now
    BY <1>3
  <2>2. /\ p \in Procs /\ WorkerStep(p) /\ BeginAttempt(p)
        /\ messages'[m].attempt_count = a + 1
    BY <1>2, <2>1
  <2>3. After \subseteq Now \union {p}
    <3> SUFFICES ASSUME NEW q \in After, q \notin Now PROVE q = p
      OBVIOUS
    <3>1. q \in Procs /\ Underway(q)' /\ worker'[q].msg = m
      BY DEF Senders
    <3>2. worker'[q] # worker[q]
      BY <3>1 DEF Senders, Underway
    <3>3. QED BY <2>2, <3>1, <3>2, OtherWorkers
  <2>4. UNCHANGED accepted
    BY <2>2 DEF BeginAttempt
  <2> HIDE DEF Now, After, a
  <2>5. IsFiniteSet(Now \union {p}) /\ Cardinality(Now \union {p}) = Cardinality(Now) + 1
    BY <1>1, <2>1, FS_AddElement
  <2>6. Cardinality(After) <= Cardinality(Now) + 1 /\ Cardinality(After) \in Nat
    BY <2>3, <2>5, FS_Subset, FS_CardinalityType
  <2>7. QED BY <1>1, <2>2, <2>4, <2>6 DEF After
<1>4. CASE After \subseteq Now
  <2>1. messages'[m].attempt_count \in Nat /\ messages'[m].attempt_count >= a
    BY <1>1, AttemptChanges
  <2>2. CASE accepted'[m] = accepted[m]
    <3> HIDE DEF Now, After, a
    <3>1. Cardinality(After) <= Cardinality(Now) /\ Cardinality(After) \in Nat
      BY <1>1, <1>4, FS_Subset, FS_CardinalityType
    <3>2. QED BY <1>1, <2>1, <2>2, <3>1 DEF After
  <2>3. ASSUME NEW p \in Procs, Worker(p), SendText(p), Underway(p), worker[p].msg = m,
               accepted'[m] = accepted[m] + 1
        PROVE  accepted'[m] + Cardinality(After) <= messages'[m].attempt_count
    <3>1. p \in Now
      BY <2>3 DEF Senders
    <3>2. p \notin After
      BY <2>3, UnderwayEntered DEF Senders, Worker
    <3> HIDE DEF Now, After, a
    <3>3. Cardinality(Now \ {p}) = Cardinality(Now) - 1 /\ IsFiniteSet(Now \ {p})
      BY <1>1, <3>1, FS_RemoveElement
    <3>4. Cardinality(After) <= Cardinality(Now \ {p}) /\ Cardinality(After) \in Nat
      BY <1>4, <3>2, <3>3, FS_Subset, FS_CardinalityType
    <3>5. QED BY <1>1, <2>1, <2>3, <3>3, <3>4
  <2>4. QED BY <2>2, <2>3, AcceptedChanges
<1>5. QED BY <1>3, <1>4

\* The provider takes no message more often than its row counts attempts, for any number of
\* processes that handle it at the same time and whatever fails.
THEOREM SendsTheorem == Spec => []SendsCounted
<1>1. Init => SendsClaimed
  <2> SUFFICES ASSUME Init, NEW m \in Messages
               PROVE  accepted[m] + Cardinality(Senders(m)) <= messages[m].attempt_count
    BY DEF SendsClaimed
  <2>1. Senders(m) = {}
    BY DEF Init, WorkerInit, Idle, Senders, Underway
  <2>2. accepted[m] = 0 /\ messages[m].attempt_count = 0
    BY DEF Init, WorkerInit, NewMessage
  <2>3. QED BY <2>1, <2>2, FS_EmptySet
<1>2. TypeOK /\ SendsClaimed /\ [Next]_vars => SendsClaimed'
  BY SendsClaimedStep
<1>3. TypeOK /\ SendsClaimed => SendsCounted
  <2> SUFFICES ASSUME TypeOK, SendsClaimed, NEW m \in Messages
               PROVE  accepted[m] <= messages[m].attempt_count
    BY DEF SendsCounted
  <2>1. accepted[m] \in Nat /\ messages[m].attempt_count \in Nat
    BY DEF TypeOK, WorkerTypeOK, StoreTypeOK, MessageRow
  <2>2. accepted[m] + Cardinality(Senders(m)) <= messages[m].attempt_count
    BY DEF SendsClaimed
  <2>3. QED BY <2>1, <2>2, SendersFinite
<1>4. QED BY <1>1, <1>2, <1>3, TypeCorrect, PTL DEF Spec

------------------------------------------------------------------------------
(* AttemptsWithinJobs.  The attempts made are paid for by jobs: each published  *)
(* job pays for one, and an attempt that is retried leaves two more jobs, that  *)
(* of its timer and that of the sweeper.                                        *)

\* What a process has read of the attempts of the message it handles is still true.
AttemptsRead ==
  \A p \in Procs :
    /\ worker[p].pc \in {"getCampaign", "requeue", "markProcessing"} =>
         messages[worker[p].msg].attempt_count = worker[p].attempt
    /\ Underway(p) => messages[worker[p].msg].attempt_count = worker[p].attempt + 1

Flag(b) == IF b THEN 1 ELSE 0

\* The job a handler works on, or the two that the attempt it makes leaves if it fails.
InHand(p, m) ==
  IF worker[p].pc = "pop" THEN 0
  ELSE IF worker[p].msg # m THEN 0
  ELSE IF worker[p].pc \in {"getMessage", "getCampaign", "requeue", "markProcessing"} THEN 1
  ELSE IF worker[p].pc = "markRetry" THEN 2
  ELSE IF worker[p].pc = "scheduleRetry" THEN 1
  ELSE IF worker[p].pc \in {"count", "apply"} /\ worker[p].next = "scheduleRetry" THEN 1
  ELSE IF Underway(p) /\ worker[p].attempt < Retried THEN 2
  ELSE 0

\* The jobs of m there are, or will be whatever happens.
Jobs(p, m) ==
  Copies(queue, m) + InHand(p, m) + timers[p][m]
    + Flag(m \in swept[p]) + Flag(messages[m].next_retry_at)

\* The jobs the attempts to come may add.
ToCome(a) == IF a < Retried THEN 2 * (Retried - a) ELSE 0

\* What m has used, and may still use.
Due(p, m) ==
  messages[m].attempt_count + ToCome(messages[m].attempt_count) + Jobs(p, m)

Publishing(c) == \E k \in Clients : request[k].pc = "publish" /\ request[k].camp = c

\* A release is to come, is going on, or will be taken back.
ToRelease(p, c) ==
  /\ campaigns[c].send_mode = "scheduled"
  /\ \/ ~campaigns[c].released_at
     \/ c \in release[p].todo
     \/ c \in release[p].revert /\ phase[p] # "stoppingScheduler"

\* The jobs of each message of c that are still to be published.
Owed(p, c) == Flag(Publishing(c)) + Flag(ToRelease(p, c))

\* The publications a campaign is granted: one, or two if it is scheduled, and one more for
\* each failure.
Granted(c) == (IF campaigns[c].send_mode = "now" THEN 1 ELSE 2) + faults

Paid(p, m) == Due(p, m) + Owed(p, CampaignOf[m]) <= 2 * Retried + Granted(CampaignOf[m])

AllPaid == \A p \in Procs, m \in Messages : CampaignOf[m] \in stored => Paid(p, m)

OnePublisher ==
  \A j, k \in Clients :
    request[j].pc = "publish" /\ request[k].pc = "publish" /\ request[j].camp = request[k].camp
      => j = k

AttemptInv == AttemptsRead /\ OnePublisher /\ AllPaid

------------------------------------------------------------------------------
(* What the worker uses *)

\* An attempt that is retried trades two jobs to come for two jobs.
LEMMA AttemptPrice ==
  ASSUME NEW a \in Nat
  PROVE  /\ Retried \in Nat /\ ToCome(a) \in Nat /\ ToCome(a + 1) \in Nat
         /\ (a + 1) + ToCome(a + 1) + (IF a < Retried THEN 2 ELSE 0) <= a + ToCome(a) + 1
         /\ \A permanent : ShouldRetry(permanent, a + 1) => a < Retried
BY WorkerAssumption DEF Retried, ToCome, ShouldRetry

\* The parts of what is due, before and after a step, are natural numbers.
LEMMA DueParts ==
  ASSUME TypeOK, [Next]_vars, NEW p \in Procs, NEW m \in Messages
  PROVE  /\ messages[m].attempt_count \in Nat /\ messages'[m].attempt_count \in Nat
         /\ queue \in Seq(Messages) /\ queue' \in Seq(Messages)
         /\ Copies(queue, m) \in Nat /\ Copies(queue', m) \in Nat
         /\ timers[p][m] \in Nat /\ timers'[p][m] \in Nat
         /\ InHand(p, m) \in Nat /\ InHand(p, m)' \in Nat
         /\ faults \in Nat /\ faults' \in Nat
<1>1. TypeOK'
  BY NextKeepsTypes
<1>2. /\ messages \in [Messages -> MessageRow] /\ messages' \in [Messages -> MessageRow]
      /\ queue \in Seq(Messages) /\ queue' \in Seq(Messages)
      /\ timers \in [Procs -> [Messages -> Nat]] /\ timers' \in [Procs -> [Messages -> Nat]]
      /\ faults \in 0 .. MaxFaults /\ faults' \in 0 .. MaxFaults
  BY <1>1 DEF TypeOK, StoreTypeOK, QueueTypeOK, WorkerTypeOK
<1>3. messages[m].attempt_count \in Nat /\ messages'[m].attempt_count \in Nat
  BY <1>2 DEF MessageRow
<1>4. InHand(p, m) \in Nat /\ InHand(p, m)' \in Nat
  BY DEF InHand
<1>5. QED BY <1>2, <1>3, <1>4, CopiesType

\* Reading, recalculating, waiting and sending use up the job in hand or keep it; what a
\* send leaves to do was counted in.
LEMMA HandlerPays ==
  ASSUME TypeOK, NEW p \in Procs, NEW m \in Messages,
         \/ GetMessage(p) \/ GetCampaign(p) \/ ReadFails(p) \/ CountForRecalculation(p)
         \/ ApplyRecalculation(p) \/ RecalculationFails(p) \/ WaitForCadence(p) \/ SendText(p)
  PROVE  InHand(p, m)' <= InHand(p, m) /\ UNCHANGED <<messages, queue, timers, swept>>
<1>1. UNCHANGED <<messages, queue, timers, swept>>
  BY DEF GetMessage, GetCampaign, ReadFails, CountForRecalculation, ApplyRecalculation,
         RecalculationFails, WaitForCadence, SendText, storeVars, queueVars
<1> SUFFICES InHand(p, m)' <= InHand(p, m)
  BY <1>1
<1>2. worker \in [Procs -> {Idle} \union Handling] /\ Idle.pc = "pop"
  BY DEF TypeOK, WorkerTypeOK, Idle
<1>3. InHand(p, m) \in {0, 1, 2}
  BY DEF InHand
<1>4. worker[p].pc # "pop"
  BY DEF GetMessage, GetCampaign, ReadFails, CountForRecalculation, ApplyRecalculation,
         RecalculationFails, WaitForCadence, SendText, At
<1>5. worker[p] \in Handling
  BY <1>2, <1>4
<1>6. worker'[p] = Idle => InHand(p, m)' = 0
  BY <1>2 DEF InHand
<1>7. CASE GetMessage(p)
  <2>1. worker'[p] = Idle \/ (worker'[p].pc = "getCampaign" /\ worker'[p].msg = worker[p].msg)
    BY <1>2, <1>5, <1>7 DEF GetMessage, EndJob, Handling
  <2>2. worker[p].pc = "getMessage"
    BY <1>7 DEF GetMessage, At
  <2>3. QED BY <1>3, <1>6, <2>1, <2>2 DEF InHand
<1>8. CASE GetCampaign(p)
  <2>1. \/ worker'[p] = Idle
        \/ /\ worker'[p].pc \in {"requeue", "markProcessing"}
           /\ worker'[p].msg = worker[p].msg
    BY <1>4, <1>8, HandlerFields DEF GetCampaign
  <2>2. worker[p].pc = "getCampaign"
    BY <1>8 DEF GetCampaign, At
  <2>3. QED BY <1>3, <1>6, <2>1, <2>2 DEF InHand
<1>9. CASE ReadFails(p)
  <2>1. worker'[p] = Idle
    BY <1>4, <1>9, HandlerFields DEF ReadFails
  <2>2. QED BY <1>3, <1>6, <2>1
<1>10. CASE CountForRecalculation(p)
  <2>1. /\ worker'[p].pc = "apply" /\ worker'[p].msg = worker[p].msg
        /\ worker'[p].attempt = worker[p].attempt /\ worker'[p].next = worker[p].next
    BY <1>2, <1>5, <1>10 DEF CountForRecalculation, Handling
  <2>2. worker[p].pc = "count"
    BY <1>10 DEF CountForRecalculation, At
  <2>3. InHand(p, m)' = InHand(p, m)
    BY <2>1, <2>2 DEF InHand, Underway
  <2>4. QED BY <1>3, <2>3
<1>11. CASE ApplyRecalculation(p) \/ RecalculationFails(p)
  <2>1. /\ worker[p].pc \in {"count", "apply"}
        /\ worker[p].next \in {"pop", "cadence", "scheduleRetry"}
        /\ \/ worker'[p] = Idle
           \/ /\ worker'[p].pc = worker[p].next /\ worker'[p].next = "pop"
              /\ worker'[p].msg = worker[p].msg /\ worker'[p].attempt = worker[p].attempt
    BY <1>4, <1>11, HandlerFields DEF ApplyRecalculation, RecalculationFails, At
  <2>2. CASE worker[p].msg # m
    BY <1>3, <1>6, <2>1, <2>2 DEF InHand
  <2>3. CASE worker[p].msg = m
    <3>1. worker[p].next = "pop" => InHand(p, m)' = 0
      BY <1>6, <2>1 DEF InHand
    <3>2. worker[p].next = "scheduleRetry" => InHand(p, m) = 1 /\ InHand(p, m)' \in {0, 1}
      BY <1>6, <2>1, <2>3 DEF InHand
    <3>3. worker[p].next = "cadence" =>
            InHand(p, m)' \in {0, InHand(p, m)}
      BY <1>6, <2>1, <2>3 DEF InHand, Underway
    <3>4. QED BY <1>3, <2>1, <3>1, <3>2, <3>3
  <2>4. QED BY <2>2, <2>3
<1>12. CASE WaitForCadence(p)
  <2>1. /\ worker[p].pc = "cadence"
        /\ \/ worker'[p] = Idle
           \/ /\ worker'[p].pc = "send" /\ worker'[p].next = worker[p].next
              /\ worker'[p].msg = worker[p].msg /\ worker'[p].attempt = worker[p].attempt
    BY <1>4, <1>12, HandlerFields DEF WaitForCadence, At
  <2>2. InHand(p, m)' \in {0, InHand(p, m)}
    BY <1>6, <2>1 DEF InHand, Underway
  <2>3. QED BY <1>3, <2>2
<1>13. CASE SendText(p)
  <2>1. worker[p].pc = "send" /\ worker[p].attempt \in Nat
    BY <1>4, <1>13, HandlerFields DEF SendText, At
  <2>2. PICK pc \in {"markSent", "markRetry", "markFailed"} :
          /\ Goto(p, pc)
          /\ pc = "markRetry" => \E permanent : ShouldRetry(permanent, worker[p].attempt + 1)
    BY <1>13 DEF SendText
  <2>3. worker'[p].pc = pc /\ worker'[p].msg = worker[p].msg
    BY <1>4, <2>2, HandlerFields
  <2>4. pc = "markRetry" => worker[p].attempt < Retried
    BY <2>1, <2>2, AttemptPrice
  <2>5. CASE worker[p].msg # m
    BY <1>3, <2>3, <2>5 DEF InHand
  <2>6. CASE worker[p].msg = m /\ pc = "markRetry"
    <3>1. InHand(p, m) = 2 /\ InHand(p, m)' = 2
      BY <2>1, <2>3, <2>4, <2>6 DEF InHand, Underway
    <3>2. QED BY <3>1
  <2>7. CASE pc # "markRetry"
    <3>1. InHand(p, m)' = 0
      BY <2>2, <2>3, <2>7 DEF InHand, Underway
    <3>2. QED BY <1>3, <3>1
  <2>8. QED BY <2>5, <2>6, <2>7
<1>14. QED BY <1>7, <1>8, <1>9, <1>10, <1>11, <1>12, <1>13

\* A job goes from the queue to the handler and back.
LEMMA QueuePays ==
  ASSUME TypeOK, [Next]_vars, NEW p \in Procs, NEW m \in Messages,
         Pop(p) \/ PopLost(p) \/ RequeuePaused(p)
  PROVE  /\ InHand(p, m)' + Copies(queue', m) <= InHand(p, m) + Copies(queue, m)
         /\ UNCHANGED <<messages, timers, swept>>
<1>1. UNCHANGED <<messages, timers, swept>>
  BY DEF Pop, PopLost, RequeuePaused, storeVars, workerVars
<1>2. /\ queue \in Seq(Messages) /\ Copies(queue, m) \in Nat /\ Copies(queue', m) \in Nat
      /\ worker \in [Procs -> {Idle} \union Handling] /\ Idle.pc = "pop"
  BY DueParts DEF TypeOK, WorkerTypeOK, Idle
<1>3. CASE Pop(p)
  <2>1. /\ worker[p].pc = "pop" /\ worker'[p].pc = "getMessage" /\ worker'[p].msg = Head(queue)
        /\ queue # << >> /\ queue' = Tail(queue)
    BY <1>2, <1>3 DEF Pop, At
  <2>2. InHand(p, m) = 0 /\ InHand(p, m)' = IF Head(queue) = m THEN 1 ELSE 0
    BY <2>1 DEF InHand
  <2>3. Copies(queue, m) = Copies(queue', m) + (IF Head(queue) = m THEN 1 ELSE 0)
    BY <1>2, <2>1, CopiesTail
  <2>4. QED BY <1>1, <1>2, <2>2, <2>3
<1>4. CASE PopLost(p)
  <2>1. UNCHANGED worker /\ queue # << >> /\ queue' = Tail(queue)
    BY <1>4 DEF PopLost, workerVars
  <2>2. InHand(p, m)' = InHand(p, m) /\ InHand(p, m) \in Nat
    BY <2>1 DEF InHand, Underway
  <2>3. Copies(queue, m) = Copies(queue', m) + (IF Head(queue) = m THEN 1 ELSE 0)
    BY <1>2, <2>1, CopiesTail
  <2>4. QED BY <1>1, <1>2, <2>2, <2>3
<1>5. CASE RequeuePaused(p)
  <2>1. /\ worker[p].pc = "requeue" /\ worker'[p] = Idle /\ worker[p].msg \in Messages
        /\ queue' \in {queue, Append(queue, worker[p].msg)}
    BY <1>5, HandlerFields DEF RequeuePaused, Requeue, At
  <2>2. InHand(p, m)' = 0 /\ InHand(p, m) = IF worker[p].msg = m THEN 1 ELSE 0
    BY <1>2, <2>1 DEF InHand
  <2>3. Copies(queue', m) <= Copies(queue, m) + (IF worker[p].msg = m THEN 1 ELSE 0)
    <3>1. CASE queue' = queue
      BY <1>2, <3>1
    <3>2. CASE queue' = Append(queue, worker[p].msg)
      BY <1>2, <2>1, <3>2, CopiesAppend
    <3>3. QED BY <2>1, <3>1, <3>2
  <2>4. QED BY <1>1, <1>2, <2>2, <2>3
<1>6. QED BY <1>3, <1>4, <1>5

\* What an attempt and its record cost: the attempt counted, the jobs in hand and the
\* retry the row asks for.
Cost(p, m) ==
  messages[m].attempt_count + ToCome(messages[m].attempt_count) + InHand(p, m)
    + Flag(messages[m].next_retry_at)

\* The statements on the row of the message: an attempt is paid for by the job in hand, and
\* what it leaves to do by what it may still use.
LEMMA RowPays ==
  ASSUME TypeOK, [Next]_vars, AttemptsRead, NEW p \in Procs, NEW m \in Messages,
         BeginAttempt(p) \/ RecordSent(p) \/ RecordRetry(p) \/ RecordFailure(p)
  PROVE  Cost(p, m)' <= Cost(p, m) /\ UNCHANGED <<queue, timers, swept>>
<1> DEFINE a == messages[m].attempt_count
           r == messages[m].next_retry_at
           row == messages[m]
<1>1. UNCHANGED <<queue, timers, swept>>
  BY DEF BeginAttempt, RecordSent, RecordRetry, RecordFailure
<1> SUFFICES Cost(p, m)' <= Cost(p, m)
  BY <1>1
<1>2. /\ messages \in [Messages -> MessageRow] /\ Idle.pc = "pop"
      /\ row \in MessageRow /\ a \in Nat /\ a' \in Nat
  BY DueParts DEF TypeOK, StoreTypeOK, Idle
<1>3. /\ Retried \in Nat /\ ToCome(a) \in Nat /\ ToCome(a + 1) \in Nat
      /\ (a + 1) + ToCome(a + 1) + (IF a < Retried THEN 2 ELSE 0) <= a + ToCome(a) + 1
  BY <1>2, AttemptPrice
<1>4. worker[p].pc \in {"markProcessing", "markSent", "markRetry", "markFailed"}
      /\ worker[p].msg \in Messages
  BY HandlerFields DEF BeginAttempt, RecordSent, RecordRetry, RecordFailure, At
<1>5. worker'[p] = Idle => InHand(p, m)' = 0
  BY <1>2 DEF InHand
<1>6. CASE worker[p].msg # m
  <2>1. messages'[m] = row
    BY <1>2, <1>4, <1>6 DEF BeginAttempt, RecordSent, RecordRetry, RecordFailure, Update
  <2>2. worker'[p] = Idle \/ worker'[p].msg = worker[p].msg
    BY <1>4, HandlerFields DEF BeginAttempt, RecordSent, RecordRetry, RecordFailure
  <2>3. InHand(p, m)' = 0 /\ InHand(p, m) = 0
    BY <1>5, <1>6, <2>2 DEF InHand
  <2>4. QED BY <1>2, <1>3, <2>1, <2>3 DEF Cost, Flag
<1>7. ASSUME worker[p].msg = m, BeginAttempt(p)
      PROVE  Cost(p, m)' <= Cost(p, m)
  <2>1. worker[p].pc = "markProcessing"
    BY <1>7 DEF BeginAttempt, At
  <2>2. InHand(p, m) = 1
    BY <1>7, <2>1 DEF InHand
  <2>3. worker[p].attempt = a
    BY <1>7, <2>1 DEF AttemptsRead
  <2>4. MarkProcessing(row).attempt_count = a + 1 /\ ~MarkProcessing(row).next_retry_at
    <3> HIDE DEF a
    <3>1. a = row.attempt_count
      BY DEF a
    <3> HIDE DEF row
    <3>2. QED BY <1>2, <3>1 DEF MarkProcessing, MessageRow
  <2>5. CASE Update(m, MarkProcessing(row)) /\ Recalculate(p, "cadence")
    <3>1. messages'[m].attempt_count = a + 1 /\ Flag(messages'[m].next_retry_at) = 0
      BY <1>2, <2>4, <2>5 DEF Update, Flag
    <3>2. InHand(p, m)' = IF a < Retried THEN 2 ELSE 0
      <4>1. /\ worker'[p].pc = "count" /\ worker'[p].next = "cadence" /\ worker'[p].msg = m
            /\ worker'[p].attempt = a
        BY <1>4, <1>7, <2>3, <2>5, HandlerFields
      <4>2. QED BY <4>1 DEF InHand, Underway
    <3>3. QED BY <1>2, <1>3, <2>2, <3>1, <3>2 DEF Cost, Flag
  <2>6. CASE EndJob(p) /\ messages'[m] \in {row, MarkProcessing(row)}
    <3>1. InHand(p, m)' = 0
      BY <1>4, <1>5, <2>6, HandlerFields
    <3>2. CASE messages'[m] = row
      BY <1>2, <1>3, <2>2, <3>1, <3>2 DEF Cost, Flag
    <3>3. CASE messages'[m] = MarkProcessing(row)
      <4>1. messages'[m].attempt_count = a + 1 /\ Flag(messages'[m].next_retry_at) = 0
        BY <2>4, <3>3 DEF Flag
      <4>2. QED BY <1>2, <1>3, <2>2, <3>1, <4>1 DEF Cost, Flag
    <3>4. QED BY <2>6, <3>2, <3>3
  <2>7. QED BY <1>2, <1>7, <2>5, <2>6 DEF BeginAttempt, Update
<1>8. ASSUME NEW new \in MessageRow, messages'[m] \in {row, new}, new.attempt_count = a,
             InHand(p, m)' + Flag(new.next_retry_at) <= InHand(p, m),
             InHand(p, m)' <= InHand(p, m)
      PROVE  Cost(p, m)' <= Cost(p, m)
  <2>1. InHand(p, m) \in Nat /\ InHand(p, m)' \in Nat
    BY DEF InHand
  <2>2. CASE messages'[m] = row
    BY <1>2, <1>3, <1>8, <2>1, <2>2 DEF Cost, Flag
  <2>3. CASE messages'[m] = new
    BY <1>2, <1>3, <1>8, <2>1, <2>3 DEF Cost, Flag
  <2>4. QED BY <1>8, <2>2, <2>3
<1>9. /\ \A identified \in BOOLEAN : /\ MarkSent(row, identified) \in MessageRow
                                     /\ MarkSent(row, identified).attempt_count = a
                                     /\ ~MarkSent(row, identified).next_retry_at
      /\ MarkFailed(row) \in MessageRow /\ MarkFailed(row).attempt_count = a
      /\ ~MarkFailed(row).next_retry_at
      /\ MarkPendingRetry(row) \in MessageRow /\ MarkPendingRetry(row).attempt_count = a
  <2>1. a = row.attempt_count
    OBVIOUS
  <2> HIDE DEF a, row
  <2>2. QED
    BY <1>2, <2>1 DEF MarkSent, MarkFailed, MarkPendingRetry, MessageRow, MessageStatus, Sent
<1>10. ASSUME worker[p].msg = m, RecordSent(p)
       PROVE  Cost(p, m)' <= Cost(p, m)
  <2>1. PICK identified \in BOOLEAN :
          /\ Update(m, MarkSent(row, identified)) \/ UNCHANGED messages
          /\ EndJob(p) \/ Recalculate(p, "pop")
    BY <1>10 DEF RecordSent
  <2>2. messages'[m] \in {row, MarkSent(row, identified)}
    BY <1>2, <2>1 DEF Update
  <2>3. worker'[p] = Idle \/ (worker'[p].pc = "count" /\ worker'[p].next = "pop")
    BY <1>4, <2>1, HandlerFields
  <2>4. InHand(p, m)' = 0 /\ InHand(p, m) \in Nat
    BY <1>5, <2>3 DEF InHand, Underway
  <2>5. Flag(MarkSent(row, identified).next_retry_at) = 0
    BY <1>9 DEF Flag
  <2> HIDE DEF a, row
  <2>6. QED BY <1>8, <1>9, <2>2, <2>4, <2>5
<1>11. ASSUME worker[p].msg = m, RecordFailure(p)
       PROVE  Cost(p, m)' <= Cost(p, m)
  <2>1. messages'[m] \in {row, MarkFailed(row)}
    BY <1>2, <1>11 DEF RecordFailure, Update
  <2>2. worker'[p].pc = "count" /\ worker'[p].next = "pop"
    BY <1>4, <1>11, HandlerFields DEF RecordFailure
  <2>3. InHand(p, m)' = 0 /\ InHand(p, m) \in Nat
    BY <2>2 DEF InHand, Underway
  <2>4. Flag(MarkFailed(row).next_retry_at) = 0
    BY <1>9 DEF Flag
  <2> HIDE DEF a, row
  <2>5. QED BY <1>8, <1>9, <2>1, <2>3, <2>4
<1>12. ASSUME worker[p].msg = m, RecordRetry(p)
       PROVE  Cost(p, m)' <= Cost(p, m)
  <2>1. messages'[m] \in {row, MarkPendingRetry(row)}
    BY <1>2, <1>12 DEF RecordRetry, Update
  <2>2. worker'[p].pc = "count" /\ worker'[p].next = "scheduleRetry" /\ worker'[p].msg = m
    BY <1>4, <1>12, HandlerFields DEF RecordRetry
  <2>3. InHand(p, m)' = 1 /\ InHand(p, m) = 2
    BY <1>12, <2>2 DEF InHand, Underway, RecordRetry, At
  <2>4. Flag(MarkPendingRetry(row).next_retry_at) \in {0, 1}
    BY DEF Flag
  <2> HIDE DEF a, row
  <2>5. QED BY <1>8, <1>9, <2>1, <2>3, <2>4
<1>13. QED BY <1>6, <1>7, <1>10, <1>11, <1>12

\* A retry goes from the handler to a timer and from there to the queue.
LEMMA TimerPays ==
  ASSUME TypeOK, [Next]_vars, NEW p \in Procs, NEW m \in Messages,
         \/ ScheduleRetry(p)
         \/ \E n \in Messages : TimerFires(p, n) \/ TimerCancelled(p, n)
  PROVE  /\ InHand(p, m)' + Copies(queue', m) + timers'[p][m]
              <= InHand(p, m) + Copies(queue, m) + timers[p][m]
         /\ UNCHANGED <<messages, swept>>
<1>1. UNCHANGED <<messages, swept>>
  BY DEF ScheduleRetry, TimerFires, TimerCancelled, storeVars
<1>2. /\ timers \in [Procs -> [Messages -> Nat]] /\ timers[p][m] \in Nat
      /\ InHand(p, m) \in Nat /\ Copies(queue, m) \in Nat /\ Copies(queue', m) \in Nat
      /\ queue \in Seq(Messages) /\ Idle.pc = "pop"
  BY DueParts DEF TypeOK, WorkerTypeOK, Idle
<1>3. CASE ScheduleRetry(p)
  <2>1. /\ worker[p].pc = "scheduleRetry" /\ worker[p].msg \in Messages /\ worker'[p] = Idle
        /\ timers' = [timers EXCEPT ![p][worker[p].msg] = @ + 1] /\ UNCHANGED queue
    BY <1>3, HandlerFields DEF ScheduleRetry, At, queueVars
  <2>2. timers'[p][m] = timers[p][m] + (IF worker[p].msg = m THEN 1 ELSE 0)
    BY <1>2, <2>1
  <2>3. InHand(p, m)' = 0 /\ InHand(p, m) = IF worker[p].msg = m THEN 1 ELSE 0
    BY <1>2, <2>1 DEF InHand
  <2>4. QED BY <1>1, <1>2, <2>1, <2>2, <2>3
<1>4. ASSUME NEW n \in Messages, TimerFires(p, n) \/ TimerCancelled(p, n)
      PROVE  InHand(p, m)' + Copies(queue', m) + timers'[p][m]
               <= InHand(p, m) + Copies(queue, m) + timers[p][m]
  <2>1. /\ StopTimer(p, n) /\ UNCHANGED worker
        /\ queue' \in {queue, Append(queue, n)}
    BY <1>4 DEF TimerFires, TimerCancelled, Requeue, queueVars
  <2>2. InHand(p, m)' = InHand(p, m)
    BY <2>1 DEF InHand, Underway
  <2>3. timers'[p][m] = timers[p][m] - (IF n = m THEN 1 ELSE 0)
    BY <1>2, <2>1 DEF StopTimer
  <2>4. Copies(queue', m) <= Copies(queue, m) + (IF n = m THEN 1 ELSE 0)
    <3>1. CASE queue' = queue
      BY <1>2, <3>1
    <3>2. CASE queue' = Append(queue, n)
      BY <1>2, <3>2, CopiesAppend
    <3>3. QED BY <2>1, <3>1, <3>2
  <2>5. QED BY <1>2, <2>2, <2>3, <2>4
<1>5. QED BY <1>1, <1>3, <1>4

\* A retry goes from the table to the sweeper and from there to the queue.
LEMMA SweepPays ==
  ASSUME TypeOK, [Next]_vars, NEW p \in Procs, NEW m \in Messages,
         ClaimDueRetryJobs(p) \/ \E n \in Messages : QueueClaimed(p, n)
  PROVE  /\ messages'[m].attempt_count = messages[m].attempt_count
         /\ Copies(queue', m) + Flag(m \in swept'[p]) + Flag(messages'[m].next_retry_at)
              <= Copies(queue, m) + Flag(m \in swept[p]) + Flag(messages[m].next_retry_at)
         /\ UNCHANGED <<worker, timers>>
<1>1. UNCHANGED <<worker, timers>>
  BY DEF ClaimDueRetryJobs, QueueClaimed
<1>2. /\ messages \in [Messages -> MessageRow] /\ messages[m] \in MessageRow
      /\ swept \in [Procs -> SUBSET Messages]
      /\ Copies(queue, m) \in Nat /\ Copies(queue', m) \in Nat /\ queue \in Seq(Messages)
  BY DueParts DEF TypeOK, StoreTypeOK, WorkerTypeOK
<1>3. CASE ClaimDueRetryJobs(p)
  <2>1. PICK due \in SUBSET {n \in Messages : RetryClaimable(n)} :
          /\ messages' = [n \in Messages |->
                            IF n \in due THEN [messages[n] EXCEPT !.next_retry_at = FALSE]
                            ELSE messages[n]]
          /\ swept' = [swept EXCEPT ![p] = due] \/ UNCHANGED swept
          /\ swept[p] = {} /\ UNCHANGED queue
    BY <1>3 DEF ClaimDueRetryJobs
  <2>2. swept'[p] = due \/ swept'[p] = {}
    BY <1>2, <2>1
  <2>3. CASE m \in due
    <3>1. messages[m].next_retry_at
      BY <2>3 DEF RetryClaimable
    <3>2. messages'[m] = [messages[m] EXCEPT !.next_retry_at = FALSE]
      BY <2>1, <2>3
    <3>3. /\ messages'[m].next_retry_at = FALSE
          /\ messages'[m].attempt_count = messages[m].attempt_count
      BY <1>2, <3>2 DEF MessageRow
    <3>4. Flag(m \in swept'[p]) <= 1 /\ Flag(messages'[m].next_retry_at) = 0
          /\ Flag(m \in swept[p]) = 0 /\ Flag(messages[m].next_retry_at) = 1
          /\ Flag(m \in swept'[p]) \in {0, 1}
      BY <2>1, <3>1, <3>3 DEF Flag
    <3>5. Copies(queue', m) = Copies(queue, m)
      BY <2>1
    <3>6. QED BY <1>1, <1>2, <3>3, <3>4, <3>5
  <2>4. CASE m \notin due
    <3>1. messages'[m] = messages[m] /\ m \notin swept'[p] /\ m \notin swept[p]
      BY <2>1, <2>2, <2>4
    <3>2. QED BY <1>1, <1>2, <2>1, <3>1 DEF Flag
  <2>5. QED BY <2>3, <2>4
<1>4. ASSUME NEW n \in Messages, QueueClaimed(p, n)
      PROVE  /\ messages'[m].attempt_count = messages[m].attempt_count
             /\ Copies(queue', m) + Flag(m \in swept'[p]) + Flag(messages'[m].next_retry_at)
                  <= Copies(queue, m) + Flag(m \in swept[p]) + Flag(messages[m].next_retry_at)
  <2>1. /\ n \in swept[p] /\ swept' = [swept EXCEPT ![p] = @ \ {n}] /\ UNCHANGED messages
        /\ queue' \in {queue, Append(queue, n)}
    BY <1>4 DEF QueueClaimed, Requeue, storeVars
  <2>2. Flag(m \in swept[p]) = Flag(m \in swept'[p]) + (IF n = m THEN 1 ELSE 0)
        /\ Flag(m \in swept'[p]) \in {0, 1}
    BY <1>2, <2>1 DEF Flag
  <2>3. Copies(queue', m) <= Copies(queue, m) + (IF n = m THEN 1 ELSE 0)
    <3>1. CASE queue' = queue
      BY <1>2, <3>1
    <3>2. CASE queue' = Append(queue, n)
      BY <1>2, <3>2, CopiesAppend
    <3>3. QED BY <2>1, <3>1, <3>2
  <2>4. QED BY <1>2, <2>1, <2>2, <2>3 DEF Flag
<1>5. QED BY <1>1, <1>3, <1>4

\* No step of a worker makes more due than there was.
LEMMA WorkerPays ==
  ASSUME TypeOK, [Next]_vars, AttemptsRead, NEW p \in Procs, NEW m \in Messages, WorkerStep(p)
  PROVE  Due(p, m)' <= Due(p, m)
<1> DEFINE a == messages[m].attempt_count
<1>1. /\ a \in Nat /\ a' \in Nat
      /\ Copies(queue, m) \in Nat /\ Copies(queue', m) \in Nat
      /\ timers[p][m] \in Nat /\ timers'[p][m] \in Nat
      /\ InHand(p, m) \in Nat /\ InHand(p, m)' \in Nat
  BY DueParts
<1>2. ToCome(a) \in Nat /\ ToCome(a') \in Nat /\ \A b : Flag(b) \in {0, 1}
  BY <1>1, AttemptPrice DEF Flag
<1>3. ToCome(a)' = ToCome(a')
  BY DEF ToCome
<1> HIDE DEF a
<1>4. CASE \/ GetMessage(p) \/ GetCampaign(p) \/ ReadFails(p) \/ CountForRecalculation(p)
           \/ ApplyRecalculation(p) \/ RecalculationFails(p) \/ WaitForCadence(p)
           \/ SendText(p)
  <2>1. InHand(p, m)' <= InHand(p, m) /\ UNCHANGED <<messages, queue, timers, swept>>
    BY <1>4, HandlerPays
  <2>2. QED BY <1>1, <1>2, <2>1 DEF Due, Jobs, a
<1>5. CASE Pop(p) \/ PopLost(p) \/ RequeuePaused(p)
  <2>1. /\ InHand(p, m)' + Copies(queue', m) <= InHand(p, m) + Copies(queue, m)
        /\ UNCHANGED <<messages, timers, swept>>
    BY <1>5, QueuePays
  <2>2. QED BY <1>1, <1>2, <2>1 DEF Due, Jobs, a
<1>6. CASE BeginAttempt(p) \/ RecordSent(p) \/ RecordRetry(p) \/ RecordFailure(p)
  <2>1. Cost(p, m)' <= Cost(p, m) /\ UNCHANGED <<queue, timers, swept>>
    BY <1>6, RowPays
  <2>2. QED BY <1>1, <1>2, <1>3, <2>1 DEF Due, Jobs, Cost, a
<1>7. CASE \/ ScheduleRetry(p)
           \/ \E n \in Messages : TimerFires(p, n) \/ TimerCancelled(p, n)
  <2>1. /\ InHand(p, m)' + Copies(queue', m) + timers'[p][m]
             <= InHand(p, m) + Copies(queue, m) + timers[p][m]
        /\ UNCHANGED <<messages, swept>>
    BY <1>7, TimerPays
  <2>2. QED BY <1>1, <1>2, <2>1 DEF Due, Jobs, a
<1>8. CASE ClaimDueRetryJobs(p) \/ \E n \in Messages : QueueClaimed(p, n)
  <2>1. /\ messages'[m].attempt_count = a
        /\ Copies(queue', m) + Flag(m \in swept'[p]) + Flag(messages'[m].next_retry_at)
             <= Copies(queue, m) + Flag(m \in swept[p]) + Flag(messages[m].next_retry_at)
        /\ UNCHANGED <<worker, timers>>
    BY <1>8, SweepPays DEF a
  <2>2. InHand(p, m)' = InHand(p, m)
    BY <2>1 DEF InHand, Underway
  <2>3. QED BY <1>1, <1>2, <2>1, <2>2 DEF Due, Jobs, a
<1>9. CASE PopTimesOut(p)
  <2>1. UNCHANGED <<messages, queue, worker, timers, swept>>
    BY <1>9 DEF PopTimesOut, dispatchVars, storeVars, queueVars, workerVars
  <2>2. InHand(p, m)' = InHand(p, m)
    BY <2>1 DEF InHand, Underway
  <2>3. QED BY <1>1, <1>2, <2>1, <2>2 DEF Due, Jobs, a
<1>10. QED BY <1>4, <1>5, <1>6, <1>7, <1>8, <1>9 DEF WorkerStep, HandleJob

------------------------------------------------------------------------------
(* What a process reads of the attempts *)

\* Until the attempt begins the handler goes by the count it read at the top of the job.
LEMMA ReadEntered ==
  ASSUME TypeOK, NEW p \in Procs, WorkerStep(p),
         worker'[p].pc \in {"getCampaign", "requeue", "markProcessing"}
  PROVE  /\ worker[p].msg \in Messages /\ worker'[p].msg = worker[p].msg
         /\ UNCHANGED messages \/ ClaimDueRetryJobs(p)
         /\ \/ worker'[p].attempt = messages[worker[p].msg].attempt_count
            \/ /\ worker[p].pc \in {"getCampaign", "requeue", "markProcessing"}
               /\ worker'[p].attempt = worker[p].attempt
<1>1. worker \in [Procs -> {Idle} \union Handling] /\ Idle.pc = "pop"
  BY DEF TypeOK, WorkerTypeOK, Idle
<1>2. worker'[p] # Idle
  BY <1>1
<1>3. CASE worker'[p] = worker[p] /\ (UNCHANGED messages \/ ClaimDueRetryJobs(p))
  <2>1. worker[p].pc # "pop"
    BY <1>3
  <2>2. QED BY <1>3, <2>1, HandlerFields
<1>4. CASE GetMessage(p)
  <2>1. worker[p] \in Handling
    BY <1>1, <1>4 DEF GetMessage, At
  <2>2. /\ worker'[p].attempt = messages[worker[p].msg].attempt_count
        /\ worker'[p].msg = worker[p].msg
    BY <1>1, <1>2, <1>4, <2>1 DEF GetMessage, EndJob, Handling
  <2>3. worker[p].msg \in Messages
    BY <2>1 DEF Handling
  <2>4. QED BY <1>4, <2>2, <2>3 DEF GetMessage, storeVars
<1>5. CASE GetCampaign(p)
  BY <1>2, <1>5, HandlerFields DEF GetCampaign, At, storeVars
<1>6. ASSUME \/ Pop(p) \/ ReadFails(p) \/ RequeuePaused(p) \/ BeginAttempt(p)
             \/ CountForRecalculation(p) \/ ApplyRecalculation(p) \/ RecalculationFails(p)
             \/ WaitForCadence(p) \/ SendText(p) \/ RecordSent(p) \/ RecordRetry(p)
             \/ RecordFailure(p) \/ ScheduleRetry(p)
      PROVE  FALSE
  <2>1. CASE Pop(p)
    BY <1>1, <2>1 DEF Pop
  <2>2. CASE SendText(p)
    <3>1. PICK pc \in {"markSent", "markRetry", "markFailed"} : Goto(p, pc)
      BY <2>2 DEF SendText
    <3>2. QED BY <2>2, <3>1, HandlerFields DEF SendText, At
  <2>3. CASE CountForRecalculation(p)
    <3>1. worker[p] \in Handling
      BY <1>1, <2>3 DEF CountForRecalculation, At
    <3>2. QED BY <1>1, <2>3, <3>1 DEF CountForRecalculation, Handling
  <2>4. CASE \/ ReadFails(p) \/ RequeuePaused(p) \/ BeginAttempt(p) \/ ApplyRecalculation(p)
             \/ RecalculationFails(p) \/ WaitForCadence(p) \/ RecordSent(p) \/ RecordRetry(p)
             \/ RecordFailure(p) \/ ScheduleRetry(p)
    BY <1>2, <2>4, HandlerFields
    DEF ReadFails, RequeuePaused, BeginAttempt, ApplyRecalculation, RecalculationFails,
        WaitForCadence, RecordSent, RecordRetry, RecordFailure, ScheduleRetry, At
  <2>5. QED BY <1>6, <2>1, <2>2, <2>3, <2>4
<1>7. CASE PopLost(p) \/ PopTimesOut(p) \/ ClaimDueRetryJobs(p)
  BY <1>3, <1>7
  DEF PopLost, PopTimesOut, ClaimDueRetryJobs, dispatchVars, storeVars, workerVars
<1>8. CASE \E m \in Messages : TimerFires(p, m) \/ TimerCancelled(p, m) \/ QueueClaimed(p, m)
  BY <1>3, <1>8 DEF TimerFires, TimerCancelled, QueueClaimed, storeVars
<1>9. QED BY <1>4, <1>5, <1>6, <1>7, <1>8 DEF WorkerStep, HandleJob

\* With one process nobody else counts an attempt of the message in hand.
LEMMA AttemptsReadStep ==
  ASSUME OneProcess, TypeOK, AttemptsRead, [Next]_vars
  PROVE  AttemptsRead'
<1> SUFFICES ASSUME NEW p \in Procs
             PROVE  /\ worker'[p].pc \in {"getCampaign", "requeue", "markProcessing"} =>
                         messages'[worker'[p].msg].attempt_count = worker'[p].attempt
                    /\ Underway(p)' =>
                         messages'[worker'[p].msg].attempt_count = worker'[p].attempt + 1
  BY DEF AttemptsRead
<1> DEFINE m == worker[p].msg
<1>1. \A q \in Procs : q = p
  BY DEF OneProcess
<1>2. ASSUME worker[p].pc # "pop", ~(Worker(p) /\ BeginAttempt(p))
      PROVE  messages'[m].attempt_count = messages[m].attempt_count
  BY <1>1, <1>2, AttemptChanges, HandlerFields
<1>3. ASSUME ~Worker(p), worker'[p] # Idle
      PROVE  /\ worker'[p] = worker[p]
             /\ worker[p].pc # "pop" => messages'[m].attempt_count = messages[m].attempt_count
  BY <1>2, <1>3, WorkerElsewhere
<1>4. ASSUME worker'[p].pc \in {"getCampaign", "requeue", "markProcessing"}
      PROVE  messages'[worker'[p].msg].attempt_count = worker'[p].attempt
  <2>1. CASE ~Worker(p)
    <3>1. worker'[p] # Idle
      BY <1>4 DEF Idle
    <3>2. QED BY <1>3, <1>4, <2>1, <3>1 DEF AttemptsRead
  <2>2. CASE Worker(p)
    <3>1. /\ m \in Messages /\ worker'[p].msg = m
          /\ UNCHANGED messages \/ ClaimDueRetryJobs(p)
          /\ \/ worker'[p].attempt = messages[m].attempt_count
             \/ /\ worker[p].pc \in {"getCampaign", "requeue", "markProcessing"}
                /\ worker'[p].attempt = worker[p].attempt
      BY <1>4, <2>2, ReadEntered DEF Worker
    <3>2. worker'[p].attempt = messages[m].attempt_count
      BY <3>1 DEF AttemptsRead
    <3>3. messages'[m].attempt_count = messages[m].attempt_count
      BY <3>1, SweepPays
    <3>4. QED BY <3>1, <3>2, <3>3
  <2>3. QED BY <2>1, <2>2
<1>5. ASSUME Underway(p)'
      PROVE  messages'[worker'[p].msg].attempt_count = worker'[p].attempt + 1
  <2>1. CASE ~Worker(p)
    <3>1. worker'[p] # Idle
      BY <1>5 DEF Underway, Idle
    <3>2. worker'[p] = worker[p] /\ Underway(p) /\ worker[p].pc # "pop"
      BY <1>3, <1>5, <2>1, <3>1 DEF Underway
    <3>3. QED BY <1>3, <2>1, <3>1, <3>2 DEF AttemptsRead
  <2>2. CASE Worker(p)
    <3>1. /\ m \in Messages /\ worker'[p].msg = m /\ worker'[p].attempt = worker[p].attempt
          /\ \/ Underway(p)
             \/ /\ BeginAttempt(p)
                /\ messages'[m].attempt_count = messages[m].attempt_count + 1
      BY <1>5, <2>2, UnderwayEntered DEF Worker
    <3>2. CASE Underway(p)
      <4>1. worker[p].pc # "pop" /\ ~BeginAttempt(p)
        BY <3>2 DEF Underway, BeginAttempt, At
      <4>2. QED BY <1>2, <3>1, <3>2, <4>1 DEF AttemptsRead
    <3>3. CASE /\ BeginAttempt(p)
               /\ messages'[m].attempt_count = messages[m].attempt_count + 1
      <4>1. messages[m].attempt_count = worker[p].attempt
        BY <3>3 DEF AttemptsRead, BeginAttempt, At
      <4>2. QED BY <3>1, <3>3, <4>1
    <3>4. QED BY <3>1, <3>2, <3>3
  <2>3. QED BY <2>1, <2>2
<1>6. QED BY <1>4, <1>5

------------------------------------------------------------------------------
(* What is still to be published *)

\* A request publishes the jobs of a campaign it has just stored.
LEMMA PublishEntered ==
  ASSUME TypeOK, [Next]_vars, NEW k \in Clients, request'[k].pc = "publish"
  PROVE  \/ request'[k] = request[k]
         \/ /\ InsertCampaign(k)
            /\ request'[k].camp = request[k].camp /\ request[k].camp \in Campaigns
            /\ request[k].camp \notin stored /\ request[k].mode = "now"
            /\ UpdateCampaign(request[k].camp, NewCampaign(request[k].camp, request[k].mode))
<1>1. request \in [Clients -> {NoRequest} \union RequestState] /\ NoRequest.pc = "idle"
  BY DEF TypeOK, ServiceTypeOK, NoRequest
<1>2. ASSUME NEW j \in Clients, Client(j), j # k
      PROVE  request'[k] = request[k]
  BY <1>1, <1>2
  DEF Client, ClientStep, CreateLooksUp, RescheduleReads, CancelReads, PauseReads,
      ResumeReads, Begin, InsertCampaign, PublishCreated, UpdateSchedule, CancelCampaign,
      PauseCampaign, ResumeCampaign, CountResumed, ApplyResumed, EndRequest, Then
<1>3. ASSUME NEW pc, Then(k, pc), request[k].pc # "idle"
      PROVE  request'[k].pc = pc /\ request'[k].camp = request[k].camp
  <2>1. request[k] \in RequestState
    BY <1>1, <1>3
  <2>2. request'[k] = [request[k] EXCEPT !.pc = pc]
    BY <1>1, <1>3 DEF Then
  <2>3. QED BY <2>1, <2>2 DEF RequestState
<1>4. ~EndRequest(k)
  BY <1>1 DEF EndRequest
<1>5. CASE InsertCampaign(k)
  <2>1. request[k].pc = "insert"
    BY <1>5 DEF InsertCampaign, Doing
  <2>2. request[k] \in RequestState
    BY <1>1, <2>1
  <2>3. request[k].camp \in Campaigns
    BY <2>2 DEF RequestState
  <2>4. /\ request[k].camp \notin stored /\ request[k].mode = "now" /\ Then(k, "publish")
        /\ UpdateCampaign(request[k].camp, NewCampaign(request[k].camp, request[k].mode))
    BY <1>4, <1>5 DEF InsertCampaign
  <2>5. QED BY <1>3, <1>5, <2>1, <2>3, <2>4
<1>6. CASE ClientStep(k) /\ ~InsertCampaign(k)
  <2>1. ASSUME NEW kind, NEW c, NEW mode, NEW pc, Begin(k, kind, c, mode, pc), pc # "publish"
        PROVE  FALSE
    BY <1>1, <2>1 DEF Begin
  <2>2. CASE CountResumed(k)
    <3>1. request[k] \in RequestState
      BY <1>1, <2>2 DEF CountResumed, Doing
    <3>2. request'[k].pc = "apply"
      BY <1>1, <2>2, <3>1 DEF CountResumed, RequestState
    <3>3. QED BY <3>2
  <2>3. CASE ResumeCampaign(k)
    <3>1. Then(k, "count") /\ request[k].pc = "resume"
      BY <1>4, <2>3 DEF ResumeCampaign, Doing
    <3>2. QED BY <1>3, <3>1
  <2>4. QED
    BY <1>4, <1>6, <2>1, <2>2, <2>3
    DEF ClientStep, CreateLooksUp, RescheduleReads, CancelReads, PauseReads, ResumeReads,
        PublishCreated, UpdateSchedule, CancelCampaign, PauseCampaign, ApplyResumed
<1>7. CASE ~(\E j \in Clients : Client(j))
  <2>1. request'[k] = request[k] \/ request'[k] = NoRequest
    BY <1>7
    DEF Next, Worker, Scheduler, SchedulerStep, ClaimDueScheduled, PublishReleased,
        RevertRelease, Tracker, Stop, StopScheduler, Exit, Crash, Start, PushAgain,
        ServiceLost, vars, serviceVars
  <2>2. QED BY <1>1, <2>1
<1>8. QED BY <1>2, <1>5, <1>6, <1>7 DEF Client

\* So no two requests publish the jobs of one campaign: it is stored once.
LEMMA OnePublisherStep ==
  ASSUME TypeOK, RequestsStored, OnePublisher, [Next]_vars
  PROVE  OnePublisher'
<1> SUFFICES ASSUME NEW j \in Clients, NEW k \in Clients,
                    request'[j].pc = "publish", request'[k].pc = "publish",
                    request'[j].camp = request'[k].camp
             PROVE  j = k
  BY DEF OnePublisher
<1>1. ASSUME NEW i \in Clients, request'[i] = request[i], request'[i].pc = "publish"
      PROVE  request[i].camp \in stored
  BY <1>1 DEF RequestsStored
<1>2. CASE request'[j] = request[j] /\ request'[k] = request[k]
  BY <1>2 DEF OnePublisher
<1>3. CASE request'[j] # request[j] /\ request'[k] = request[k]
  BY <1>1, <1>3, PublishEntered
<1>4. CASE request'[j] = request[j] /\ request'[k] # request[k]
  BY <1>1, <1>4, PublishEntered
<1>5. CASE request'[j] # request[j] /\ request'[k] # request[k]
  <2>1. InsertCampaign(j)
    BY <1>5, PublishEntered
  <2>2. j # k => request'[k] = request[k]
    BY <2>1 DEF InsertCampaign, Then, EndRequest, TypeOK, ServiceTypeOK
  <2>3. QED BY <1>5, <2>2
<1>6. QED BY <1>2, <1>3, <1>4, <1>5

\* The publication of a stored campaign by its request is not announced again.
LEMMA PublishingShrinks ==
  ASSUME TypeOK, [Next]_vars, NEW c \in stored, Publishing(c)'
  PROVE  \E k \in Clients : /\ request[k].pc = "publish" /\ request[k].camp = c
                            /\ request'[k] = request[k]
<1>1. PICK k \in Clients : request'[k].pc = "publish" /\ request'[k].camp = c
  BY DEF Publishing
<1>2. QED BY <1>1, PublishEntered

\* A campaign that is not set back to be sent at once is granted no less than before.
LEMMA GrantedKept ==
  ASSUME TypeOK, [Next]_vars, NEW c,
         campaigns[c].send_mode = "now" \/ campaigns'[c].send_mode # "now"
  PROVE  Granted(c) <= Granted(c)' /\ Granted(c) \in Nat /\ Granted(c)' \in Nat
<1>1. faults \in Nat /\ faults' \in Nat /\ faults <= faults'
  BY QueueAssumption, FaultsMove DEF Fault, TypeOK, QueueTypeOK
<1>2. PICK g \in {1, 2}, h \in {1, 2} : /\ g <= h
                                       /\ Granted(c) = g + faults /\ Granted(c)' = h + faults'
  <2>1. CASE campaigns[c].send_mode = "now"
    <3>1. Granted(c) = 1 + faults
      BY <2>1 DEF Granted
    <3>2. Granted(c)' = 1 + faults' \/ Granted(c)' = 2 + faults'
      BY DEF Granted
    <3>3. QED BY <3>1, <3>2
  <2>2. CASE campaigns'[c].send_mode # "now" /\ campaigns[c].send_mode # "now"
    BY <2>2 DEF Granted
  <2>3. QED BY <2>1, <2>2
<1>3. \A a, b \in {1, 2}, x, y \in Nat :
        a <= b /\ x <= y => a + x <= b + y /\ a + x \in Nat /\ b + y \in Nat
  OBVIOUS
<1>4. QED BY <1>1, <1>2, <1>3

\* Whatever the statement on its row, a stored campaign owes no publication it did not owe,
\* or has just been granted one by a reschedule.
LEMMA OwedKept ==
  ASSUME TypeOK, [Next]_vars, NEW p \in Procs, NEW c \in stored, UNCHANGED release,
         phase[p] = "stoppingScheduler"
           => phase'[p] = "stoppingScheduler" \/ release[p] = NoRelease
  PROVE  /\ Flag(ToRelease(p, c)') + Granted(c) <= Flag(ToRelease(p, c)) + Granted(c)'
         /\ Owed(p, c)' + Granted(c) <= Owed(p, c) + Granted(c)'
<1>1. c \in Campaigns /\ campaigns[c] \in CampaignRow
  BY DEF TypeOK, StoreTypeOK
<1>2. faults \in Nat /\ faults' \in Nat /\ faults <= faults'
  BY QueueAssumption, FaultsMove DEF Fault, TypeOK, QueueTypeOK
<1>3. \/ /\ campaigns'[c].send_mode = campaigns[c].send_mode
         /\ campaigns'[c].released_at = campaigns[c].released_at
      \/ /\ ~campaigns[c].released_at /\ campaigns[c].send_mode \in {"now", "scheduled"}
         /\ campaigns'[c].send_mode = "scheduled"
  <2>1. ASSUME NEW n, campaigns'[c] = Recalculated(c, n)
        PROVE  /\ campaigns'[c].send_mode = campaigns[c].send_mode
               /\ campaigns'[c].released_at = campaigns[c].released_at
    BY <1>1, <2>1 DEF Recalculated, CampaignRow
  <2>2. CASE \/ campaigns'[c] = PausedSet(campaigns[c], TRUE)
             \/ campaigns'[c] = PausedSet(campaigns[c], FALSE)
    BY <1>1, <2>2 DEF PausedSet, CampaignRow
  <2>3. CASE \/ Reschedulable(campaigns[c]) /\ campaigns'[c] = Rescheduled(campaigns[c])
             \/ Reschedulable(campaigns[c]) /\ campaigns'[c] = Cancelled(campaigns[c])
             \/ DueForRelease(campaigns[c]) /\ campaigns'[c] = Released(campaigns[c])
    BY <1>1, <2>3
    DEF Reschedulable, Rescheduled, Cancelled, DueForRelease, Released, CampaignRow
  <2>4. ASSUME NEW q \in Procs, c \in release[q].revert, release'[q] = NoRelease
        PROVE  FALSE
    BY <2>4 DEF NoRelease
  <2>5. CASE campaigns'[c] = campaigns[c]
    BY <2>5
  <2>6. c \in Campaigns => CampaignChange(c)
    BY CampaignChanges
  <2>7. QED BY <1>1, <2>1, <2>2, <2>3, <2>4, <2>5, <2>6 DEF CampaignChange
<1>4. ToRelease(p, c)' =>
        \/ ToRelease(p, c) /\ campaigns'[c].send_mode = campaigns[c].send_mode
        \/ campaigns[c].send_mode = "now" /\ campaigns'[c].send_mode = "scheduled"
  <2>1. release[p].revert # {} => release[p] # NoRelease
    BY DEF NoRelease
  <2>2. QED BY <1>3, <2>1 DEF ToRelease
<1>5. Granted(c) <= Granted(c)' /\ Granted(c) \in Nat /\ Granted(c)' \in Nat
  BY <1>3, GrantedKept
<1>6. Flag(ToRelease(p, c)') + Granted(c) <= Flag(ToRelease(p, c)) + Granted(c)'
  <2>1. CASE ~ToRelease(p, c)'
    BY <1>5, <2>1 DEF Flag
  <2>2. CASE ToRelease(p, c)
    BY <1>5, <2>2 DEF Flag
  <2>3. CASE campaigns[c].send_mode = "now" /\ campaigns'[c].send_mode = "scheduled"
    <3>1. Granted(c) = 1 + faults /\ Granted(c)' = 2 + faults'
      BY <2>3 DEF Granted
    <3>2. Flag(ToRelease(p, c)') \in {0, 1} /\ Flag(ToRelease(p, c)) \in {0, 1}
      BY DEF Flag
    <3>3. \A f, g \in {0, 1}, x, y \in Nat : x <= y => f + (1 + x) <= g + (2 + y)
      OBVIOUS
    <3>4. QED BY <1>2, <3>1, <3>2, <3>3
  <2>4. QED BY <1>4, <2>1, <2>2, <2>3
<1>7. Flag(Publishing(c)') <= Flag(Publishing(c))
  BY PublishingShrinks DEF Publishing, Flag
<1>8. Owed(p, c)' = Flag(Publishing(c)') + Flag(ToRelease(p, c)')
  BY DEF Owed, Flag
<1>9. \A b : Flag(b) \in {0, 1}
  BY DEF Flag
<1>10. QED BY <1>5, <1>6, <1>7, <1>8, <1>9 DEF Owed

\* What is due, and what is still to be published, are natural numbers.
LEMMA DueType ==
  ASSUME TypeOK, [Next]_vars, NEW p \in Procs, NEW m \in Messages
  PROVE  /\ Due(p, m) \in Nat /\ Due(p, m)' \in Nat
         /\ \A c : Owed(p, c) \in Nat /\ Owed(p, c)' \in Nat
         /\ \A c : Granted(c) \in Nat /\ Granted(c)' \in Nat
<1>1. \A b : Flag(b) \in {0, 1}
  BY DEF Flag
<1>2. \A c : Owed(p, c) \in Nat /\ Owed(p, c)' \in Nat
  BY DEF Owed, Flag
<1>3. /\ messages[m].attempt_count \in Nat /\ ToCome(messages[m].attempt_count) \in Nat
      /\ messages'[m].attempt_count \in Nat /\ ToCome(messages'[m].attempt_count) \in Nat
  BY DueParts, AttemptPrice
<1>4. \A a, b, c, d, e, f, g \in Nat : a + b + (c + d + e + f + g) \in Nat
  OBVIOUS
<1>5. Due(p, m) \in Nat
  <2>1. Flag(m \in swept[p]) \in Nat /\ Flag(messages[m].next_retry_at) \in Nat
    BY <1>1
  <2>2. QED BY <1>3, <1>4, <2>1, DueParts DEF Due, Jobs
<1>6. Due(p, m)' \in Nat
  <2>1. Due(p, m)' = messages'[m].attempt_count + ToCome(messages'[m].attempt_count)
                       + (Copies(queue', m) + InHand(p, m)' + timers'[p][m]
                            + Flag(m \in swept'[p]) + Flag(messages'[m].next_retry_at))
    BY DEF Due, Jobs, ToCome, Flag, Copies, Places
  <2>2. Flag(m \in swept'[p]) \in Nat /\ Flag(messages'[m].next_retry_at) \in Nat
    BY <1>1
  <2>3. Copies(queue', m) \in Nat /\ InHand(p, m)' \in Nat /\ timers'[p][m] \in Nat
    BY DueParts
  <2>4. messages'[m].attempt_count + ToCome(messages'[m].attempt_count)
          + (Copies(queue', m) + InHand(p, m)' + timers'[p][m]
               + Flag(m \in swept'[p]) + Flag(messages'[m].next_retry_at)) \in Nat
    BY <1>3, <1>4, <2>2, <2>3
  <2>5. QED BY <2>1, <2>4
<1>7. \A c : Granted(c) \in Nat /\ Granted(c)' \in Nat
  <2>1. faults \in Nat /\ faults' \in Nat
    BY DueParts
  <2>2. \A x : x \in Nat => 1 + x \in Nat /\ 2 + x \in Nat
    OBVIOUS
  <2>3. QED BY <2>1, <2>2 DEF Granted
<1>8. QED BY <1>2, <1>5, <1>6, <1>7

\* A step that leaves the jobs and the attempts of a message alone leaves due what was due.
LEMMA DueUnmoved ==
  ASSUME NEW p \in Procs, NEW m \in Messages, UNCHANGED <<queue, worker, timers, swept>>,
         messages'[m].attempt_count = messages[m].attempt_count,
         messages'[m].next_retry_at = messages[m].next_retry_at
  PROVE  Due(p, m)' = Due(p, m)
<1>1. InHand(p, m)' = InHand(p, m)
  BY DEF InHand, Underway
<1>2. QED BY <1>1 DEF Due, Jobs, ToCome, Copies, Places, Flag

\* A message stays paid for by a step that makes due no more than it grants.
LEMMA PaidShift ==
  ASSUME TypeOK, [Next]_vars, NEW p \in Procs, NEW m \in Messages, Paid(p, m),
         Due(p, m)' + Owed(p, CampaignOf[m])' + Granted(CampaignOf[m])
           <= Due(p, m) + Owed(p, CampaignOf[m]) + Granted(CampaignOf[m])'
  PROVE  Paid(p, m)'
<1> DEFINE c == CampaignOf[m]
<1>1. Granted(c) \in Nat /\ Granted(c)' \in Nat
  BY DueType
<1>2. Due(p, m) \in Nat /\ Due(p, m)' \in Nat /\ Owed(p, c) \in Nat /\ Owed(p, c)' \in Nat
  BY DueType
<1>3. Retried \in Nat
  BY WorkerAssumption DEF Retried
<1>4. Due(p, m) + Owed(p, c) <= 2 * Retried + Granted(c)
  BY DEF Paid
<1>5. \A d, e, o, q, g, h, r \in Nat :
        e + q + g <= d + o + h /\ d + o <= 2 * r + g => e + q <= 2 * r + h
  OBVIOUS
<1>6. Due(p, m)' + Owed(p, c)' <= 2 * Retried + Granted(c)'
  BY <1>1, <1>2, <1>3, <1>4, <1>5
<1>7. QED BY <1>6 DEF Paid, Retried

\* A step that neither publishes the campaign nor makes more due keeps a message paid for.
LEMMA PaidKept ==
  ASSUME TypeOK, [Next]_vars, NEW p \in Procs, NEW m \in Messages, CampaignOf[m] \in stored,
         UNCHANGED release,
         phase[p] = "stoppingScheduler"
           => phase'[p] = "stoppingScheduler" \/ release[p] = NoRelease,
         Due(p, m)' <= Due(p, m), Paid(p, m)
  PROVE  Paid(p, m)'
<1> DEFINE c == CampaignOf[m]
<1>1. Owed(p, c)' + Granted(c) <= Owed(p, c) + Granted(c)'
  BY OwedKept
<1>2. /\ Due(p, m) \in Nat /\ Due(p, m)' \in Nat /\ Owed(p, c) \in Nat /\ Owed(p, c)' \in Nat
      /\ Granted(c) \in Nat /\ Granted(c)' \in Nat
  BY DueType
<1>3. \A d, e, o, q, g, h \in Nat :
        e <= d /\ q + g <= o + h => e + q + g <= d + o + h
  OBVIOUS
<1>4. QED BY <1>1, <1>2, <1>3, PaidShift

\* The worker and the webhooks publish nothing: what a message is paid for still covers it.
LEMMA WorkerKeepsPaid ==
  ASSUME TypeOK, [Next]_vars, AttemptsRead, NEW p \in Procs,
         Worker(p) \/ \E t \in Trackers : Tracker(t),
         NEW m \in Messages, CampaignOf[m] \in stored, Paid(p, m)
  PROVE  Paid(p, m)'
<1>1. CASE Worker(p)
  <2>1. UNCHANGED <<release, phase>>
    BY <1>1
    DEF Worker, WorkerStep, HandleJob, Pop, PopLost, PopTimesOut, GetMessage, GetCampaign,
        ReadFails, RequeuePaused, BeginAttempt, CountForRecalculation, ApplyRecalculation,
        RecalculationFails, WaitForCadence, SendText, RecordSent, RecordRetry, RecordFailure,
        ScheduleRetry, TimerFires, TimerCancelled, ClaimDueRetryJobs, QueueClaimed, queueVars,
        dispatchVars, serviceVars
  <2>2. Due(p, m)' <= Due(p, m)
    BY <1>1, WorkerPays DEF Worker
  <2>3. QED BY <2>1, <2>2, PaidKept
<1>2. ASSUME NEW t \in Trackers, Tracker(t)
      PROVE  Paid(p, m)'
  <2>1. UNCHANGED <<release, phase, queue, worker, timers, swept>>
    BY <1>2
    DEF Tracker, TrackerStep, ReceiveEvent, MarkMessage, CountTouched, ApplyTouched,
        TrackFails, queueVars, workerVars, serviceVars
  <2>2. messages \in [Messages -> MessageRow] /\ messages[m] \in MessageRow
    BY DEF TypeOK, StoreTypeOK
  <2>3. \/ messages'[m] = messages[m]
        \/ \E event : messages'[m] = Marked(messages[m], event)
    <3>1. ASSUME NEW n \in Messages, MarkMessage(t, n)
          PROVE  \/ messages'[m] = messages[m]
                 \/ \E event : messages'[m] = Marked(messages[m], event)
      BY <2>2, <3>1 DEF MarkMessage
    <3>2. QED
      BY <1>2, <3>1
      DEF Tracker, TrackerStep, ReceiveEvent, CountTouched, ApplyTouched, TrackFails, storeVars
  <2>4. /\ messages'[m].attempt_count = messages[m].attempt_count
        /\ messages'[m].next_retry_at = messages[m].next_retry_at
    BY <2>2, <2>3 DEF Marked, MarkRead, MarkDelivered, MessageRow
  <2>5. Due(p, m)' <= Due(p, m)
    BY <2>1, <2>4, DueUnmoved, DueType
  <2>6. QED BY <2>1, <2>5, PaidKept
<1>3. QED BY <1>1, <1>2

\* A shutdown leaves everything as it is; a process that ends takes jobs with it, and the
\* release it held with its publications.
LEMMA ProcessKeepsPaid ==
  ASSUME TypeOK, [Next]_vars, NEW p \in Procs, NEW m \in Messages, CampaignOf[m] \in stored,
         Paid(p, m),
         \/ Stop(p) \/ StopScheduler(p) \/ Exit(p) \/ Crash(p) \/ Start(p)
         \/ UNCHANGED vars
  PROVE  Paid(p, m)'
<1>1. CASE Stop(p) \/ StopScheduler(p) \/ Exit(p) \/ Start(p) \/ UNCHANGED vars
  <2>1. UNCHANGED <<release, queue, worker, timers, swept, messages>>
    BY <1>1
    DEF Stop, StopScheduler, Exit, Start, workerVars, serviceVars, storeVars, vars,
        dispatchVars, queueVars
  <2>2. phase[p] = "stoppingScheduler"
          => phase'[p] = "stoppingScheduler" \/ release[p] = NoRelease
    BY <1>1
    DEF Stop, StopScheduler, Exit, Start, Enter, SchedulerStopped, vars, dispatchVars,
        queueVars
  <2>3. Due(p, m)' <= Due(p, m)
    BY <2>1, DueUnmoved, DueType
  <2>4. QED BY <2>1, <2>2, <2>3, PaidKept
<1>2. CASE Crash(p)
  <2>1. /\ worker'[p] = Idle /\ timers'[p] = NoTimers /\ swept'[p] = {}
        /\ release'[p] = NoRelease /\ UNCHANGED <<storeVars, queue>>
        /\ \A k \in Clients : request'[k] \in {request[k], NoRequest}
        /\ faults' = faults + 1
    BY <1>2
    DEF Crash, WorkerLost, ServiceLost, Fault, TypeOK, WorkerTypeOK, ServiceTypeOK
  <2>2. Due(p, m)' <= Due(p, m)
    <3>1. InHand(p, m)' = 0
      BY <2>1 DEF InHand, Idle
    <3>2. Due(p, m)' = messages[m].attempt_count + ToCome(messages[m].attempt_count)
                         + (Copies(queue, m) + 0 + 0 + 0 + Flag(messages[m].next_retry_at))
      BY <2>1, <3>1 DEF Due, Jobs, ToCome, Copies, Places, Flag, NoTimers, storeVars
    <3>3. \A f : Flag(f) \in {0, 1}
      BY DEF Flag
    <3>4. \A a, b, d, e, f, g, h \in Nat :
            a + b + (d + 0 + 0 + 0 + h) <= a + b + (d + e + f + g + h)
      OBVIOUS
    <3>5. /\ messages[m].attempt_count \in Nat /\ ToCome(messages[m].attempt_count) \in Nat
      BY DueParts, AttemptPrice
    <3>6. Flag(m \in swept[p]) \in Nat /\ Flag(messages[m].next_retry_at) \in Nat
      BY <3>3
    <3>7. QED BY <3>2, <3>4, <3>5, <3>6, DueParts DEF Due, Jobs
  <2>3. Owed(p, CampaignOf[m])' <= Owed(p, CampaignOf[m])
    <3>1. Publishing(CampaignOf[m])' => Publishing(CampaignOf[m])
      BY <2>1 DEF Publishing, NoRequest
    <3>2. ToRelease(p, CampaignOf[m])' => ToRelease(p, CampaignOf[m])
      BY <2>1 DEF ToRelease, NoRelease, storeVars
    <3>3. Owed(p, CampaignOf[m])'
            = Flag(Publishing(CampaignOf[m])') + Flag(ToRelease(p, CampaignOf[m])')
      BY DEF Owed, Flag
    <3>4. QED BY <3>1, <3>2, <3>3 DEF Owed, Flag
  <2>4. Granted(CampaignOf[m]) <= Granted(CampaignOf[m])'
    BY <2>1, GrantedKept DEF storeVars
  <2>5. \A d, e, o, q, g, h \in Nat : e <= d /\ q <= o /\ g <= h => e + q + g <= d + o + h
    OBVIOUS
  <2>6. Due(p, m)' + Owed(p, CampaignOf[m])' + Granted(CampaignOf[m])
          <= Due(p, m) + Owed(p, CampaignOf[m]) + Granted(CampaignOf[m])'
    BY <2>2, <2>3, <2>4, <2>5, DueType
  <2>7. QED BY <2>6, PaidShift
<1>3. QED BY <1>1, <1>2

\* A publication adds one job of each of its messages, and none of the others.
LEMMA DuePublished ==
  ASSUME TypeOK, [Next]_vars, NEW p \in Procs, NEW m \in Messages,
         UNCHANGED <<messages, worker, timers, swept>>,
         NEW S \in SUBSET Messages, NEW jobs \in Orderings(S), Publish(jobs) \/ UNCHANGED queue
  PROVE  /\ Due(p, m)' <= Due(p, m) + 1
         /\ m \notin S => Due(p, m)' <= Due(p, m)
<1>1. InHand(p, m)' = InHand(p, m)
  BY DEF InHand, Underway
<1>2. Copies(queue, m) \in Nat /\ queue \in Seq(Messages)
  BY DueParts
<1>3. PICK n \in {0, 1} : /\ Copies(queue', m) = Copies(queue, m) + n
                          /\ m \notin S => n = 0
  <2>1. CASE UNCHANGED queue
    BY <1>2, <2>1
  <2>2. CASE Publish(jobs)
    BY <1>2, <2>2, CopiesPublished DEF Publish
  <2>3. QED BY <2>1, <2>2
<1>4. Due(p, m)' = messages[m].attempt_count + ToCome(messages[m].attempt_count)
                     + ((Copies(queue, m) + n) + InHand(p, m) + timers[p][m]
                          + Flag(m \in swept[p]) + Flag(messages[m].next_retry_at))
  BY <1>1, <1>3 DEF Due, Jobs, ToCome, Copies, Places, Flag
<1>5. \A f : Flag(f) \in {0, 1}
  BY DEF Flag
<1>6. /\ messages[m].attempt_count \in Nat /\ ToCome(messages[m].attempt_count) \in Nat
  BY DueParts, AttemptPrice
<1>7. Flag(m \in swept[p]) \in Nat /\ Flag(messages[m].next_retry_at) \in Nat
  BY <1>5
<1>8. \A a, b, d, e, f, g, h, x \in Nat :
        /\ a + b + ((d + x) + e + f + g + h) = (a + b + (d + e + f + g + h)) + x
        /\ a + b + (d + e + f + g + h) \in Nat
  OBVIOUS
<1>9. /\ n \in Nat /\ Copies(queue, m) \in Nat /\ InHand(p, m) \in Nat /\ timers[p][m] \in Nat
  BY <1>3, DueParts
<1>10. Due(p, m)' = Due(p, m) + n
  BY <1>4, <1>6, <1>7, <1>8, <1>9 DEF Due, Jobs
<1>11. Due(p, m) \in Nat
  BY DueType
<1>12. QED BY <1>3, <1>10, <1>11

\* The request that publishes the jobs of a campaign it stored was counted on.
LEMMA ClientKeepsPaid ==
  ASSUME TypeOK, [Next]_vars, RequestsStored, OnePublisher, NEW k \in Clients, Client(k),
         NEW p \in Procs, NEW m \in Messages, CampaignOf[m] \in stored, Paid(p, m)
  PROVE  Paid(p, m)'
<1> DEFINE c == CampaignOf[m]
<1>1. UNCHANGED <<messages, worker, timers, swept, phase, release>>
  BY DEF Client, ClientStep, CreateLooksUp, RescheduleReads, CancelReads, PauseReads,
         ResumeReads, Begin, InsertCampaign, PublishCreated, UpdateSchedule, CancelCampaign,
         PauseCampaign, ResumeCampaign, CountResumed, ApplyResumed, storeVars, queueVars,
         workerVars
<1>2. CASE PublishCreated(k)
  <2>1. /\ request[k].pc = "publish" /\ request[k].camp \in stored
        /\ UNCHANGED campaigns /\ request'[k] = NoRequest
        /\ \A j \in Clients : j # k => request'[j] = request[j]
    BY <1>2
    DEF PublishCreated, Doing, RequestsStored, EndRequest, storeVars, TypeOK, ServiceTypeOK
  <2>2. PICK jobs \in Orderings(MessagesOf(request[k].camp)) : Publish(jobs) \/ UNCHANGED queue
    BY <1>2 DEF PublishCreated
  <2>3. /\ MessagesOf(request[k].camp) \in SUBSET Messages
        /\ m \in MessagesOf(request[k].camp) <=> c = request[k].camp
    BY DEF MessagesOf
  <2>4. /\ Due(p, m)' <= Due(p, m) + 1
        /\ c # request[k].camp => Due(p, m)' <= Due(p, m)
    BY <1>1, <2>2, <2>3, DuePublished
  <2>5. CASE c # request[k].camp
    BY <1>1, <2>4, <2>5, PaidKept
  <2>6. CASE c = request[k].camp
    <3>1. Publishing(c) /\ ~Publishing(c)'
      BY <2>1, <2>6 DEF Publishing, OnePublisher, NoRequest
    <3>2. ToRelease(p, c)' <=> ToRelease(p, c)
      BY <1>1, <2>1 DEF ToRelease
    <3>3. Owed(p, c)' + 1 <= Owed(p, c)
      <4>1. Owed(p, c)' = Flag(Publishing(c)') + Flag(ToRelease(p, c)')
        BY DEF Owed, Flag
      <4>2. QED BY <3>1, <3>2, <4>1 DEF Owed, Flag
    <3>4. Granted(c) <= Granted(c)'
      BY <2>1, GrantedKept
    <3>5. \A d, e, o, q, g, h \in Nat :
            e <= d + 1 /\ q + 1 <= o /\ g <= h => e + q + g <= d + o + h
      OBVIOUS
    <3>6. Due(p, m)' + Owed(p, c)' + Granted(c) <= Due(p, m) + Owed(p, c) + Granted(c)'
      BY <2>4, <3>3, <3>4, <3>5, DueType
    <3>7. QED BY <3>6, PaidShift
  <2>7. QED BY <2>5, <2>6
<1>3. CASE ~PublishCreated(k)
  <2>1. UNCHANGED queue
    BY <1>3
    DEF Client, ClientStep, CreateLooksUp, RescheduleReads, CancelReads, PauseReads,
        ResumeReads, Begin, InsertCampaign, UpdateSchedule, CancelCampaign, PauseCampaign,
        ResumeCampaign, CountResumed, ApplyResumed, queueVars
  <2>2. Due(p, m)' <= Due(p, m)
    BY <1>1, <2>1, DueUnmoved, DueType
  <2>3. QED BY <1>1, <2>2, PaidKept
<1>4. QED BY <1>2, <1>3

\* A campaign is stored with no attempt made and no job about, and owes at most the
\* publication of its request and that of its release.
LEMMA NewlyPaid ==
  ASSUME TypeOK, [Next]_vars, JobsAreStored, NEW p \in Procs, NEW m \in Messages,
         CampaignOf[m] \in stored', CampaignOf[m] \notin stored
  PROVE  Paid(p, m)'
<1> DEFINE c == CampaignOf[m]
<1>1. PICK k \in Clients :
        /\ Client(k) /\ InsertCampaign(k) /\ request[k].camp = c
        /\ UpdateCampaign(c, NewCampaign(c, request[k].mode))
  BY StoredChanges
<1>2. UNCHANGED <<messages, worker, timers, swept, queue>>
  BY <1>1 DEF Client, InsertCampaign, workerVars
<1>3. messages[m] = NewMessage /\ ~HasJob(m)
  BY DEF JobsAreStored
<1>4. Due(p, m) = ToCome(0)
  <2>1. Copies(queue, m) = 0
    BY <1>3, DueParts, CopiesType DEF HasJob
  <2>2. InHand(p, m) = 0
    BY <1>3 DEF HasJob, InHand, Idle
  <2>3. timers[p][m] = 0 /\ m \notin swept[p]
    BY <1>3, DueParts DEF HasJob
  <2>4. messages[m].attempt_count = 0 /\ messages[m].next_retry_at = FALSE
    BY <1>3 DEF NewMessage
  <2>5. Due(p, m) = 0 + ToCome(0) + (0 + 0 + 0 + 0 + 0)
    BY <2>1, <2>2, <2>3, <2>4 DEF Due, Jobs, Flag
  <2>6. ToCome(0) \in Nat
    BY AttemptPrice
  <2>7. QED BY <2>5, <2>6
<1>5. Due(p, m)' <= 2 * Retried
  <2>1. Due(p, m)' = Due(p, m)
    BY <1>2, DueUnmoved
  <2>2. ToCome(0) <= 2 * Retried
    BY WorkerAssumption DEF ToCome, Retried
  <2>3. QED BY <1>4, <2>1, <2>2
<1>6. Owed(p, c)' <= Granted(c)'
  <2>1. campaigns'[c] = NewCampaign(c, request[k].mode) /\ c \in Campaigns
    BY <1>1, StoreAssumption DEF UpdateCampaign, TypeOK, StoreTypeOK
  <2>2. campaigns'[c].send_mode = request[k].mode
    BY <2>1 DEF NewCampaign
  <2>3. Owed(p, c)' = Flag(Publishing(c)') + Flag(ToRelease(p, c)')
    BY DEF Owed, Flag
  <2>4. CASE request[k].mode = "now"
    <3>1. ~ToRelease(p, c)' /\ Granted(c)' = 1 + faults' /\ faults' \in Nat
      BY <2>2, <2>4, DueParts DEF ToRelease, Granted
    <3>2. Flag(Publishing(c)') \in {0, 1} /\ Flag(ToRelease(p, c)') = 0
      BY <3>1 DEF Flag
    <3>3. \A f \in {0, 1}, y \in Nat : f + 0 <= 1 + y
      OBVIOUS
    <3>4. QED BY <2>3, <3>1, <3>2, <3>3
  <2>5. CASE request[k].mode # "now"
    <3>1. Granted(c)' = 2 + faults' /\ faults' \in Nat
      BY <2>2, <2>5, DueParts DEF Granted
    <3>2. Flag(Publishing(c)') \in {0, 1} /\ Flag(ToRelease(p, c)') \in {0, 1}
      BY DEF Flag
    <3>3. \A f \in {0, 1}, g \in {0, 1}, y \in Nat : f + g <= 2 + y
      OBVIOUS
    <3>4. QED BY <2>3, <3>1, <3>2, <3>3
  <2>6. QED BY <2>4, <2>5
<1>7. Due(p, m)' + Owed(p, c)' <= 2 * Retried + Granted(c)'
  <2>1. \A d, o, r, g \in Nat : d <= 2 * r /\ o <= g => d + o <= 2 * r + g
    OBVIOUS
  <2>2. Retried \in Nat
    BY WorkerAssumption DEF Retried
  <2>3. QED BY <1>5, <1>6, <2>1, <2>2, DueType
<1>8. QED BY <1>7 DEF Paid, Retried

\* What the scheduler publishes was owed, or is paid by the failure that lets the campaign
\* be released again.
LEMMA SchedulerKeepsPaid ==
  ASSUME TypeOK, [Next]_vars, PlanInv, NEW p \in Procs, Scheduler(p), NEW m \in Messages,
         CampaignOf[m] \in stored, Paid(p, m)
  PROVE  Paid(p, m)'
<1> DEFINE c == CampaignOf[m]
<1>1. /\ UNCHANGED <<messages, worker, timers, swept, phase, request>>
      /\ release \in [Procs -> [todo : SUBSET Campaigns, revert : SUBSET Campaigns]]
      /\ c \in Campaigns /\ campaigns[c] \in CampaignRow
  BY StoreAssumption
  DEF Scheduler, SchedulerStep, ClaimDueScheduled, PublishReleased, RevertRelease, storeVars,
      workerVars, TypeOK, ServiceTypeOK, StoreTypeOK
<1>2. Publishing(c)' <=> Publishing(c)
  BY <1>1 DEF Publishing
<1>3. /\ Owed(p, c) = Flag(Publishing(c)) + Flag(ToRelease(p, c))
      /\ Owed(p, c)' = Flag(Publishing(c)) + Flag(ToRelease(p, c)')
      /\ \A f : Flag(f) \in {0, 1}
  BY <1>2 DEF Owed, Flag
<1>4. faults \in Nat
  BY DueParts
<1>5. ASSUME campaigns'[c].send_mode = campaigns[c].send_mode
      PROVE  Granted(c) <= Granted(c)'
  BY <1>5, GrantedKept
<1>6. ASSUME campaigns'[c].send_mode = campaigns[c].send_mode,
             \/ Due(p, m)' <= Due(p, m) /\ (ToRelease(p, c)' => ToRelease(p, c))
             \/ Due(p, m)' <= Due(p, m) + 1 /\ ToRelease(p, c) /\ ~ToRelease(p, c)'
             \/ Due(p, m)' <= Due(p, m) + 1 /\ ToRelease(p, c) /\ Granted(c)' = Granted(c) + 1
      PROVE  Paid(p, m)'
  <2>1. Granted(c) <= Granted(c)'
    BY <1>5, <1>6
  <2>2. \/ Due(p, m)' <= Due(p, m) /\ Owed(p, c)' <= Owed(p, c)
        \/ Due(p, m)' <= Due(p, m) + 1 /\ Owed(p, c)' + 1 <= Owed(p, c)
        \/ /\ Due(p, m)' <= Due(p, m) + 1 /\ Owed(p, c)' <= Owed(p, c)
           /\ Granted(c)' = Granted(c) + 1
    BY <1>3, <1>6 DEF Flag
  <2>3. \A d, e, o, q, g, h \in Nat :
          /\ g <= h
          /\ \/ e <= d /\ q <= o
             \/ e <= d + 1 /\ q + 1 <= o
             \/ e <= d + 1 /\ q <= o /\ h = g + 1
          => e + q + g <= d + o + h
    OBVIOUS
  <2>4. Due(p, m)' + Owed(p, c)' + Granted(c) <= Due(p, m) + Owed(p, c) + Granted(c)'
    BY <2>1, <2>2, <2>3, DueType
  <2>5. QED BY <2>4, PaidShift
<1>7. CASE ClaimDueScheduled(p)
  <2>1. PICK due \in SUBSET {d \in stored : DueForRelease(campaigns[d])} :
          /\ campaigns' = [d \in Campaigns |-> IF d \in due THEN Released(campaigns[d])
                                              ELSE campaigns[d]]
          /\ release' = [release EXCEPT ![p].todo = due] \/ UNCHANGED release
          /\ release[p] = NoRelease /\ UNCHANGED queue
    BY <1>7 DEF ClaimDueScheduled
  <2>2. Due(p, m)' <= Due(p, m)
    BY <1>1, <2>1, DueUnmoved, DueType
  <2>3. CASE c \in due
    <3>1. campaigns'[c].send_mode = campaigns[c].send_mode
      BY <1>1, <2>1, <2>3 DEF Released, CampaignRow
    <3>2. ToRelease(p, c)
      BY <2>1, <2>3 DEF ToRelease, DueForRelease
    <3>3. QED BY <1>6, <2>2, <3>1, <3>2
  <2>4. CASE c \notin due
    <3>1. campaigns'[c] = campaigns[c]
      BY <1>1, <2>1, <2>4
    <3>2. release'[p].todo \subseteq due /\ release'[p].revert = {}
      BY <1>1, <2>1 DEF NoRelease
    <3>3. ToRelease(p, c)' => ToRelease(p, c)
      BY <2>4, <3>1, <3>2 DEF ToRelease
    <3>4. QED BY <1>6, <2>2, <3>1, <3>3
  <2>5. QED BY <2>3, <2>4
<1>8. ASSUME NEW d \in Campaigns, PublishReleased(p, d)
      PROVE  Paid(p, m)'
  <2>1. PICK jobs \in Orderings(MessagesOf(d)) :
          \/ /\ SchedulerSucceeds(p)
             /\ Publish(jobs)
             /\ release' = [release EXCEPT ![p].todo = @ \ {d}]
          \/ /\ SchedulerFails(p)
             /\ Publish(jobs) \/ UNCHANGED queue
             /\ release' = [release EXCEPT ![p] = [todo |-> {}, revert |-> {d}]]
    BY <1>8 DEF PublishReleased
  <2>2. d \in release[p].todo /\ UNCHANGED campaigns
    BY <1>8 DEF PublishReleased, storeVars
  <2>3. /\ Due(p, m)' <= Due(p, m) + 1
        /\ c # d => Due(p, m)' <= Due(p, m)
    <3>1. MessagesOf(d) \in SUBSET Messages /\ (m \in MessagesOf(d) <=> c = d)
      BY DEF MessagesOf
    <3>2. QED BY <1>1, <1>8, <2>1, <3>1, DuePublished
  <2>4. CASE c # d
    <3>1. /\ release'[p].todo \subseteq release[p].todo
          /\ c \in release'[p].revert => c \in release[p].revert
      BY <1>1, <2>1, <2>4
    <3>2. ToRelease(p, c)' => ToRelease(p, c)
      BY <1>1, <2>2, <3>1 DEF ToRelease
    <3>3. QED BY <1>6, <2>2, <2>3, <2>4, <3>2
  <2>5. CASE c = d
    <3>1. campaigns[c].send_mode = "scheduled" /\ campaigns[c].released_at
      BY <2>2, <2>5 DEF PlanInv, ReleasesHeld, Releasing
    <3>2. ToRelease(p, c)
      BY <2>2, <2>5, <3>1 DEF ToRelease
    <3>3. CASE SchedulerSucceeds(p) /\ release' = [release EXCEPT ![p].todo = @ \ {d}]
      <4>1. release[p].revert = {}
        <5>1. ASSUME NEW e, release[p] = [todo |-> {}, revert |-> {e}]
              PROVE  FALSE
          BY <2>2, <5>1
        <5>2. QED BY <5>1 DEF PlanInv, OneReverted
      <4>2. c \notin release'[p].todo /\ release'[p].revert = {}
        BY <1>1, <2>5, <3>3, <4>1
      <4>3. ~ToRelease(p, c)'
        BY <2>2, <3>1, <4>2 DEF ToRelease
      <4>4. QED BY <1>6, <2>2, <2>3, <3>2, <4>3
    <3>4. CASE /\ phase[p] = "stoppingScheduler"
               /\ release' = [release EXCEPT ![p] = [todo |-> {}, revert |-> {d}]]
      <4>1. ~ToRelease(p, c)'
        BY <1>1, <2>2, <3>1, <3>4 DEF ToRelease
      <4>2. QED BY <1>6, <2>2, <2>3, <3>2, <4>1
    <3>5. CASE faults' = faults + 1
      <4>1. Granted(c) = 2 + faults /\ Granted(c)' = 2 + (faults + 1)
        BY <2>2, <3>1, <3>5 DEF Granted
      <4>2. \A x \in Nat : 2 + (x + 1) = (2 + x) + 1
        OBVIOUS
      <4>3. Granted(c)' = Granted(c) + 1
        BY <1>4, <4>1, <4>2
      <4>4. QED BY <1>6, <2>2, <2>3, <3>2, <4>3
    <3>6. QED BY <2>1, <3>3, <3>4, <3>5 DEF SchedulerFails, Fault
  <2>6. QED BY <2>4, <2>5
<1>9. ASSUME NEW d \in Campaigns, RevertRelease(p, d)
      PROVE  Paid(p, m)'
  <2>1. /\ d \in release[p].revert /\ release'[p] = NoRelease /\ UNCHANGED queue
        /\ \/ SchedulerSucceeds(p) /\ campaigns' = [campaigns EXCEPT ![d] = ReleaseReverted(@)]
           \/ SchedulerFails(p) /\ UNCHANGED campaigns
    BY <1>1, <1>9 DEF RevertRelease, UpdateCampaign
  <2>2. Due(p, m)' <= Due(p, m)
    BY <1>1, <2>1, DueUnmoved, DueType
  <2>3. ToRelease(p, c)' => ~campaigns'[c].released_at /\ campaigns'[c].send_mode = "scheduled"
    BY <2>1 DEF ToRelease, NoRelease
  <2>4. CASE campaigns'[c] = campaigns[c]
    <3>1. ToRelease(p, c)' => ToRelease(p, c)
      BY <2>3, <2>4 DEF ToRelease
    <3>2. QED BY <1>6, <2>2, <2>4, <3>1
  <2>5. CASE c = d /\ SchedulerSucceeds(p) /\ campaigns'[c] = ReleaseReverted(campaigns[c])
    <3>1. campaigns'[c].send_mode = campaigns[c].send_mode
      BY <1>1, <2>5 DEF ReleaseReverted, CampaignRow
    <3>2. campaigns[c].send_mode = "scheduled"
      BY <2>1, <2>5 DEF PlanInv, ReleasesHeld, Releasing
    <3>3. ToRelease(p, c)
      BY <2>1, <2>5, <3>2 DEF ToRelease, SchedulerSucceeds
    <3>4. QED BY <1>6, <2>2, <3>1, <3>3
  <2>6. c # d => campaigns'[c] = campaigns[c]
    BY <1>1, <2>1 DEF TypeOK, StoreTypeOK
  <2>7. QED BY <1>1, <2>1, <2>4, <2>5, <2>6 DEF TypeOK, StoreTypeOK
<1>10. QED BY <1>7, <1>8, <1>9 DEF Scheduler, SchedulerStep

\* A command sent again adds a job of a message at most, and is a failure that grants one.
LEMMA PushAgainKeepsPaid ==
  ASSUME TypeOK, [Next]_vars, PushAgain, NEW p \in Procs, NEW m \in Messages, Paid(p, m)
  PROVE  Paid(p, m)'
<1> DEFINE c == CampaignOf[m]
<1>1. /\ UNCHANGED <<campaigns, messages, worker, timers, swept, phase, request, release>>
      /\ faults' = faults + 1
  BY PushedJobs DEF Fault, storeVars, workerVars, serviceVars
<1>2. PICK S \in SUBSET Messages : \E jobs \in Orderings(S) : Publish(jobs)
  BY PushedJobs DEF Publish
<1>3. Due(p, m)' <= Due(p, m) + 1
  BY <1>1, <1>2, DuePublished
<1>4. Owed(p, c)' = Owed(p, c)
  BY <1>1 DEF Owed, Publishing, ToRelease, Flag
<1>5. Granted(c)' = Granted(c) + 1
  <2>1. PICK g \in {1, 2} : Granted(c) = g + faults /\ Granted(c)' = g + (faults + 1)
    BY <1>1 DEF Granted
  <2>2. \A a \in {1, 2}, x \in Nat : a + (x + 1) = (a + x) + 1
    OBVIOUS
  <2>3. QED BY <2>1, <2>2, DueParts
<1>6. \A d, e, o, g \in Nat : e <= d + 1 => e + o + g <= d + o + (g + 1)
  OBVIOUS
<1>7. Due(p, m)' + Owed(p, c)' + Granted(c) <= Due(p, m) + Owed(p, c) + Granted(c)'
  BY <1>3, <1>4, <1>5, <1>6, DueType
<1>8. QED BY <1>7, PaidShift

\* With one process every step leaves the messages of every stored campaign paid for.
LEMMA AttemptInvStep ==
  ASSUME OneProcess, TypeOK, PlanInv, JobsAreStored, AttemptInv, [Next]_vars
  PROVE  AttemptInv'
<1>1. AttemptsRead'
  BY AttemptsReadStep DEF AttemptInv
<1>2. OnePublisher'
  BY OnePublisherStep DEF AttemptInv, PlanInv
<1>3. ASSUME NEW p \in Procs, NEW m \in Messages, CampaignOf[m] \in stored'
      PROVE  Paid(p, m)'
  <2>1. CASE CampaignOf[m] \notin stored
    BY <1>3, <2>1, NewlyPaid
  <2>2. CASE CampaignOf[m] \in stored
    <3>1. Paid(p, m) /\ AttemptsRead /\ OnePublisher /\ RequestsStored
      BY <2>2 DEF AttemptInv, AllPaid, PlanInv
    <3>2. CASE \E q \in Procs : Worker(q) \/ Scheduler(q) \/ Stop(q) \/ StopScheduler(q)
                                  \/ Exit(q) \/ Crash(q) \/ Start(q)
      <4>1. PICK q \in Procs : Worker(q) \/ Scheduler(q) \/ Stop(q) \/ StopScheduler(q)
                                 \/ Exit(q) \/ Crash(q) \/ Start(q)
        BY <3>2
      <4>2. q = p
        BY DEF OneProcess
      <4>3. QED
        BY <2>2, <3>1, <4>1, <4>2, WorkerKeepsPaid, SchedulerKeepsPaid, ProcessKeepsPaid
    <3>3. CASE \E k \in Clients : Client(k)
      BY <2>2, <3>1, <3>3, ClientKeepsPaid
    <3>4. CASE \E t \in Trackers : Tracker(t)
      BY <2>2, <3>1, <3>4, WorkerKeepsPaid
    <3>5. CASE UNCHANGED vars
      BY <2>2, <3>1, <3>5, ProcessKeepsPaid
    <3>6. CASE PushAgain
      BY <3>1, <3>6, PushAgainKeepsPaid
    <3>7. QED BY <3>2, <3>3, <3>4, <3>5, <3>6 DEF Next
  <2>3. QED BY <2>1, <2>2
<1>4. AllPaid'
  BY <1>3 DEF AllPaid
<1>5. QED BY <1>1, <1>2, <1>4 DEF AttemptInv

\* Each message of a campaign that exists already has one job, and nothing else to come.
LEMMA InitAttempt == Init => AttemptInv
<1> SUFFICES ASSUME Init PROVE AttemptInv
  OBVIOUS
<1>1. \A p \in Procs : worker[p] = Idle /\ worker[p].pc = "pop"
  BY DEF Init, WorkerInit, Idle
<1>2. AttemptsRead
  BY <1>1 DEF AttemptsRead, Underway
<1>3. \A k \in Clients : request[k].pc = "idle"
  BY DEF Init, ServiceInit, NoRequest
<1>4. OnePublisher
  BY <1>3 DEF OnePublisher
<1>5. ASSUME NEW p \in Procs, NEW m \in Messages, CampaignOf[m] \in stored
      PROVE  Paid(p, m)
  <2>1. /\ messages[m].attempt_count = 0 /\ messages[m].next_retry_at = FALSE
        /\ timers[p][m] = 0 /\ m \notin swept[p]
    BY DEF Init, WorkerInit, NewMessage, NoTimers
  <2>2. campaigns[CampaignOf[m]].send_mode = "now"
    BY StoreAssumption DEF Init, NewCampaign
  <2>3. Owed(p, CampaignOf[m]) = 0 /\ Granted(CampaignOf[m]) = 1
    BY <1>3, <2>2 DEF Init, Owed, Publishing, ToRelease, Flag, Granted
  <2>4. Copies(queue, m) = 1
    <3> DEFINE S == {n \in Messages : CampaignOf[n] \in Existing}
    <3>1. PICK jobs \in Orderings(S) : queue = jobs
      BY DEF Init
    <3>2. queue \in Seq(Messages)
      BY InitTypes DEF TypeOK, QueueTypeOK
    <3>3. << >> \in Seq(Messages) /\ << >> \o queue = queue
      BY <3>2, ConcatEmptySeq
    <3>4. Copies(<< >>, m) = 0
      <4>1. Places(<< >>, m) = {}
        BY DEF Places
      <4>2. QED BY <4>1, FS_EmptySet DEF Copies
    <3>5. m \in S /\ S \in SUBSET Messages
      BY <1>5 DEF Init
    <3> HIDE DEF S
    <3>6. Copies(<< >> \o jobs, m) = Copies(<< >>, m) + 1
      BY <3>3, <3>5, CopiesPublished
    <3>7. QED BY <3>1, <3>3, <3>4, <3>6
  <2>5. InHand(p, m) = 0
    BY <1>1 DEF InHand
  <2>6. Due(p, m) = 0 + ToCome(0) + (1 + 0 + 0 + 0 + 0)
    BY <2>1, <2>4, <2>5 DEF Due, Jobs, Flag
  <2>7. ToCome(0) \in Nat /\ Retried \in Nat /\ ToCome(0) <= 2 * Retried
    BY WorkerAssumption DEF ToCome, Retried
  <2>8. QED BY <2>3, <2>6, <2>7 DEF Paid
<1>6. QED BY <1>2, <1>4, <1>5 DEF AttemptInv, AllPaid

\* Without a process nothing is attempted.
NothingAttempted ==
  Procs = {} => \A m \in Messages : messages[m].attempt_count = 0

\* What is due, or granted, is never negative: the attempts made are at most what the jobs
\* allow.
LEMMA AttemptsPaid ==
  ASSUME TypeOK, JobsAreStored, AttemptInv, NothingAttempted
  PROVE  AttemptsWithinJobs
<1> SUFFICES ASSUME NEW m \in Messages
             PROVE  messages[m].attempt_count <= 2 * Retried + Granted(CampaignOf[m])
  <2>1. faults \in Nat /\ Retried \in Nat
    BY QueueAssumption, WorkerAssumption DEF TypeOK, QueueTypeOK, Retried
  <2>2. \A r, g, x \in Nat : 2 * r + g + x = 2 * r + (g + x)
    OBVIOUS
  <2>3. QED BY <2>1, <2>2 DEF AttemptsWithinJobs, Granted
<1>1. Retried \in Nat /\ 2 * Retried \in Nat
  BY WorkerAssumption DEF Retried
<1>2. faults \in Nat
  BY QueueAssumption DEF TypeOK, QueueTypeOK
<1>3. Granted(CampaignOf[m]) \in Nat
  BY <1>2 DEF Granted
<1>4. CASE messages[m].attempt_count = 0
  BY <1>1, <1>3, <1>4
<1>5. CASE Procs # {} /\ CampaignOf[m] \in stored
  <2>1. PICK p \in Procs : Paid(p, m)
    BY <1>5 DEF AttemptInv, AllPaid
  <2>2. messages[m].attempt_count \in Nat /\ ToCome(messages[m].attempt_count) \in Nat
    BY AttemptPrice DEF TypeOK, StoreTypeOK, MessageRow
  <2>3. Jobs(p, m) \in Nat
    <3>1. /\ queue \in Seq(Messages) /\ timers \in [Procs -> [Messages -> Nat]]
      BY DEF TypeOK, QueueTypeOK, WorkerTypeOK
    <3>2. Copies(queue, m) \in Nat /\ timers[p][m] \in Nat
      BY <3>1, CopiesType
    <3>3. InHand(p, m) \in Nat
      BY DEF InHand
    <3>4. QED BY <3>2, <3>3 DEF Jobs, Flag
  <2>4. Owed(p, CampaignOf[m]) \in Nat
    BY DEF Owed, Flag
  <2>5. \A a, b, j, o, g \in Nat : a + b + j + o <= g => a <= g
    OBVIOUS
  <2>6. 2 * Retried + Granted(CampaignOf[m]) \in Nat
    BY <1>1, <1>3
  <2>7. QED BY <2>1, <2>2, <2>3, <2>4, <2>5, <2>6 DEF Paid, Due
<1>6. Procs = {} \/ CampaignOf[m] \notin stored => messages[m].attempt_count = 0
  BY DEF NothingAttempted, JobsAreStored, NewMessage
<1>7. QED BY <1>4, <1>5, <1>6

\* With one process no message is attempted more often than the jobs published for it and
\* the two each retried attempt leaves allow, whatever fails and however the timers, the
\* sweeper, the schedulers and the requests interleave.
THEOREM AttemptsTheorem == OneProcess => (Spec => []AttemptsWithinJobs)
<1> SUFFICES ASSUME OneProcess PROVE Spec => []AttemptsWithinJobs
  OBVIOUS
<1>1. TypeOK /\ PlanInv /\ JobsAreStored /\ AttemptInv /\ [Next]_vars => AttemptInv'
  BY AttemptInvStep
<1>2. Init => AttemptInv /\ NothingAttempted
  BY InitAttempt DEF Init, NewMessage, NothingAttempted
<1>3. TypeOK /\ NothingAttempted /\ [Next]_vars => NothingAttempted'
  BY AttemptChanges DEF NothingAttempted
<1>4. TypeOK /\ JobsAreStored /\ AttemptInv /\ NothingAttempted => AttemptsWithinJobs
  BY AttemptsPaid
<1>5. QED BY <1>1, <1>2, <1>3, <1>4, TypeCorrect, PlanAlways, JobsStoredTheorem, PTL DEF Spec
=============================================================================
