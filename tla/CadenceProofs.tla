---------------------------- MODULE CadenceProofs ----------------------------
(***************************************************************************)
(* The types and the two properties of Cadence, for any instances,         *)
(* settings, burst sizes and lateness.                                     *)
(***************************************************************************)
EXTENDS Cadence, TLAPS

------------------------------------------------------------------------------
(* The random choices and the configurations they come from. *)

\* Later is the greater of two numbers.
LEMMA LaterFacts ==
  ASSUME NEW a \in Int, NEW b \in Int
  PROVE  Later(a, b) \in {a, b} /\ Later(a, b) >= a /\ Later(a, b) >= b
BY DEF Later

\* A random number is not below the lower end of its range, and above the upper end
\* only when the range is upside down.
LEMMA RandomInFacts ==
  ASSUME NEW min \in Nat, NEW max \in Nat, NEW r \in RandomIn(min, max)
  PROVE  r \in Nat /\ min <= r /\ (r <= max \/ r = min)
BY DEF RandomIn

\* Neither end of the burst sizes of a configuration is above MaxBurst.
Bounded(c) == c \in Config /\ c.BurstSizeMin <= MaxBurst /\ c.BurstSizeMax <= MaxBurst

\* The default configuration is one, and bounded like the environment's.
LEMMA DefaultBounded == Bounded(Default)
<1>1. Environment \in Config /\ MaxBurst \in Nat
      /\ Environment.BurstSizeMin <= MaxBurst /\ Environment.BurstSizeMax <= MaxBurst
  BY CadenceAssumption
<1>2. \A a, b \in Nat : Later(a, b) \in Nat
  BY DEF Later
<1>3. Later(Environment.BurstSizeMin, Environment.BurstSizeMax) <= MaxBurst
  BY <1>1 DEF Later, Config
<1>4. Default \in Config
  BY <1>1, <1>2 DEF Default, Config
<1>5. /\ Default.BurstSizeMin = Environment.BurstSizeMin
      /\ Default.BurstSizeMax = Later(Environment.BurstSizeMin, Environment.BurstSizeMax)
  BY <1>1 DEF Default, Config
<1> QED BY <1>1, <1>3, <1>4, <1>5 DEF Bounded

SettingsBounded == \A i \in DOMAIN settings : Bounded(settings[i])

\* Whatever configuration an instance is paced with is bounded.
LEMMA HumanizerBounded ==
  ASSUME SettingsBounded, NEW i, NEW config \in HumanizerConfigs(i)
  PROVE  Bounded(config)
BY DefaultBounded DEF SettingsBounded, HumanizerConfigs, SettingsOf

------------------------------------------------------------------------------
(* The inductive invariant. *)

\* A lane remembers when its last send was to begin; it began at most MaxLate later.
LaneSound ==
  \A i \in Instances :
    LET last == lanes[i].lastDispatchAt
    IN  /\ last = Never <=> lastSend[i] = Never
        /\ last # Never => last <= lastSend[i] /\ lastSend[i] <= last + MaxLate

\* The wait leaves the minimum delay after the last send, or the minimum pause when it
\* starts a new burst.
WaitSound ==
  job.pc = "wait" =>
    LET lane == lanes[job.inst]
    IN  /\ now <= job.until + MaxLate
        /\ lane.burstCount = 0 \/ lane.burstCount < lane.burstGoal
        /\ lane.lastDispatchAt # Never =>
             /\ job.until >= lane.lastDispatchAt + job.config.BaseDelayMin
             /\ lane.burstCount = 0 =>
                  job.until >= lane.lastDispatchAt + job.config.BurstPauseMin

WaitingFor(i) == job.pc = "wait" /\ job.inst = i

\* The burst count of a lane is at least the streak of its sends, except while the
\* pause that ends the streak is waited for.
CountSound ==
  \A i \in Instances :
    LET lane == lanes[i]
    IN  /\ lane.burstCount <= Later(1, MaxBurst)
        /\ streak[i] <= lane.burstCount \/ (WaitingFor(i) /\ lane.burstCount = 0)
        /\ lane.burstCount = 0 => lane.lastDispatchAt = Never \/ WaitingFor(i)

CadenceInv ==
  CadenceTypeOK /\ SettingsBounded /\ LaneSound /\ WaitSound /\ CountSound /\ BurstsBounded

\* It holds initially.
LEMMA CadenceInit == Init => CadenceInv
<1> SUFFICES ASSUME Init PROVE CadenceInv
  OBVIOUS
<1> USE CadenceAssumption DEF Init
<1>1. MaxBurst \in Nat
  OBVIOUS
<1>2. settings = [i \in {} |-> Default] /\ DOMAIN settings = {}
  OBVIOUS
<1>3. settings \in [DOMAIN settings -> Config]
  BY <1>2
<1>4. CadenceTypeOK
  BY <1>1, <1>2, <1>3 DEF CadenceTypeOK, Lane, NewLane, Idle, Never
<1>5. LaneSound /\ WaitSound
  BY DEF LaneSound, WaitSound, NewLane, Idle, Never
<1>6. CountSound /\ BurstsBounded
  BY <1>1 DEF CountSound, BurstsBounded, NewLane, Later
<1> QED BY <1>2, <1>4, <1>5, <1>6 DEF CadenceInv, SettingsBounded
------------------------------------------------------------------------------
(* The steps. *)

\* Saving valid settings touches neither the lanes nor a wait.
LEMMA SaveKeeps ==
  ASSUME CadenceInv, NEW i \in Instances, NEW s \in Offered, Save(i, s)
  PROVE  CadenceInv'
<1> USE DEF CadenceInv
<1>1. Bounded(s)
  BY CadenceAssumption DEF Bounded
<1>2. /\ DOMAIN settings' \subseteq Instances
      /\ settings' \in [DOMAIN settings' -> Config]
      /\ SettingsBounded'
  BY <1>1 DEF Save, Upsert, CadenceTypeOK, SettingsBounded, Bounded
<1>3. UNCHANGED <<now, lanes, job, lastSend, streak>>
  BY DEF Save
<1>4. CadenceTypeOK'
  BY <1>2, <1>3 DEF CadenceTypeOK
<1>5. LaneSound' /\ WaitSound' /\ CountSound' /\ BurstsBounded'
  BY <1>3 DEF LaneSound, WaitSound, CountSound, BurstsBounded, WaitingFor
<1> QED BY <1>2, <1>4, <1>5

\* A decision: the wait respects the lane, and starts a new burst when the lane is full.
LEMMA DecideKeeps ==
  ASSUME CadenceInv, NEW i \in Instances, Decide(i)
  PROVE  CadenceInv'
<1> USE DEF CadenceInv
<1>1. PICK config \in HumanizerConfigs(i) :
        \E goal \in IF lanes[i].burstGoal = 0 THEN BurstSizes(config) ELSE {lanes[i].burstGoal},
           next \in BurstSizes(config),
           delay \in DelaysOf(lanes[i], config),
           pause \in RandomIn(config.BurstPauseMin, config.BurstPauseMax) :
          LET full == lanes[i].burstCount >= goal
          IN  /\ job' = [pc |-> "wait", inst |-> i, config |-> config,
                         until |-> WaitUntil(lanes[i], delay, pause, full)]
              /\ lanes' = [lanes EXCEPT
                   ![i].burstGoal = IF full THEN next ELSE goal,
                   ![i].burstCount = IF full THEN 0 ELSE @]
  BY DEF Decide
<1>2. PICK goal \in IF lanes[i].burstGoal = 0 THEN BurstSizes(config) ELSE {lanes[i].burstGoal},
           next \in BurstSizes(config),
           delay \in DelaysOf(lanes[i], config),
           pause \in RandomIn(config.BurstPauseMin, config.BurstPauseMax) :
          /\ job' = [pc |-> "wait", inst |-> i, config |-> config,
                     until |-> WaitUntil(lanes[i], delay, pause, lanes[i].burstCount >= goal)]
          /\ lanes' = [lanes EXCEPT
               ![i].burstGoal = IF lanes[i].burstCount >= goal THEN next ELSE goal,
               ![i].burstCount = IF lanes[i].burstCount >= goal THEN 0 ELSE @]
  BY <1>1
<1> DEFINE lane == lanes[i]
           full == lane.burstCount >= goal
           until == WaitUntil(lane, delay, pause, full)
<1>3. /\ now \in Nat /\ MaxBurst \in Nat /\ MaxLate \in Nat
      /\ lane \in Lane
      /\ lane.burstCount \in Nat /\ lane.burstGoal \in 0 .. MaxBurst
      /\ lane.lastDispatchAt \in {Never} \union Nat
  BY CadenceAssumption DEF CadenceTypeOK, Lane
<1>4. Bounded(config)
  BY HumanizerBounded
<1>5. /\ config \in Config
      /\ config.InitialDelayMin \in Nat /\ config.InitialDelayMax \in Nat
      /\ config.BaseDelayMin \in Nat /\ config.BaseDelayMax \in Nat
      /\ config.BurstSizeMin \in Nat /\ config.BurstSizeMax \in Nat
      /\ config.BurstPauseMin \in Nat /\ config.BurstPauseMax \in Nat
      /\ config.BurstSizeMin <= MaxBurst /\ config.BurstSizeMax <= MaxBurst
  BY <1>4 DEF Bounded, Config
<1>6. next \in 0 .. MaxBurst
  BY <1>3, <1>5, RandomInFacts DEF BurstSizes
<1>7. goal \in 0 .. MaxBurst
  <2>1. CASE lane.burstGoal = 0
    <3>1. goal \in BurstSizes(config)
      BY <2>1
    <3> QED BY <3>1, <1>3, <1>5, RandomInFacts DEF BurstSizes
  <2>2. CASE lane.burstGoal # 0
    BY <2>2, <1>3
  <2> QED BY <2>1, <2>2
<1>8. /\ delay \in Nat
      /\ lane.lastDispatchAt # Never => delay >= config.BaseDelayMin
  BY <1>5, RandomInFacts DEF DelaysOf
<1>9. pause \in Nat /\ pause >= config.BurstPauseMin
  BY <1>5, RandomInFacts
<1> HIDE DEF lane
<1>10. /\ until \in Nat
       /\ until >= now
       /\ lane.lastDispatchAt # Never => until >= lane.lastDispatchAt + delay
       /\ lane.lastDispatchAt # Never /\ full => until >= lane.lastDispatchAt + pause
  BY <1>3, <1>8, <1>9 DEF WaitUntil, Later, Never
<1>11. lanes' = [lanes EXCEPT ![i] =
          [lane EXCEPT !.burstGoal = IF full THEN next ELSE goal,
                       !.burstCount = IF full THEN 0 ELSE lane.burstCount]]
  BY <1>2 DEF CadenceTypeOK, Lane, lane
<1>12. /\ lanes'[i].lastDispatchAt = lane.lastDispatchAt
       /\ lanes'[i].burstGoal = IF full THEN next ELSE goal
       /\ lanes'[i].burstCount = IF full THEN 0 ELSE lane.burstCount
       /\ lanes'[i] \in Lane
       /\ \A k \in Instances : k # i => lanes'[k] = lanes[k]
       /\ lanes' \in [Instances -> Lane]
  BY <1>3, <1>6, <1>7, <1>11 DEF CadenceTypeOK, Lane
<1>13. job' = [pc |-> "wait", inst |-> i, config |-> config, until |-> until]
  BY <1>2 DEF lane
<1> HIDE DEF full, until
<1>14. job' \in Waiting /\ job'.pc = "wait" /\ job'.inst = i /\ job'.config = config
       /\ job'.until = until
  BY <1>5, <1>10, <1>13 DEF Waiting
<1>15. UNCHANGED <<now, settings, lastSend, streak>> /\ job = Idle
  BY DEF Decide
<1>16. CadenceTypeOK'
  BY <1>12, <1>14, <1>15 DEF CadenceTypeOK
<1>17. LaneSound'
  BY <1>12, <1>15 DEF LaneSound, lane
<1>18. \A k \in Instances : ~WaitingFor(k)
  BY <1>15 DEF WaitingFor, Idle
<1>19. lane.burstCount = 0 => lane.lastDispatchAt = Never
  BY <1>18 DEF CountSound, lane
<1>20. WaitSound'
  <2>1. now' <= job'.until + MaxLate
    BY <1>3, <1>10, <1>14, <1>15
  <2>2. lanes'[i].burstCount = 0 \/ lanes'[i].burstCount < lanes'[i].burstGoal
    BY <1>3, <1>7, <1>12 DEF full
  <2>3. ASSUME lanes'[i].lastDispatchAt # Never
        PROVE  /\ job'.until >= lanes'[i].lastDispatchAt + job'.config.BaseDelayMin
               /\ lanes'[i].burstCount = 0 =>
                    job'.until >= lanes'[i].lastDispatchAt + job'.config.BurstPauseMin
    <3>1. lane.lastDispatchAt \in Nat /\ lane.burstCount # 0
      BY <2>3, <1>3, <1>12, <1>19
    <3>2. until >= lane.lastDispatchAt + config.BaseDelayMin
      BY <3>1, <2>3, <1>5, <1>8, <1>10, <1>12
    <3>3. full => until >= lane.lastDispatchAt + config.BurstPauseMin
      BY <3>1, <2>3, <1>5, <1>9, <1>10, <1>12
    <3> QED BY <3>1, <3>2, <3>3, <1>12, <1>14
  <2> QED BY <2>1, <2>2, <2>3, <1>14 DEF WaitSound
<1>21. CountSound'
  <2>1. WaitingFor(i)'
    BY <1>14 DEF WaitingFor
  <2>2. ASSUME NEW k \in Instances, k # i
        PROVE  /\ lanes'[k].burstCount <= Later(1, MaxBurst)
               /\ streak'[k] <= lanes'[k].burstCount
               /\ lanes'[k].burstCount = 0 => lanes'[k].lastDispatchAt = Never
    BY <2>2, <1>12, <1>15, <1>18 DEF CountSound
  <2>3. /\ lanes'[i].burstCount <= Later(1, MaxBurst)
        /\ streak'[i] <= lanes'[i].burstCount \/ lanes'[i].burstCount = 0
    BY <1>3, <1>12, <1>15, <1>18 DEF CountSound, Later, lane
  <2> QED BY <2>1, <2>2, <2>3 DEF CountSound
<1>22. BurstsBounded' /\ SettingsBounded'
  BY <1>15 DEF BurstsBounded, SettingsBounded
<1> QED BY <1>16, <1>17, <1>20, <1>21, <1>22

\* What is known of a send that begins: its gap, and its lane afterwards.
LEMMA BeginSendFacts ==
  ASSUME CadenceInv, BeginSend
  PROVE  LET i == job.inst
         IN  /\ i \in Instances
             /\ lastSend[i] # Never => now - lastSend[i] >= job.config.BaseDelayMin - MaxLate
             /\ lastSend[i] # Never /\ lanes[i].burstCount = 0 =>
                  now - lastSend[i] >= job.config.BurstPauseMin - MaxLate
<1> USE DEF CadenceInv
<1> DEFINE i == job.inst
           last == lanes[i].lastDispatchAt
<1>1. job.pc = "wait" /\ job.until <= now
  BY DEF BeginSend, CadenceTypeOK, Waiting, Idle, Sending
<1>2. /\ i \in Instances /\ job.until \in Nat
      /\ job.config.BaseDelayMin \in Nat /\ job.config.BurstPauseMin \in Nat
  BY <1>1 DEF CadenceTypeOK, Waiting, Idle, Sending, Config
<1>3. /\ now \in Nat /\ MaxLate \in Nat
      /\ last \in {Never} \union Nat /\ lastSend[i] \in {Never} \union Nat
  BY <1>2, CadenceAssumption DEF CadenceTypeOK, Lane
<1>4. lastSend[i] # Never => last # Never /\ lastSend[i] <= last + MaxLate
  BY <1>2 DEF LaneSound
<1>5. last # Never => job.until >= last + job.config.BaseDelayMin
  BY <1>1 DEF WaitSound
<1>6. last # Never /\ lanes[i].burstCount = 0 =>
        job.until >= last + job.config.BurstPauseMin
  BY <1>1 DEF WaitSound
<1> HIDE DEF last, i
<1>7. lastSend[i] # Never => now - lastSend[i] >= job.config.BaseDelayMin - MaxLate
  BY <1>1, <1>2, <1>3, <1>4, <1>5
<1>8. lastSend[i] # Never /\ lanes[i].burstCount = 0 =>
        now - lastSend[i] >= job.config.BurstPauseMin - MaxLate
  BY <1>1, <1>2, <1>3, <1>4, <1>6
<1> QED BY <1>2, <1>7, <1>8 DEF i

\* A send that begins: its lane dates it when it was due and counts it.
LEMMA BeginSendKeeps ==
  ASSUME CadenceInv, BeginSend
  PROVE  CadenceInv'
<1> USE DEF CadenceInv
<1> DEFINE i == job.inst
<1>1. job.pc = "wait" /\ job.until <= now /\ now <= job.until + MaxLate
  BY DEF BeginSend, WaitSound, CadenceTypeOK, Waiting, Idle, Sending
<1>2. i \in Instances /\ job.until \in Nat
  BY <1>1 DEF CadenceTypeOK, Waiting, Idle, Sending
<1>3. /\ now \in Nat /\ MaxLate \in Nat /\ MaxBurst \in Nat
      /\ lanes[i] \in Lane /\ lanes[i].burstCount \in Nat
      /\ lanes[i].burstGoal \in 0 .. MaxBurst /\ streak[i] \in Nat
  BY <1>2, CadenceAssumption DEF CadenceTypeOK, Lane
<1>4. /\ lanes' = [lanes EXCEPT ![i] =
            [lanes[i] EXCEPT !.lastDispatchAt = job.until,
                             !.burstCount = lanes[i].burstCount + 1]]
      /\ lastSend' = [lastSend EXCEPT ![i] = now]
      /\ streak' = [streak EXCEPT ![i] = IF Paused(i) THEN 1 ELSE @ + 1]
      /\ job' = Sending /\ UNCHANGED <<now, settings>>
  BY <1>2 DEF BeginSend, Record, CadenceTypeOK, Lane
<1>5. lanes[i].burstCount = 0 => Paused(i)
  BY BeginSendFacts DEF Paused
<1> HIDE DEF i
<1>6. /\ lanes'[i].lastDispatchAt = job.until
      /\ lanes'[i].burstCount = lanes[i].burstCount + 1
      /\ lanes' \in [Instances -> Lane]
      /\ \A k \in Instances : k # i => lanes'[k] = lanes[k]
  <2>1. lanes \in [Instances -> Lane]
    BY DEF CadenceTypeOK
  <2>2. lanes'[i] = [lanes[i] EXCEPT !.lastDispatchAt = job.until,
                                     !.burstCount = lanes[i].burstCount + 1]
    BY <1>2, <1>4, <2>1
  <2>3. /\ lanes'[i].lastDispatchAt = job.until
        /\ lanes'[i].burstCount = lanes[i].burstCount + 1
        /\ lanes'[i] \in Lane
    <3>1. lanes[i].burstCount + 1 \in Nat
      BY <1>3
    <3> QED BY <2>2, <3>1, <1>2, <1>3 DEF Lane
  <2>4. /\ \A k \in Instances : k # i => lanes'[k] = lanes[k]
        /\ lanes' \in [Instances -> Lane]
    <3>1. DOMAIN lanes' = Instances /\ lanes' = [k \in Instances |-> lanes'[k]]
      BY <1>4, <2>1
    <3>2. \A k \in Instances : k # i => lanes'[k] = lanes[k]
      BY <1>4, <2>1
    <3> QED BY <3>1, <3>2, <2>1, <2>3
  <2> QED BY <2>3, <2>4
<1>7. /\ lastSend'[i] = now /\ streak'[i] = IF Paused(i) THEN 1 ELSE streak[i] + 1
      /\ \A k \in Instances : k # i => lastSend'[k] = lastSend[k] /\ streak'[k] = streak[k]
      /\ lastSend' \in [Instances -> {Never} \union Nat]
      /\ streak' \in [Instances -> Nat]
  BY <1>2, <1>3, <1>4 DEF CadenceTypeOK
<1>8. CadenceTypeOK'
  BY <1>4, <1>6, <1>7 DEF CadenceTypeOK
<1>9. LaneSound'
  <2>1. lanes'[i].lastDispatchAt # Never /\ lastSend'[i] # Never
    BY <1>2, <1>3, <1>6, <1>7 DEF Never
  <2> QED BY <2>1, <1>1, <1>6, <1>7 DEF LaneSound
<1>10. WaitSound'
  BY <1>4 DEF WaitSound, Sending
<1>11. lanes[i].burstCount + 1 <= Later(1, MaxBurst)
  <2>1. lanes[i].burstCount = 0 \/ lanes[i].burstCount < lanes[i].burstGoal
    BY <1>1 DEF WaitSound, i
  <2> QED BY <2>1, <1>3 DEF Later
<1>12. streak'[i] <= lanes'[i].burstCount
  <2>1. CASE lanes[i].burstCount = 0
    BY <2>1, <1>5, <1>6, <1>7
  <2>2. CASE lanes[i].burstCount # 0
    <3>1. streak[i] <= lanes[i].burstCount
      BY <2>2, <1>2 DEF CountSound
    <3> QED BY <3>1, <2>2, <1>3, <1>6, <1>7
  <2> QED BY <2>1, <2>2
<1>13. \A k \in Instances : k # i => ~WaitingFor(k)
  BY DEF WaitingFor, i
<1>14. CountSound'
  <2>1. ASSUME NEW k \in Instances, k # i
        PROVE  /\ lanes'[k].burstCount <= Later(1, MaxBurst)
               /\ streak'[k] <= lanes'[k].burstCount
               /\ lanes'[k].burstCount = 0 => lanes'[k].lastDispatchAt = Never
    BY <2>1, <1>6, <1>7, <1>13 DEF CountSound
  <2>2. lanes'[i].burstCount # 0
    BY <1>3, <1>6
  <2> QED BY <2>1, <2>2, <1>6, <1>11, <1>12 DEF CountSound
<1>15. BurstsBounded'
  <2>1. \A k \in Instances : k # i => streak'[k] <= Later(1, MaxBurst)
    BY <1>7 DEF BurstsBounded
  <2>2. Later(1, MaxBurst) \in Nat /\ lanes'[i].burstCount \in Nat /\ streak'[i] \in Nat
    BY <1>2, <1>3, <1>6, <1>7 DEF Later
  <2>3. streak'[i] <= Later(1, MaxBurst)
    BY <2>2, <1>6, <1>11, <1>12
  <2> QED BY <2>1, <2>3 DEF BurstsBounded
<1>16. SettingsBounded'
  BY <1>4 DEF SettingsBounded
<1> QED BY <1>8, <1>9, <1>10, <1>14, <1>15, <1>16

\* The steps that leave the lanes alone, and a restart, which empties them.
LEMMA OtherStepsKeep ==
  ASSUME CadenceInv,
         \/ \E i \in Instances : Unpaced(i)
         \/ FinishSend \/ Tick \/ Restart \/ UNCHANGED vars
  PROVE  CadenceInv'
<1> USE DEF CadenceInv
<1>1. ASSUME \/ \E i \in Instances : Unpaced(i)
             \/ FinishSend
      PROVE  CadenceInv'
  <2>1. /\ job.pc # "wait" /\ job' \in {Idle, Sending}
        /\ UNCHANGED <<now, settings, lanes, lastSend, streak>>
    BY <1>1 DEF Unpaced, FinishSend, Idle, Sending
  <2>2. job'.pc # "wait"
    BY <2>1 DEF Idle, Sending
  <2>3. CadenceTypeOK' /\ SettingsBounded' /\ LaneSound' /\ WaitSound' /\ BurstsBounded'
    BY <2>1, <2>2
       DEF CadenceTypeOK, SettingsBounded, LaneSound, WaitSound, BurstsBounded
  <2>4. CountSound'
    BY <2>1, <2>2 DEF CountSound, WaitingFor
  <2> QED BY <2>3, <2>4
<1>2. CASE Tick
  <2>1. UNCHANGED <<settings, lanes, job, lastSend, streak>> /\ now' = now + 1
    BY <1>2 DEF Tick
  <2>2. CadenceTypeOK'
    BY <2>1 DEF CadenceTypeOK
  <2>3. WaitSound'
    <3>1. SUFFICES ASSUME job.pc = "wait" PROVE now' <= job.until + MaxLate
      BY <2>1 DEF WaitSound
    <3>2. now \in Nat /\ job.until \in Nat /\ MaxLate \in Nat
      BY <3>1, CadenceAssumption DEF CadenceTypeOK, Waiting, Idle, Sending
    <3>3. now < job.until + MaxLate
      BY <3>1, <1>2 DEF Tick
    <3> QED BY <2>1, <3>2, <3>3
  <2>4. SettingsBounded' /\ LaneSound' /\ CountSound' /\ BurstsBounded'
    BY <2>1 DEF SettingsBounded, LaneSound, CountSound, BurstsBounded, WaitingFor
  <2> QED BY <2>2, <2>3, <2>4
<1>3. CASE Restart
  <2>1. /\ lanes' = [k \in Instances |-> NewLane] /\ job' = Idle
        /\ lastSend' = [k \in Instances |-> Never] /\ streak' = [k \in Instances |-> 0]
        /\ UNCHANGED <<now, settings>> /\ MaxBurst \in Nat
    BY <1>3, CadenceAssumption DEF Restart
  <2>2. CadenceTypeOK'
    BY <2>1 DEF CadenceTypeOK, NewLane, Lane
  <2>3. LaneSound' /\ WaitSound' /\ SettingsBounded'
    BY <2>1 DEF LaneSound, WaitSound, SettingsBounded, NewLane, Idle
  <2>4. CountSound' /\ BurstsBounded'
    BY <2>1 DEF CountSound, BurstsBounded, NewLane, Later
  <2> QED BY <2>2, <2>3, <2>4
<1>4. CASE UNCHANGED vars
  BY <1>4 DEF vars, CadenceTypeOK, SettingsBounded, LaneSound, WaitSound, CountSound,
              BurstsBounded, WaitingFor
<1> QED BY <1>1, <1>2, <1>3, <1>4

\* Every step keeps the invariant.
LEMMA CadenceStep == CadenceInv /\ [Next]_vars => CadenceInv'
<1> SUFFICES ASSUME CadenceInv, [Next]_vars PROVE CadenceInv'
  OBVIOUS
<1>1. CASE \E i \in Instances : Decide(i)
  BY <1>1, DecideKeeps
<1>2. CASE \E i \in Instances : \E s \in Offered : Save(i, s)
  BY <1>2, SaveKeeps
<1>3. CASE BeginSend
  BY <1>3, BeginSendKeeps
<1>4. CASE \/ \E i \in Instances : Unpaced(i)
           \/ FinishSend \/ Tick \/ Restart \/ UNCHANGED vars
  BY <1>4, OtherStepsKeep
<1> QED BY <1>1, <1>2, <1>3, <1>4 DEF Next

\* The invariant holds throughout.
LEMMA CadenceInvariant == Spec => []CadenceInv
<1> QED BY CadenceInit, CadenceStep, PTL DEF Spec

------------------------------------------------------------------------------
\* Clock, settings, lanes and the job in progress always have their types.
THEOREM CadenceTypes == Spec => []CadenceTypeOK
<1>1. CadenceInv => CadenceTypeOK
  BY DEF CadenceInv
<1> QED BY <1>1, CadenceInvariant, PTL

\* Bursts are bounded (burstCount, burstGoal in waitForHumanCadence), for any settings
\* an administrator may save while they last.
THEOREM BurstsTheorem == Spec => []BurstsBounded
<1>1. CadenceInv => BurstsBounded
  BY DEF CadenceInv
<1> QED BY <1>1, CadenceInvariant, PTL

\* Sends of one instance keep the minimum delay (lastDispatchAt in
\* waitForHumanCadence), up to the lateness of the worker.
THEOREM SpacingTheorem == Spec => SendsSpaced
<1> DEFINE Spaced ==
      \A i \in Instances :
        /\ lastSend[i] # Never
        /\ lastSend'[i] \notin {Never, lastSend[i]}
        => lastSend'[i] - lastSend[i] >= job.config.BaseDelayMin - MaxLate
<1>1. CadenceInv /\ [Next]_vars => [Spaced]_vars
  <2> SUFFICES ASSUME CadenceInv, Next PROVE Spaced
    OBVIOUS
  <2>1. CASE BeginSend
    <3>1. lastSend' = [lastSend EXCEPT ![job.inst] = now]
          /\ lastSend \in [Instances -> {Never} \union Nat]
      BY <2>1 DEF BeginSend, Record, CadenceInv, CadenceTypeOK
    <3> QED BY <3>1, <2>1, BeginSendFacts
  <2>2. CASE Restart
    BY <2>2 DEF Restart
  <2>3. CASE UNCHANGED lastSend
    BY <2>3
  <2>4. BeginSend \/ Restart \/ UNCHANGED lastSend
    BY DEF Next, Decide, Unpaced, Save, FinishSend, Tick
  <2> QED BY <2>1, <2>2, <2>3, <2>4
<1>2. []CadenceInv /\ [][Next]_vars => [][Spaced]_vars
  BY <1>1, PTL
<1> QED BY <1>2, CadenceInvariant, PTL DEF Spec, SendsSpaced
=============================================================================
