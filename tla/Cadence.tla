------------------------------- MODULE Cadence -------------------------------
(***************************************************************************)
(* How a worker spaces out the sends of each WhatsApp instance             *)
(* (waitForHumanCadence in internal/worker/dispatch_worker.go), with the   *)
(* settings an administrator saves meanwhile                               *)
(* (internal/service/instance_settings_service.go).                        *)
(*                                                                         *)
(* Time is an integer.  A wait ends at most MaxLate after its time; a send *)
(* takes as long as it takes, and the decision before the wait no time at  *)
(* all.  One worker serves all instances, one job after the other.  Left   *)
(* out: what else a job does, and the delay asked of the provider.         *)
(***************************************************************************)
EXTENDS Integers

CONSTANTS
  Instances,      \* instance ids
  Environment,    \* the configuration of the HUMANIZER_* variables
  Offered,        \* what administrators try to save
  MaxBurst,       \* the longest burst any of them allows
  MaxLate,        \* how late the worker may be after a wait
  MaxTime         \* bound on the clock

Config ==
  [Enabled: BOOLEAN, InitialDelayMin: Nat, InitialDelayMax: Nat,
   BaseDelayMin: Nat, BaseDelayMax: Nat, BurstSizeMin: Nat, BurstSizeMax: Nat,
   BurstPauseMin: Nat, BurstPauseMax: Nat]

ASSUME CadenceAssumption ==
  /\ Environment \in Config
  /\ Offered \subseteq Config
  /\ {MaxBurst, MaxLate, MaxTime} \subseteq Nat
  /\ \A c \in Offered \union {Environment} :
       c.BurstSizeMin <= MaxBurst /\ c.BurstSizeMax <= MaxBurst

VARIABLES
  now,        \* the clock
  settings,   \* table instance_settings: of the instances that have a row
  lanes,      \* dispatchLane of each instance; a restart empties them
  job,        \* what the worker is doing
  lastSend,   \* history: when the last paced send of each instance began
  streak      \* history: paced sends since the last gap as long as a burst pause

vars == <<now, settings, lanes, job, lastSend, streak>>

Never == -1

Later(a, b) == IF a >= b THEN a ELSE b

Lane == [lastDispatchAt: {Never} \union Nat, burstGoal: 0 .. MaxBurst, burstCount: Nat]

NewLane == [lastDispatchAt |-> Never, burstGoal |-> 0, burstCount |-> 0]

Idle == [pc |-> "idle"]
Sending == [pc |-> "send"]
Waiting == [pc: {"wait"}, inst: Instances, until: Nat, config: Config]

CadenceTypeOK ==
  /\ now \in Nat
  /\ DOMAIN settings \subseteq Instances
  /\ settings \in [DOMAIN settings -> Config]
  /\ lanes \in [Instances -> Lane]
  /\ job \in {Idle, Sending} \union Waiting
  /\ lastSend \in [Instances -> {Never} \union Nat]
  /\ streak \in [Instances -> Nat]

------------------------------------------------------------------------------
(* Configuration. *)

\* HumanizerConfig.normalize
Default ==
  [Environment EXCEPT
     !.InitialDelayMax = Later(Environment.InitialDelayMin, @),
     !.BaseDelayMax = Later(Environment.BaseDelayMin, @),
     !.BurstSizeMax = Later(Environment.BurstSizeMin, @),
     !.BurstPauseMax = Later(Environment.BurstPauseMin, @)]

\* validate
Valid(s) ==
  /\ s.InitialDelayMin <= s.InitialDelayMax
  /\ s.BaseDelayMin <= s.BaseDelayMax
  /\ 0 < s.BurstSizeMin /\ s.BurstSizeMin <= s.BurstSizeMax
  /\ s.BurstPauseMin <= s.BurstPauseMax

\* Get: an instance without a row has the settings of the environment.
SettingsOf(i) == IF i \in DOMAIN settings THEN settings[i] ELSE Default

\* waitForHumanCadence falls back on the environment when the settings cannot be read.
HumanizerConfigs(i) == {SettingsOf(i), Default}

Upsert(i, s) ==
  settings' = [k \in DOMAIN settings \union {i} |-> IF k = i THEN s ELSE settings[k]]

\* What is not valid is refused.
Save(i, s) ==
  /\ Valid(s)
  /\ Upsert(i, s)
  /\ UNCHANGED <<now, lanes, job, lastSend, streak>>

------------------------------------------------------------------------------
(* waitForHumanCadence *)

\* Mutant: the range of the random numbers ends one too late.
RandomInTooFar(min, max) == IF max <= min THEN {min} ELSE min .. max + 1

\* randomDuration, randomInt
RandomIn(min, max) == IF max <= min THEN {min} ELSE min .. max

\* A disabled humanizer lets the send begin at once and leaves the lane alone.
Unpaced(i) ==
  /\ job = Idle
  /\ \E config \in HumanizerConfigs(i) : ~config.Enabled
  /\ job' = Sending
  /\ UNCHANGED <<now, settings, lanes, lastSend, streak>>

\* When the next send of a lane may begin: for a first send the pause of a burst,
\* counted from the zero time, is long over.
WaitUntil(lane, delay, pause, full) ==
  IF lane.lastDispatchAt = Never THEN now + delay
  ELSE Later(Later(now, lane.lastDispatchAt + delay),
             IF full THEN lane.lastDispatchAt + pause ELSE now)

DelaysOf(lane, config) ==
  IF lane.lastDispatchAt = Never
  THEN RandomIn(config.InitialDelayMin, config.InitialDelayMax)
  ELSE RandomIn(config.BaseDelayMin, config.BaseDelayMax)

BurstSizes(config) == RandomIn(config.BurstSizeMin, config.BurstSizeMax)

Decide(i) ==
  /\ job = Idle
  /\ \E config \in HumanizerConfigs(i) :
       /\ config.Enabled
       /\ \E goal \in IF lanes[i].burstGoal = 0 THEN BurstSizes(config) ELSE {lanes[i].burstGoal},
             next \in BurstSizes(config),
             delay \in DelaysOf(lanes[i], config),
             pause \in RandomIn(config.BurstPauseMin, config.BurstPauseMax) :
            LET full == lanes[i].burstCount >= goal
            IN  /\ job' = [pc |-> "wait", inst |-> i, config |-> config,
                           until |-> WaitUntil(lanes[i], delay, pause, full)]
                /\ lanes' = [lanes EXCEPT
                     ![i].burstGoal = IF full THEN next ELSE goal,
                     ![i].burstCount = IF full THEN 0 ELSE @]
  /\ UNCHANGED <<now, settings, lastSend, streak>>

\* Whether the gap before a send that begins now is a burst pause; a worker that was
\* late the last time may have cut it short.
Paused(i) ==
  \/ lastSend[i] = Never
  \/ now - lastSend[i] >= job.config.BurstPauseMin - MaxLate

Record(i) ==
  /\ lastSend' = [lastSend EXCEPT ![i] = now]
  /\ streak' = [streak EXCEPT ![i] = IF Paused(i) THEN 1 ELSE @ + 1]

\* Mutant: the send is not counted.
BeginSendUncounted ==
  /\ job.pc = "wait"
  /\ now >= job.until
  /\ lanes' = [lanes EXCEPT ![job.inst].lastDispatchAt = job.until]
  /\ job' = Sending
  /\ Record(job.inst)
  /\ UNCHANGED <<now, settings>>

\* Mutant: the lane is a copy of the one in the map.
BeginSendOnCopy ==
  /\ job.pc = "wait"
  /\ now >= job.until
  /\ job' = Sending
  /\ Record(job.inst)
  /\ UNCHANGED <<now, settings, lanes>>

BeginSend ==
  /\ job.pc = "wait"
  /\ now >= job.until
  /\ lanes' = [lanes EXCEPT ![job.inst].lastDispatchAt = job.until,
                            ![job.inst].burstCount = @ + 1]
  /\ job' = Sending
  /\ Record(job.inst)
  /\ UNCHANGED <<now, settings>>

FinishSend ==
  /\ job = Sending
  /\ job' = Idle
  /\ UNCHANGED <<now, settings, lanes, lastSend, streak>>

\* Time goes by, but not past the lateness of a wait.
Tick ==
  /\ now < MaxTime
  /\ job.pc = "wait" => now < job.until + MaxLate
  /\ now' = now + 1
  /\ UNCHANGED <<settings, lanes, job, lastSend, streak>>

\* The lanes are in memory: a new process knows of no send before it.
Restart ==
  /\ lanes' = [i \in Instances |-> NewLane]
  /\ job' = Idle
  /\ lastSend' = [i \in Instances |-> Never]
  /\ streak' = [i \in Instances |-> 0]
  /\ UNCHANGED <<now, settings>>

Init ==
  /\ now = 0
  /\ settings = [i \in {} |-> Default]
  /\ lanes = [i \in Instances |-> NewLane]
  /\ job = Idle
  /\ lastSend = [i \in Instances |-> Never]
  /\ streak = [i \in Instances |-> 0]

Next ==
  \/ \E i \in Instances : Decide(i) \/ Unpaced(i) \/ \E s \in Offered : Save(i, s)
  \/ BeginSend \/ FinishSend \/ Tick \/ Restart

Spec == Init /\ [][Next]_vars

------------------------------------------------------------------------------
\* Within one life of the process, two paced sends of an instance begin at least the
\* minimum delay apart that the second was decided with, however long the first took,
\* whatever was sent for other instances and however the settings changed in between:
\* a stall is never caught up with.
SendsSpaced ==
  [][\A i \in Instances :
       /\ lastSend[i] # Never
       /\ lastSend'[i] \notin {Never, lastSend[i]}
       => lastSend'[i] - lastSend[i] >= job.config.BaseDelayMin - MaxLate]_vars

\* No more sends follow each other without a burst pause than the longest burst allows,
\* also when the settings change in the middle of one; a burst size of zero, which the
\* environment may have, is taken for one.
BurstsBounded == \A i \in Instances : streak[i] <= Later(1, MaxBurst)
=============================================================================
