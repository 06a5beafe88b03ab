----------------------------- MODULE Compressor -----------------------------
(***************************************************************************)
(* The compressor task of the beer machine (Src/tasks/compressor_task.c):  *)
(* one message queue, one handler, four one-shot timers and the power pin  *)
(* of the compressor.  A timer callback runs in the timer daemon and does  *)
(* nothing but post a message, so a timeout reaches the task through the   *)
(* same queue as the readings and the configuration the alarm task posts,  *)
(* and it can be overtaken, be stale when it is handled, or be lost when   *)
(* the queue is full: osMessagePut gives up after 5 ms and every caller    *)
(* only logs it.                                                           *)
(*                                                                         *)
(* The alarm task appears as the actions Alarm...: what it posts to this   *)
(* queue (alarm_task.c), driven by the sensor and by the two times the     *)
(* report task dispatches the device configuration.                        *)
(*                                                                         *)
(* Time advances by Tick.  A timer holds the ticks it has left and fires   *)
(* when it reaches zero or later, never earlier.                           *)
(***************************************************************************)
EXTENDS Integers, Sequences

CONSTANTS
  Temps,         \* temperatures the sensor task reports, in degrees
  Err,           \* the reading of a broken sensor (ALARM_TASK_TEMPERATURE_ERR_VALUE)
  Limits,        \* [work, stop] temperatures a device configuration may hold
  LockValues,    \* lock settings the configuration may hold, of LOCK and UNLOCK
  MaxDispatch,   \* how often the configuration is dispatched (boot, activation)
  QueueSize,     \* length of compressor_task_msg_q_id
  MaxBurst,      \* bound: messages the alarm task posts between two ticks
  Prompt,        \* TRUE: no tick passes over a due timer or a queued message
  DisplayPut,    \* outcomes of a put to the display queue: TRUE accepted
  WorkTicks, WaitTicks, RestTicks, PwrWaitTicks,  \* the timer periods
  Horizon        \* bound: the history of the power pin counts up to here

ASSUME TempsAssumption == Temps \subseteq Int /\ 0 \in Temps /\ Err \notin Temps
ASSUME ConfigAssumption ==
  /\ Limits \subseteq [work : Int, stop : Int]
  /\ LockValues \subseteq {"LOCK", "UNLOCK"}
  /\ MaxDispatch \in Nat
ASSUME QueueAssumption ==
  /\ QueueSize \in Nat \ {0}
  /\ MaxBurst \in Nat \ {0}
  /\ Prompt \in BOOLEAN
  /\ DisplayPut \subseteq BOOLEAN /\ DisplayPut # {}
ASSUME PeriodAssumption ==
  /\ {WorkTicks, WaitTicks, RestTicks, PwrWaitTicks} \subseteq Nat \ {0}
  /\ Horizon \in Nat

VARIABLES
  status,        \* compressor.status
  temperature,   \* compressor.temperature: the cached reading
  temperature_work, temperature_stop,  \* limits of the last configuration
  lock,          \* compressor.lock
  config,        \* compressor.config: limits were received
  power,         \* the compressor's power pin
  queue,         \* compressor_task_msg_q_id
  timer,         \* ticks left of each timer, or Stopped
  shown,         \* the last blink the display queue accepted
  reading,       \* alarm.temperature.value, what the alarm task last posted
  dispatched,    \* half-steps of configuration dispatches taken
  burst,         \* alarm task messages since the last tick
  lost,          \* history: kinds of message dropped and not made up for since
  since,         \* history: ticks since the power pin last changed
  reason         \* history: why the compressor is off

taskVars == <<status, temperature, temperature_work, temperature_stop, lock, config, power>>
envVars == <<reading, dispatched, burst>>
histVars == <<since, reason>>
vars == <<taskVars, queue, timer, shown, lost, envVars, histVars>>

Statuses == {"INIT", "RDY", "RDY_CONTINUE", "REST", "WORK", "WAIT", "WAIT_CONTINUE"}
Readings == Temps \cup {Err}

(***************************************************************************)
(* Messages.                                                               *)
(***************************************************************************)
Timers == {"WORK_TIMEOUT", "WAIT_TIMEOUT", "REST_TIMEOUT", "PWR_WAIT_TIMEOUT"}
TemperatureTypes == {"TEMPERATURE_VALUE", "TEMPERATURE_ERR"}
Types == Timers \cup TemperatureTypes \cup {"TEMPERATURE_CONFIG", "LOCK_CONFIG"}

Timeout(t) == [type |-> t]
Lock(v) == [type |-> "LOCK_CONFIG", lock |-> v]
Config(l) == [type |-> "TEMPERATURE_CONFIG", limits |-> l]
Temperature(v) ==
  [type |-> IF v = Err THEN "TEMPERATURE_ERR" ELSE "TEMPERATURE_VALUE", value |-> v]

Messages ==
  {Timeout(t) : t \in Timers} \cup {Lock(v) : v \in LockValues}
    \cup {Config(l) : l \in Limits} \cup {Temperature(v) : v \in Readings}

(***************************************************************************)
(* A put that finds the queue full drops the message.                      *)
(***************************************************************************)
PutPastTheEnd(q, m) ==  \* mutant: the bound is off by one
  IF Len(q) <= QueueSize
    THEN queue' = Append(q, m) /\ lost' = lost
    ELSE queue' = q /\ lost' = lost \cup {m.type}
Put(q, m) ==
  IF Len(q) < QueueSize
    THEN queue' = Append(q, m) /\ lost' = lost
    ELSE queue' = q /\ lost' = lost \cup {m.type}

(***************************************************************************)
(* Timers.  Starting one restarts it; a restarted timer makes an earlier   *)
(* lost timeout of its own irrelevant.                                     *)
(***************************************************************************)
Stopped == -1
PeriodSwapped == [t \in Timers |->  \* mutant: rest and wait periods swapped
  CASE t = "WORK_TIMEOUT" -> WorkTicks
    [] t = "WAIT_TIMEOUT" -> RestTicks
    [] t = "REST_TIMEOUT" -> WaitTicks
    [] t = "PWR_WAIT_TIMEOUT" -> PwrWaitTicks]
Period == [t \in Timers |->
  CASE t = "WORK_TIMEOUT" -> WorkTicks
    [] t = "WAIT_TIMEOUT" -> WaitTicks
    [] t = "REST_TIMEOUT" -> RestTicks
    [] t = "PWR_WAIT_TIMEOUT" -> PwrWaitTicks]
StartNothing(t) == timer  \* mutant: the timer is never started
Start(t) == [timer EXCEPT ![t] = Period[t]]
StopOnly(t, u) == [timer EXCEPT ![t] = Stopped]  \* mutant: no wait timer
StopAndStart(t, u) == [timer EXCEPT ![t] = Stopped, ![u] = Period[u]]
Due(t) == timer[t] = 0

(***************************************************************************)
(* The power pin, with its history.                                        *)
(***************************************************************************)
TurnOn == power' = TRUE /\ since' = (IF power THEN since ELSE 0) /\ reason' = reason
TurnOff(why) ==
  /\ power' = FALSE
  /\ since' = IF power THEN 0 ELSE since
  /\ reason' = IF power THEN why ELSE reason

(***************************************************************************)
(* The display message at the end of the handler, sent when status_change  *)
(* was set by the message being handled.                                   *)
(***************************************************************************)
ShowOldStatus ==  \* mutant: built from the status before the change
  \E ok \in DisplayPut : shown' = IF ok THEN status = "WORK" ELSE shown
ShowCompressor == \E ok \in DisplayPut : shown' = IF ok THEN status' = "WORK" ELSE shown

(***************************************************************************)
(* The handler: one action per message type.  Rest is the queue after the  *)
(* message was taken.                                                      *)
(***************************************************************************)
Receive(type) == queue # <<>> /\ Head(queue).type = type
Rest == Tail(queue)
Take == queue' = Rest /\ lost' = lost
SendNothing == Take  \* mutant: no new evaluation is asked for
SendTwice ==  \* mutant: the evaluation is asked for twice
  Put(Rest \o <<Temperature(temperature')>>, Temperature(temperature'))
SendTemperatureToSelf == Put(Rest, Temperature(temperature'))

HandleLock ==
  /\ Receive("LOCK_CONFIG")
  /\ Head(queue).lock = "LOCK" /\ ~lock
  /\ lock' = TRUE
  /\ status' = "RDY_CONTINUE"
  /\ TurnOff("WAIT")
  /\ timer' = [timer EXCEPT !["WORK_TIMEOUT"] = Stopped,
                            !["WAIT_TIMEOUT"] = Stopped,
                            !["REST_TIMEOUT"] = Stopped]
  /\ Take
  /\ ShowCompressor
  /\ UNCHANGED <<temperature, temperature_work, temperature_stop, config, envVars>>

HandleUnlock ==
  /\ Receive("LOCK_CONFIG")
  /\ Head(queue).lock = "UNLOCK" /\ lock
  /\ lock' = FALSE
  /\ UNCHANGED <<status, temperature, temperature_work, temperature_stop, config, power,
                 timer, shown, envVars, histVars>>
  /\ SendTemperatureToSelf

HandleRepeatedLock ==
  /\ Receive("LOCK_CONFIG")
  /\ lock = (Head(queue).lock = "LOCK")
  /\ Take
  /\ UNCHANGED <<taskVars, timer, shown, envVars, histVars>>

HandleTemperatureConfig ==
  /\ Receive("TEMPERATURE_CONFIG")
  /\ temperature_work' = Head(queue).limits.work
  /\ temperature_stop' = Head(queue).limits.stop
  /\ config' = TRUE
  /\ UNCHANGED <<status, temperature, lock, power, timer, shown, envVars, histVars>>
  /\ SendTemperatureToSelf

HandlePwrWaitTimeout ==
  /\ Receive("PWR_WAIT_TIMEOUT")
  /\ status' = "RDY_CONTINUE"
  /\ UNCHANGED <<temperature, temperature_work, temperature_stop, lock, config, power,
                 timer, shown, envVars, histVars>>
  /\ SendTemperatureToSelf

(***************************************************************************)
(* A reading starts or stops the compressor only when it is unlocked, past *)
(* the power-on wait and configured.                                       *)
(***************************************************************************)
ControlledWhileLocked == status # "INIT" /\ config  \* mutant: lock is not checked
Controlled == ~lock /\ status # "INIT" /\ config
MustStopBelow(v) == v < temperature_stop /\ status = "WORK"  \* mutant: < for <=
MustStop(v) == v <= temperature_stop /\ status = "WORK"
MayStart(v) ==
  \/ v >= temperature_work /\ status = "RDY"
  \/ v > temperature_stop /\ status = "RDY_CONTINUE"

TemperatureStops ==
  /\ Receive("TEMPERATURE_VALUE")
  /\ Controlled /\ MustStop(Head(queue).value)
  /\ temperature' = Head(queue).value
  /\ status' = "WAIT"
  /\ TurnOff("WAIT")
  /\ timer' = StopAndStart("WORK_TIMEOUT", "WAIT_TIMEOUT")
  /\ queue' = Rest /\ lost' = (lost \ TemperatureTypes) \ {"WAIT_TIMEOUT"}
  /\ ShowCompressor
  /\ UNCHANGED <<temperature_work, temperature_stop, lock, config, envVars>>

TemperatureStarts ==
  /\ Receive("TEMPERATURE_VALUE")
  /\ Controlled /\ MayStart(Head(queue).value)
  /\ temperature' = Head(queue).value
  /\ status' = "WORK"
  /\ TurnOn
  /\ timer' = Start("WORK_TIMEOUT")
  /\ queue' = Rest /\ lost' = (lost \ TemperatureTypes) \ {"WORK_TIMEOUT"}
  /\ ShowCompressor
  /\ UNCHANGED <<temperature_work, temperature_stop, lock, config, envVars>>

TemperatureCached ==
  /\ Receive("TEMPERATURE_VALUE")
  /\ Controlled => ~MustStop(Head(queue).value) /\ ~MayStart(Head(queue).value)
  /\ temperature' = Head(queue).value
  /\ queue' = Rest /\ lost' = lost \ TemperatureTypes
  /\ UNCHANGED <<status, temperature_work, temperature_stop, lock, config, power,
                 timer, shown, envVars, histVars>>

ErrorStops ==
  /\ Receive("TEMPERATURE_ERR")
  /\ status = "WORK"
  /\ temperature' = Head(queue).value
  /\ status' = "WAIT_CONTINUE"
  /\ TurnOff("WAIT")
  /\ timer' = StopAndStart("WORK_TIMEOUT", "WAIT_TIMEOUT")
  /\ queue' = Rest /\ lost' = (lost \ TemperatureTypes) \ {"WAIT_TIMEOUT"}
  /\ ShowCompressor
  /\ UNCHANGED <<temperature_work, temperature_stop, lock, config, envVars>>

ErrorCached ==
  /\ Receive("TEMPERATURE_ERR")
  /\ status # "WORK"
  /\ temperature' = Head(queue).value
  /\ queue' = Rest /\ lost' = lost \ TemperatureTypes
  /\ UNCHANGED <<status, temperature_work, temperature_stop, lock, config, power,
                 timer, shown, envVars, histVars>>

WorkTimeoutRests ==
  /\ Receive("WORK_TIMEOUT")
  /\ status = "WORK"
  /\ status' = "REST"
  /\ TurnOff("REST")
  /\ timer' = Start("REST_TIMEOUT")
  /\ queue' = Rest /\ lost' = lost \ {"REST_TIMEOUT"}
  /\ ShowCompressor
  /\ UNCHANGED <<temperature, temperature_work, temperature_stop, lock, config, envVars>>

WaitTimeoutReady ==
  /\ Receive("WAIT_TIMEOUT")
  /\ \/ status = "WAIT" /\ status' = "RDY"
     \/ status = "WAIT_CONTINUE" /\ status' = "RDY_CONTINUE"
  /\ UNCHANGED <<temperature, temperature_work, temperature_stop, lock, config, power,
                 timer, shown, envVars, histVars>>
  /\ SendTemperatureToSelf

RestTimeoutReady ==
  /\ Receive("REST_TIMEOUT")
  /\ status = "REST" /\ status' = "RDY_CONTINUE"
  /\ UNCHANGED <<temperature, temperature_work, temperature_stop, lock, config, power,
                 timer, shown, envVars, histVars>>
  /\ SendTemperatureToSelf

StaleTimeout ==
  /\ \/ Receive("WORK_TIMEOUT") /\ status # "WORK"
     \/ Receive("WAIT_TIMEOUT") /\ status \notin {"WAIT", "WAIT_CONTINUE"}
     \/ Receive("REST_TIMEOUT") /\ status # "REST"
  /\ Take
  /\ UNCHANGED <<taskVars, timer, shown, envVars, histVars>>

Handle ==
  \/ HandleLock \/ HandleUnlock \/ HandleRepeatedLock
  \/ HandleTemperatureConfig
  \/ HandlePwrWaitTimeout
  \/ TemperatureStops \/ TemperatureStarts \/ TemperatureCached
  \/ ErrorStops \/ ErrorCached
  \/ WorkTimeoutRests \/ WaitTimeoutReady \/ RestTimeoutReady \/ StaleTimeout

(***************************************************************************)
(* The timer daemon: a due timer stops and posts its message.              *)
(***************************************************************************)
Expire(t) ==
  /\ Due(t)
  /\ timer' = [timer EXCEPT ![t] = Stopped]
  /\ Put(queue, Timeout(t))
  /\ UNCHANGED <<taskVars, shown, envVars, histVars>>

Tick ==
  /\ Prompt => queue = <<>> /\ \A t \in Timers : ~Due(t)
  /\ timer' = [t \in Timers |-> IF timer[t] > 0 THEN timer[t] - 1 ELSE timer[t]]
  /\ since' = IF since < Horizon THEN since + 1 ELSE since
  /\ burst' = 0
  /\ UNCHANGED <<taskVars, queue, shown, lost, reading, dispatched, reason>>

(***************************************************************************)
(* The alarm task, as this queue sees it.                                  *)
(***************************************************************************)
AlarmTemperature(v) ==
  /\ burst < MaxBurst /\ burst' = burst + 1
  /\ reading' = v
  /\ Put(queue, Temperature(v))
  /\ UNCHANGED <<taskVars, timer, shown, dispatched, histVars>>

(***************************************************************************)
(* A dispatch of the device configuration is a lock message, then the      *)
(* limits: the alarm task passes them on only when they are within bounds  *)
(* and its own reading is not an error, and they are never sent again.     *)
(***************************************************************************)
LimitsValid(l) == l.work <= 8 /\ l.stop >= 0

AlarmLock(v) ==
  /\ dispatched < 2 * MaxDispatch /\ dispatched % 2 = 0
  /\ dispatched' = dispatched + 1
  /\ burst < MaxBurst /\ burst' = burst + 1
  /\ Put(queue, Lock(v))
  /\ UNCHANGED <<taskVars, timer, shown, reading, histVars>>

AlarmLimits(l) ==
  /\ dispatched % 2 = 1
  /\ dispatched' = dispatched + 1
  /\ burst < MaxBurst /\ burst' = burst + 1
  /\ IF LimitsValid(l) /\ reading # Err
       THEN Put(queue, Config(l))
       ELSE UNCHANGED <<queue, lost>>
  /\ UNCHANGED <<taskVars, timer, shown, reading, histVars>>

Alarm ==
  \/ \E v \in Readings : AlarmTemperature(v)
  \/ \E v \in LockValues : AlarmLock(v)
  \/ \E l \in Limits : AlarmLimits(l)

(***************************************************************************)
(* Power-up: everything static is zero, the pin is off, and the task has   *)
(* started the power-on timer before it takes its first message.           *)
(***************************************************************************)
Init ==
  /\ status = "INIT" /\ temperature = 0
  /\ temperature_work = 0 /\ temperature_stop = 0
  /\ lock = FALSE /\ config = FALSE /\ power = FALSE
  /\ queue = <<>> /\ lost = {}
  /\ timer = [t \in Timers |-> IF t = "PWR_WAIT_TIMEOUT" THEN PwrWaitTicks ELSE Stopped]
  /\ shown = FALSE
  /\ reading = 0 /\ dispatched = 0 /\ burst = 0
  /\ since = 0 /\ reason = "BOOT"

Daemon == \E t \in Timers : Expire(t)
Next == Handle \/ Daemon \/ Tick \/ Alarm

Spec == Init /\ [][Next]_vars

(***************************************************************************)
(* The task, the timer daemon and the clock keep running.  Nothing is      *)
(* assumed of the alarm task.                                              *)
(***************************************************************************)
FairSpec == Spec /\ WF_vars(Handle) /\ WF_vars(Daemon) /\ WF_vars(Tick)
-----------------------------------------------------------------------------
(***************************************************************************)
(* Properties.                                                             *)
(***************************************************************************)

\* Types, in particular: a queued TEMPERATURE_VALUE never carries the error
\* reading, although the task builds such messages from its cached reading.
TypeOK ==
  /\ status \in Statuses /\ temperature \in Readings
  /\ temperature_work \in Int /\ temperature_stop \in Int
  /\ lock \in BOOLEAN /\ config \in BOOLEAN /\ power \in BOOLEAN /\ shown \in BOOLEAN
  /\ queue \in Seq(Messages) /\ Len(queue) <= QueueSize
  /\ timer \in [Timers -> Int]
  /\ \A t \in Timers : timer[t] \in Stopped .. Period[t]
  /\ lost \subseteq Types
  /\ reading \in Readings /\ dispatched \in 0 .. 2 * MaxDispatch
  /\ burst \in 0 .. MaxBurst
  /\ since \in 0 .. Horizon /\ reason \in {"BOOT", "WAIT", "REST"}

\* A locked machine never has its compressor powered, whatever timeouts and
\* readings were queued before the lock message was handled.
LockedIsOff == lock => ~power

\* The task believes the compressor works only while the pin is on and the
\* machine is unlocked and configured.
WorkIsOn == status = "WORK" => power /\ ~lock /\ config

InQueue(S) == \E i \in 1 .. Len(queue) : queue[i].type \in S
Pending(t) == timer[t] # Stopped \/ InQueue({t}) \/ t \in lost

\* Every status that only a timeout can end has that timeout coming: its timer
\* runs or its message is queued.  Only a message the full queue dropped can
\* leave the compressor stuck.
WakeupPending ==
  /\ status = "INIT" => Pending("PWR_WAIT_TIMEOUT")
  /\ status = "WORK" => Pending("WORK_TIMEOUT")
  /\ status \in {"WAIT", "WAIT_CONTINUE"} => Pending("WAIT_TIMEOUT")
  /\ status = "REST" => Pending("REST_TIMEOUT")

EvaluationPending == InQueue(TemperatureTypes) \/ lost \cap TemperatureTypes # {}

NoMissedStart ==
  Controlled /\ ~EvaluationPending /\ temperature # Err => ~MayStart(temperature)

NoMissedStop ==
  status = "WORK" /\ ~EvaluationPending =>
    /\ temperature # Err
    /\ temperature > temperature_stop \/ temperature >= temperature_work

\* A ready compressor that is warm enough to start has a reading queued that will
\* start it, and a working one whose cached reading is an error or below both limits
\* one that will stop it: readings come only on change, so every way into a ready
\* status, an unlock and new limits must ask for a new evaluation.
ReadingIsActedOn == NoMissedStart /\ NoMissedStop

\* The blinking compressor symbol tells whether the pin is on, as long as the
\* display queue accepts the messages.
ShownIsPower == shown = power

\* The pin is on only in the status WORK, the one its declaration calls the
\* working status.
RunningMeansWork == power => status = "WORK"

Owed ==
  CASE reason = "BOOT" -> PwrWaitTicks
    [] reason = "WAIT" -> WaitTicks
    [] reason = "REST" -> RestTicks

\* The compressor is never switched on before it was off for the time owed: the
\* power-on wait, the wait between two starts, the rest after a long run.
RestartGap == [][~power /\ power' => since >= Owed]_vars

\* The part of RestartGap that concerns the first start after power-up.
PowerOnWait == [][~power /\ power' /\ reason = "BOOT" => since >= PwrWaitTicks]_vars

\* The part of RestartGap that concerns a start after an earlier run.
WaitBetweenStarts == [][~power /\ power' /\ reason # "BOOT" => since >= Owed]_vars

\* The compressor never runs longer than the longest working time at a stretch.
BoundedRun == power => since <= WorkTicks

\* No message is ever dropped.
NothingLost == lost = {}

\* Once the queue is drained, a compressor the alarm task last told of a broken
\* sensor is off.  It does not hold: section 3 of the README has the reason.
SensorErrorStops == queue = <<>> /\ lost = {} /\ reading = Err => ~power

\* If nothing is lost and the cached reading stays at or above the start limit
\* of an unlocked and configured machine, the compressor keeps being switched on.
WarmIsCooled ==
  [](lost = {}) /\ <>[](~lock /\ config /\ temperature # Err /\ temperature >= temperature_work
                         /\ temperature > temperature_stop) => []<>power

\* If nothing is lost and the cached reading stays an error or at or below the
\* stop limit, the compressor ends up off.
ColdIsLeftAlone ==
  [](lost = {}) /\ <>[](temperature = Err
                         \/ (temperature <= temperature_stop /\ temperature < temperature_work))
    => <>[]~power
=============================================================================
