-------------------------------- MODULE Alarm --------------------------------
(***************************************************************************)
(* The alarm task (Src/tasks/alarm_task.c) and the sensor tasks that feed  *)
(* it (temperature_task.c, pressure_task.c, capacity_task.c).              *)
(*                                                                         *)
(* A sensor task posts a value when enough readings differ from the one it *)
(* holds, in the same direction on balance, and only then.  The report     *)
(* task posts the device configuration in four messages.  The alarm task   *)
(* keeps a value and limits of every kind, tells the display, the report   *)
(* task and the compressor, and sounds the buzzer.  When limits arrive it  *)
(* posts its own value to itself, behind what is queued already.  A put to *)
(* a full queue is dropped and only logged.                                *)
(*                                                                         *)
(* Values are those of an int8_t; Err is the uint8_t the tasks use for a   *)
(* broken sensor.  compressor is what the compressor task was last sent;   *)
(* module Compressor models what that does.                                *)
(***************************************************************************)
EXTENDS Integers, Sequences

CONSTANTS
  Sampled,      \* kinds whose sensor is read
  Values,       \* readings of a working sensor
  Err,          \* ALARM_TASK_..._ERR_VALUE
  Ranges,       \* of every kind, [high, low] limits a configuration may hold
  LockValues,   \* lock settings a configuration may hold
  Confirm,      \* readings on balance that change a sensor's value
  QueueSize,    \* length of alarm_task_msg_q_id
  MaxDispatch,  \* how often the configuration is dispatched (boot, activation)
  None          \* nothing sent yet

Kinds == {"temperature", "pressure", "capacity"}

ASSUME AlarmAssumption ==
  /\ Sampled \subseteq Kinds
  /\ Values \subseteq -128 .. 127 /\ Err \in 128 .. 255
  /\ \A k \in Kinds : Ranges[k] \subseteq [high : -127 .. 126, low : -127 .. 126]
  /\ Confirm \in Nat \ {0} /\ QueueSize \in Nat \ {0} /\ MaxDispatch \in Nat
  /\ None # "ERR"

VARIABLES
  current,     \* what a sensor reads now
  sensor,      \* value and dir of the sensor tasks
  unit,        \* alarm.temperature, alarm.pressure, alarm.capacity
  is_pwr_on,   \* the buzzer
  queue,       \* alarm_task_msg_q_id
  shown,       \* what was last posted to the display of each kind
  reported,    \* what was last posted to the report task of each kind
  compressor,  \* what was last posted to the compressor task
  dispatched,  \* configuration messages posted
  lost         \* history: sender and kind of dropped readings

vars == <<current, sensor, unit, is_pwr_on, queue, shown, reported, compressor, dispatched, lost>>

Readings == Values \cup {Err}
PowerOnValue == 88

(***************************************************************************)
(* Messages are told apart by their sender.                                *)
(***************************************************************************)
Reading(from, k, v) == [from |-> from, kind |-> k, value |-> v]
Config(k, r) == [from |-> "report", kind |-> k, range |-> r]
Lock(l) == [from |-> "report", kind |-> "lock", lock |-> l]
TimerTimeout == [from |-> "timer", kind |-> "buzzer"]

Readers == {"sensor", "self"} \X Kinds

Put(q, m) ==
  IF Len(q) < QueueSize
    THEN queue' = Append(q, m) /\ lost' = lost
    ELSE queue' = q /\ lost' = lost \cup ({<<m.from, m.kind>>} \cap Readers)

(***************************************************************************)
(* The sensor tasks.  temperature.value is an int8_t, the others uint8_t.  *)
(***************************************************************************)
Stored(k, v) == IF k = "temperature" /\ v = Err THEN Err - 256 ELSE v
Confirmed(dir) == dir >= Confirm \/ dir <= -Confirm
Step(k, v) == IF v > Stored(k, sensor[k].value) THEN 1 ELSE -1
NextDirAlone(k, v) == Step(k, v)  \* mutant: the direction is set, not counted
NextDir(k, v) == sensor[k].dir + Step(k, v)

Change(k, v) ==
  /\ current' = [current EXCEPT ![k] = v]
  /\ UNCHANGED <<sensor, unit, is_pwr_on, queue, shown, reported, compressor, dispatched, lost>>

Sample(k) ==
  LET v == current[k]
      dir == NextDir(k, v)
  IN  /\ v # sensor[k].value
      /\ IF Confirmed(dir)
           THEN /\ sensor' = [sensor EXCEPT ![k] = [value |-> v, dir |-> 0]]
                /\ Put(queue, Reading("sensor", k, v))
           ELSE /\ sensor' = [sensor EXCEPT ![k].dir = dir]
                /\ UNCHANGED <<queue, lost>>
      /\ UNCHANGED <<current, unit, is_pwr_on, shown, reported, compressor, dispatched>>

(***************************************************************************)
(* The alarm task.  Whether its puts to the other tasks find room is the   *)
(* business of those tasks' modules.                                       *)
(***************************************************************************)
Receive(from) == queue # <<>> /\ Head(queue).from = from
Rest == Tail(queue)
Take == queue' = Rest /\ lost' = lost

OutOfRange(k, v) == unit[k].config /\ (v > unit[k].high \/ v < unit[k].low)

Forward(k, v) ==
  compressor' = IF k = "temperature" THEN [compressor EXCEPT !.value = v] ELSE compressor

TellAll(k, v, blink, type) ==
  /\ Forward(k, v)
  /\ shown' = [shown EXCEPT ![k] = [value |-> v, blink |-> blink]]
  /\ reported' = [reported EXCEPT ![k] = type]

HandleErr ==
  /\ Receive("sensor") \/ Receive("self")
  /\ Head(queue).value = Err
  /\ LET k == Head(queue).kind
     IN  /\ unit' = [unit EXCEPT ![k].value = Err, ![k].alarm = TRUE]
         /\ TellAll(k, Err, TRUE, "ERR")
  /\ Take
  /\ UNCHANGED <<current, sensor, is_pwr_on, dispatched>>

\* A capacity out of its range sets the warning of the pressure.
Warned(k) == IF k = "capacity" THEN "pressure" ELSE k

HandleValue ==
  /\ Receive("sensor") \/ Receive("self")
  /\ Head(queue).value # Err
  /\ LET k == Head(queue).kind
         v == Head(queue).value
         good == [unit EXCEPT ![k].value = v, ![k].alarm = FALSE]
     IN  /\ unit' = IF OutOfRange(k, v) THEN [good EXCEPT ![Warned(k)].warning = TRUE]
                    ELSE [good EXCEPT ![k].warning = FALSE]
         /\ TellAll(k, v, OutOfRange(k, v), IF unit[k].alarm THEN "ERR_CLEAR" ELSE "VALUE")
  /\ Take
  /\ UNCHANGED <<current, sensor, is_pwr_on, dispatched>>

InvalidRange(k, r) == k = "temperature" /\ (r.high > 8 \/ r.low < 0)
AlarmRange(k, r) ==
  IF k = "temperature" THEN [high |-> r.high + 1, low |-> r.low - 1] ELSE r

SendToSelfNothing(k) == Take  \* mutant: the new limits do not update the alarm
SendToSelfAlways(k) ==  \* mutant: of an error, too
  Put(Rest, Reading("self", k, unit[k].value))
SendToSelf(k) ==
  IF unit[k].value = Err THEN Take ELSE Put(Rest, Reading("self", k, unit[k].value))

HandleConfig ==
  /\ Receive("report") /\ Head(queue).kind \in Kinds
  /\ LET k == Head(queue).kind
         r == Head(queue).range
         a == AlarmRange(k, r)
     IN  /\ ~InvalidRange(k, r)
         /\ unit' = [unit EXCEPT ![k].high = a.high, ![k].low = a.low, ![k].config = TRUE]
         /\ SendToSelf(k)
         /\ compressor' = IF k = "temperature" /\ unit[k].value # Err
                            THEN [compressor EXCEPT !.limits = r] ELSE compressor
  /\ UNCHANGED <<current, sensor, is_pwr_on, shown, reported, dispatched>>

HandleInvalidConfig ==
  /\ Receive("report") /\ Head(queue).kind \in Kinds
  /\ InvalidRange(Head(queue).kind, Head(queue).range)
  /\ Take
  /\ UNCHANGED <<current, sensor, unit, is_pwr_on, shown, reported, compressor, dispatched>>

HandleLock ==
  /\ Receive("report") /\ Head(queue).kind = "lock"
  /\ compressor' = [compressor EXCEPT !.lock = Head(queue).lock]
  /\ Take
  /\ UNCHANGED <<current, sensor, unit, is_pwr_on, shown, reported, dispatched>>

HandleTimer ==
  /\ Receive("timer")
  /\ is_pwr_on' = (~is_pwr_on /\ \E k \in Kinds : unit[k].alarm)
  /\ Take
  /\ UNCHANGED <<current, sensor, unit, shown, reported, compressor, dispatched>>

Handle ==
  HandleErr \/ HandleValue \/ HandleConfig \/ HandleInvalidConfig \/ HandleLock \/ HandleTimer

(***************************************************************************)
(* The periodic timer of the buzzer, and the configuration.                *)
(***************************************************************************)
TimerExpired ==
  /\ Put(queue, TimerTimeout)
  /\ UNCHANGED <<current, sensor, unit, is_pwr_on, shown, reported, compressor, dispatched>>

DispatchOrder == <<"lock", "temperature", "pressure", "capacity">>

Dispatch ==
  /\ dispatched < 4 * MaxDispatch
  /\ LET k == DispatchOrder[(dispatched % 4) + 1]
     IN  IF k = "lock" THEN \E l \in LockValues : Put(queue, Lock(l))
         ELSE \E r \in Ranges[k] : Put(queue, Config(k, r))
  /\ dispatched' = dispatched + 1
  /\ UNCHANGED <<current, sensor, unit, is_pwr_on, shown, reported, compressor>>

Init ==
  /\ current \in [Sampled -> Readings]
  /\ sensor = [k \in Sampled |-> [value |-> PowerOnValue, dir |-> 0]]
  /\ unit = [k \in Kinds |-> [value |-> 0, alarm |-> FALSE, warning |-> FALSE,
                              config |-> FALSE, high |-> 0, low |-> 0]]
  /\ is_pwr_on = FALSE /\ queue = <<>>
  /\ shown = [k \in Kinds |-> None] /\ reported = [k \in Kinds |-> None]
  /\ compressor = [value |-> None, limits |-> None, lock |-> None]
  /\ dispatched = 0 /\ lost = {}

Next ==
  \/ \E k \in Sampled, v \in Readings : Change(k, v)
  \/ \E k \in Sampled : Sample(k)
  \/ Handle \/ TimerExpired \/ Dispatch

Spec == Init /\ [][Next]_vars

\* The sensors are read for ever and the alarm task goes on.
FairSpec == Spec /\ WF_vars(Handle) /\ \A k \in Sampled : WF_vars(Sample(k))
-----------------------------------------------------------------------------
ReadingQueued(k) ==
  \E i \in 1 .. Len(queue) : queue[i].kind = k /\ queue[i].from \in {"sensor", "self"}

\* What the display shows of a kind is the value the alarm task holds, blinking
\* exactly when the sensor is broken or the value is out of the limits configured
\* last, as soon as no reading is on its way and none the task sent itself was
\* dropped.
ShownIsCurrent ==
  \A k \in Kinds : ReadingQueued(k) \/ <<"self", k>> \in lost \/ shown[k] = None
    \/ shown[k] = [value |-> unit[k].value,
                   blink |-> unit[k].value = Err \/ OutOfRange(k, unit[k].value)]

\* A broken sensor is reported once (report_task.c stores every error as a fault):
\* no second error is posted without a good value between them, unless the alarm
\* queue dropped that value.
ErrorReportedOnce ==
  (Receive("sensor") \/ Receive("self")) /\ Head(queue).value = Err =>
    LET k == Head(queue).kind IN reported[k] # "ERR" \/ <<"sensor", k>> \in lost

\* A sensor that keeps reading the same is believed in the end, from whatever
\* value and direction its task starts.
SettledIsAccepted ==
  \A k \in Sampled, v \in Readings :
    <>[](current[k] = v) => <>[](sensor[k].value = v)

\* Once no reading is queued, the alarm task holds the value the sensor task posted
\* last: the message it sends itself is there "to update the alarm status"
\* (alarm_task.c:263), not to bring an older value back.
ReadingIsCurrent ==
  lost = {} => \A k \in Sampled :
    ReadingQueued(k) \/ sensor[k].value = PowerOnValue \/ unit[k].value = sensor[k].value

\* Types; the alarm queue never holds more than QueueSize messages.
TypeOK ==
  /\ current \in [Sampled -> Readings]
  /\ sensor \in [Sampled -> [value : Readings \cup {PowerOnValue}, dir : -Confirm .. Confirm]]
  /\ \A k \in Kinds : unit[k].value \in Readings \cup {0} /\ unit[k].alarm \in BOOLEAN
  /\ is_pwr_on \in BOOLEAN /\ Len(queue) <= QueueSize
  /\ dispatched \in 0 .. 4 * MaxDispatch
=============================================================================
