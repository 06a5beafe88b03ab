-------------------------- MODULE CompressorProofs --------------------------
(***************************************************************************)
(* Theorems about Compressor, for every value of its constants.            *)
(***************************************************************************)
EXTENDS Compressor, TLAPS

-----------------------------------------------------------------------------
(***************************************************************************)
(* Messages and the queue.                                                 *)
(***************************************************************************)

\* What the type of a message says about its contents.
LEMMA MessageFields ==
  ASSUME NEW m \in Messages
  PROVE  /\ m.type \in Types
         /\ m.type \in TemperatureTypes => m.value \in Readings
         /\ m.type \in TemperatureTypes => (m.type = "TEMPERATURE_ERR" <=> m.value = Err)
         /\ m.type = "TEMPERATURE_CONFIG" => m.limits \in Limits
         /\ m.type = "LOCK_CONFIG" => m.lock \in LockValues
  BY TempsAssumption
     DEF Messages, Timeout, Lock, Config, Temperature, Types, Timers, TemperatureTypes, Readings

\* A message the program builds is a message of the right type.
LEMMA MessagesBuilt ==
  /\ \A v \in Readings : Temperature(v) \in Messages /\ Temperature(v).type \in TemperatureTypes
  /\ \A t \in Timers : Timeout(t) \in Messages /\ Timeout(t).type = t
  /\ \A v \in LockValues : Lock(v) \in Messages /\ Lock(v).type = "LOCK_CONFIG"
  /\ \A l \in Limits : Config(l) \in Messages /\ Config(l).type = "TEMPERATURE_CONFIG"
  BY DEF Messages, Timeout, Lock, Config, Temperature, TemperatureTypes, Readings

QueueOK(q) == q \in Seq(Messages) /\ Len(q) <= QueueSize

\* Taking the first message.
LEMMA TailOK ==
  ASSUME NEW q, QueueOK(q), q # <<>>
  PROVE  /\ Head(q) \in Messages
         /\ QueueOK(Tail(q)) /\ Len(Tail(q)) = Len(q) - 1
         /\ \A i \in 1 .. Len(Tail(q)) : Tail(q)[i] = q[i + 1]
         /\ Head(q) = q[1] /\ Len(q) \in Nat \ {0}
  BY QueueAssumption DEF QueueOK

\* Putting a message never exceeds the queue, and either the message is its
\* last one or it is recorded as lost.
LEMMA PutOK ==
  ASSUME NEW q, QueueOK(q), NEW m \in Messages, lost \subseteq Types, Put(q, m)
  PROVE  /\ QueueOK(queue') /\ lost' \subseteq Types
         /\ lost \subseteq lost'
         /\ Len(q) <= Len(queue') /\ \A i \in 1 .. Len(q) : queue'[i] = q[i]
         /\ \/ /\ Len(queue') = Len(q) + 1 /\ queue'[Len(q) + 1] = m
               /\ lost' = lost
            \/ /\ Len(queue') = Len(q)
               /\ m.type \in lost' /\ Len(q) >= QueueSize
  <1>1. m.type \in Types
    BY MessageFields
  <1>2. CASE Len(q) < QueueSize
    BY <1>2, QueueAssumption DEF Put, QueueOK
  <1>3. CASE ~(Len(q) < QueueSize)
    BY <1>1, <1>3, QueueAssumption DEF Put, QueueOK
  <1>. QED  BY <1>2, <1>3

-----------------------------------------------------------------------------
(***************************************************************************)
(* Types.                                                                  *)
(***************************************************************************)
TimersOK(f) == f \in [Timers -> Int] /\ \A t \in Timers : f[t] \in Stopped .. Period[t]

\* The periods are positive, and starting or stopping a timer keeps all timers
\* between Stopped and their periods.
LEMMA PeriodOK == Period \in [Timers -> Nat \ {0}] /\ TimersOK(Period)
  BY PeriodAssumption DEF Period, Timers, TimersOK, Stopped

LEMMA TimersSet ==
  ASSUME NEW f, TimersOK(f), NEW t \in Timers, NEW n \in {Stopped, Period[t]}
  PROVE  TimersOK([f EXCEPT ![t] = n])
  BY PeriodOK DEF TimersOK, Stopped

LEMMA TypeInit == Init => TypeOK
  <1> SUFFICES ASSUME Init PROVE TypeOK
    OBVIOUS
  <1>1. queue \in Seq(Messages) /\ Len(queue) <= QueueSize
    BY QueueAssumption DEF Init
  <1>2. TimersOK(timer)
    BY PeriodAssumption DEF Init, TimersOK, Timers, Stopped, Period
  <1>3. 0 \in Readings
    BY TempsAssumption DEF Readings
  <1>4. lock \in BOOLEAN /\ config \in BOOLEAN /\ power \in BOOLEAN /\ shown \in BOOLEAN
    BY DEF Init
  <1>5. dispatched \in 0 .. 2 * MaxDispatch /\ burst \in 0 .. MaxBurst /\ since \in 0 .. Horizon
    BY ConfigAssumption, QueueAssumption, PeriodAssumption DEF Init
  <1> QED
    BY <1>1, <1>2, <1>3, <1>4, <1>5 DEF Init, TypeOK, TimersOK, Statuses

\* The queue part of the type invariant of a step that handles a message and
\* asks for a new evaluation.
LEMMA SelfOK ==
  ASSUME TypeOK, queue # <<>>, temperature' \in Readings, SendTemperatureToSelf
  PROVE  queue' \in Seq(Messages) /\ Len(queue') <= QueueSize /\ lost' \subseteq Types
  <1>1. QueueOK(Rest) /\ lost \subseteq Types
    BY TailOK DEF QueueOK, Rest, TypeOK
  <1>2. Temperature(temperature') \in Messages
    BY MessagesBuilt
  <1>3. Put(Rest, Temperature(temperature'))
    BY DEF SendTemperatureToSelf
  <1> QED  BY <1>1, <1>2, <1>3, PutOK DEF QueueOK

\* The same of a message from outside the task.
LEMMA PostOK ==
  ASSUME TypeOK, NEW m \in Messages, Put(queue, m)
  PROVE  queue' \in Seq(Messages) /\ Len(queue') <= QueueSize /\ lost' \subseteq Types
  BY PutOK DEF QueueOK, TypeOK

\* The display message and the pin keep their types.
LEMMA ShownOK ==
  ASSUME shown \in BOOLEAN, ShowCompressor
  PROVE  shown' \in BOOLEAN
  BY DEF ShowCompressor

LEMMA PinOK ==
  ASSUME TypeOK, TurnOn \/ \E why \in {"WAIT", "REST"} : TurnOff(why)
  PROVE  power' \in BOOLEAN /\ since' \in 0 .. Horizon /\ reason' \in {"BOOT", "WAIT", "REST"}
  <1>1. power' \in BOOLEAN /\ reason' \in {"BOOT", "WAIT", "REST"}
    BY Zenon DEF TypeOK, TurnOn, TurnOff
  <1>2. since' \in {0, since}
    BY Zenon DEF TurnOn, TurnOff
  <1>3. since' \in 0 .. Horizon
    BY <1>2, PeriodAssumption DEF TypeOK
  <1> QED  BY <1>1, <1>3

LEMMA TypeNext == TypeOK /\ [Next]_vars => TypeOK'
  <1> SUFFICES ASSUME TypeOK, [Next]_vars PROVE TypeOK'
    OBVIOUS
  <1> USE DEF TypeOK
  <1>q. queue # <<>> =>
          /\ Head(queue) \in Messages
          /\ Rest \in Seq(Messages) /\ Len(Rest) <= QueueSize
    BY TailOK DEF QueueOK, Rest
  <1>t. TimersOK(timer)
    BY DEF TimersOK
  <1>1. CASE HandleLock
    <2>1. TimersOK(timer')
      <3> DEFINE f == [timer EXCEPT !["WORK_TIMEOUT"] = Stopped]
                 g == [f EXCEPT !["WAIT_TIMEOUT"] = Stopped]
      <3>1. TimersOK(f)
        BY <1>t, TimersSet DEF Timers
      <3>2. TimersOK(g)
        BY <3>1, TimersSet DEF Timers
      <3>3. timer' = [g EXCEPT !["REST_TIMEOUT"] = Stopped]
        BY <1>1 DEF HandleLock
      <3> QED  BY <3>2, <3>3, TimersSet DEF Timers
    <2> QED
      BY <1>1, <1>q, <2>1, ShownOK, PinOK
         DEF HandleLock, Receive, Take, Statuses, envVars, TimersOK
  <1>2. CASE HandleUnlock
    BY <1>2, SelfOK DEF HandleUnlock, Receive, envVars, histVars
  <1>3. CASE HandleRepeatedLock
    BY <1>3, <1>q DEF HandleRepeatedLock, Receive, Take, taskVars, envVars, histVars
  <1>4. CASE HandleTemperatureConfig
    <2>1. Head(queue).limits \in Limits
      BY <1>4, <1>q, MessageFields DEF HandleTemperatureConfig, Receive
    <2>2. temperature_work' \in Int /\ temperature_stop' \in Int
      BY <1>4, <2>1, ConfigAssumption DEF HandleTemperatureConfig
    <2> QED
      BY <1>4, <2>2, SelfOK DEF HandleTemperatureConfig, Receive, envVars, histVars
  <1>5. CASE HandlePwrWaitTimeout
    BY <1>5, SelfOK DEF HandlePwrWaitTimeout, Receive, envVars, histVars, Statuses
  <1>v. ASSUME NEW type \in TemperatureTypes, Receive(type)
        PROVE  Head(queue).value \in Readings
    BY <1>v, <1>q, MessageFields DEF Receive
  <1>6. CASE TemperatureStops
    <2>1. TimersOK(timer')
      BY <1>6, <1>t, TimersSet DEF TemperatureStops, StopAndStart, Timers
    <2> QED
      BY <1>6, <1>q, <1>v, <2>1, ShownOK, PinOK
         DEF TemperatureStops, Receive, TemperatureTypes, Statuses,
             envVars, TimersOK
  <1>7. CASE TemperatureStarts
    <2>1. TimersOK(timer')
      BY <1>7, <1>t, TimersSet DEF TemperatureStarts, Start, Timers
    <2> QED
      BY <1>7, <1>q, <1>v, <2>1, ShownOK, PinOK
         DEF TemperatureStarts, Receive, TemperatureTypes, Statuses,
             envVars, TimersOK
  <1>8. CASE TemperatureCached \/ ErrorCached
    BY <1>8, <1>q, <1>v
       DEF TemperatureCached, ErrorCached, Receive, TemperatureTypes, envVars, histVars
  <1>9. CASE ErrorStops
    <2>1. TimersOK(timer')
      BY <1>9, <1>t, TimersSet DEF ErrorStops, StopAndStart, Timers
    <2> QED
      BY <1>9, <1>q, <1>v, <2>1, ShownOK, PinOK
         DEF ErrorStops, Receive, TemperatureTypes, Statuses,
             envVars, TimersOK
  <1>10. CASE WorkTimeoutRests
    <2>1. TimersOK(timer')
      BY <1>10, <1>t, TimersSet DEF WorkTimeoutRests, Start, Timers
    <2> QED
      BY <1>10, <1>q, <2>1, ShownOK, PinOK
         DEF WorkTimeoutRests, Receive, Statuses, envVars, TimersOK
  <1>11. CASE WaitTimeoutReady
    BY <1>11, SelfOK DEF WaitTimeoutReady, Receive, envVars, histVars, Statuses
  <1>12. CASE RestTimeoutReady
    BY <1>12, SelfOK DEF RestTimeoutReady, Receive, envVars, histVars, Statuses
  <1>13. CASE StaleTimeout
    BY <1>13, <1>q DEF StaleTimeout, Receive, Take, taskVars, envVars, histVars
  <1>14. ASSUME NEW t \in Timers, Expire(t) PROVE TypeOK'
    <2>1. TimersOK(timer')
      BY <1>14, <1>t, TimersSet DEF Expire
    <2> QED
      BY <1>14, <2>1, MessagesBuilt, PostOK DEF Expire, taskVars, envVars, histVars, TimersOK
  <1>15. CASE Tick
    <2>1. TimersOK(timer')
      BY <1>15, <1>t, PeriodOK DEF Tick, TimersOK, Stopped
    <2> QED
      BY <1>15, <2>1, QueueAssumption, PeriodAssumption DEF Tick, taskVars, TimersOK
  <1>16. ASSUME NEW v \in Readings, AlarmTemperature(v) PROVE TypeOK'
    BY <1>16, MessagesBuilt, PostOK, QueueAssumption DEF AlarmTemperature, taskVars, histVars
  <1>17. ASSUME NEW v \in LockValues, AlarmLock(v) PROVE TypeOK'
    BY <1>17, MessagesBuilt, PostOK, QueueAssumption, ConfigAssumption
       DEF AlarmLock, taskVars, histVars
  <1>18. ASSUME NEW l \in Limits, AlarmLimits(l) PROVE TypeOK'
    <2>1. dispatched' \in 0 .. 2 * MaxDispatch
      BY <1>18, ConfigAssumption DEF AlarmLimits
    <2>2. queue' \in Seq(Messages) /\ Len(queue') <= QueueSize /\ lost' \subseteq Types
      BY <1>18, MessagesBuilt, PostOK DEF AlarmLimits
    <2> QED  BY <1>18, <2>1, <2>2, QueueAssumption DEF AlarmLimits, taskVars, histVars
  <1>19. CASE UNCHANGED vars
    BY <1>19 DEF vars, taskVars, envVars, histVars
  <1> QED
    BY <1>1, <1>2, <1>3, <1>4, <1>5, <1>6, <1>7, <1>8, <1>9, <1>10, <1>11, <1>12, <1>13,
       <1>14, <1>15, <1>16, <1>17, <1>18, <1>19
       DEF Next, Handle, Daemon, Alarm

\* Every variable keeps its type; no queued reading claims to be a value and
\* carries the error code, or the other way round.
THEOREM TypeCorrect == Spec => []TypeOK
  BY TypeInit, TypeNext, PTL DEF Spec

-----------------------------------------------------------------------------
(***************************************************************************)
(* The pin, the lock and the status.                                       *)
(***************************************************************************)
PinInv == LockedIsOff /\ WorkIsOn

LEMMA PinInit == Init => PinInv
  BY DEF Init, PinInv, LockedIsOff, WorkIsOn

\* The actions that leave the task alone.
Others == StaleTimeout \/ HandleRepeatedLock \/ Daemon \/ Tick \/ Alarm \/ UNCHANGED vars

LEMMA OthersKeepTask == Others => UNCHANGED taskVars
  BY DEF Others, StaleTimeout, HandleRepeatedLock, Daemon, Expire, Tick, Alarm,
         AlarmTemperature, AlarmLock, AlarmLimits, vars

LEMMA PinNext == TypeOK /\ PinInv /\ [Next]_vars => PinInv'
  <1> SUFFICES ASSUME TypeOK, PinInv, [Next]_vars PROVE PinInv'
    OBVIOUS
  <1> USE DEF PinInv, LockedIsOff, WorkIsOn
  <1>1. CASE HandleLock
    BY <1>1 DEF HandleLock, TurnOff
  <1>2. CASE HandleUnlock
    BY <1>2 DEF HandleUnlock
  <1>3. CASE HandleTemperatureConfig
    BY <1>3 DEF HandleTemperatureConfig
  <1>4. CASE HandlePwrWaitTimeout
    BY <1>4 DEF HandlePwrWaitTimeout
  <1>5. CASE TemperatureStops \/ ErrorStops \/ WorkTimeoutRests
    BY <1>5 DEF TemperatureStops, ErrorStops, WorkTimeoutRests, TurnOff
  <1>6. CASE TemperatureStarts
    BY <1>6 DEF TemperatureStarts, Controlled, TurnOn
  <1>7. CASE TemperatureCached \/ ErrorCached
    BY <1>7 DEF TemperatureCached, ErrorCached
  <1>8. CASE WaitTimeoutReady \/ RestTimeoutReady
    BY <1>8 DEF WaitTimeoutReady, RestTimeoutReady
  <1>9. CASE Others
    BY <1>9, OthersKeepTask DEF taskVars
  <1> QED
    BY <1>1, <1>2, <1>3, <1>4, <1>5, <1>6, <1>7, <1>8, <1>9 DEF Next, Handle, Others

\* A locked machine has its compressor off, and a working one is powered,
\* unlocked and configured, in every run and whatever the queue drops.
THEOREM LockedCompressorIsOff == Spec => [](LockedIsOff /\ WorkIsOn)
  <1>1. Init => TypeOK /\ PinInv
    BY TypeInit, PinInit
  <1>2. (TypeOK /\ PinInv) /\ [Next]_vars => (TypeOK /\ PinInv)'
    BY TypeNext, PinNext
  <1>3. TypeOK /\ PinInv => LockedIsOff /\ WorkIsOn
    BY DEF PinInv
  <1> QED  BY <1>1, <1>2, <1>3, PTL DEF Spec

-----------------------------------------------------------------------------
(***************************************************************************)
(* What stays queued.  InQ is InQueue of any queue.                        *)
(***************************************************************************)
InQ(q, S) == \E i \in 1 .. Len(q) : q[i].type \in S

\* Taking a message of another type leaves one of a type in S queued.
LEMMA TakeKeeps ==
  ASSUME NEW q, QueueOK(q), q # <<>>, NEW S, Head(q).type \notin S, InQ(q, S)
  PROVE  InQ(Tail(q), S)
  <1>1. PICK i \in 1 .. Len(q) : q[i].type \in S
    BY DEF InQ
  <1>2. i # 1
    BY <1>1, TailOK
  <1>3. i - 1 \in 1 .. Len(Tail(q)) /\ Tail(q)[i - 1] = q[i]
    BY <1>2, TailOK
  <1> QED  BY <1>1, <1>3 DEF InQ

\* A put leaves what was queued, and its message is queued or recorded as lost.
LEMMA PutKeeps ==
  ASSUME NEW q, QueueOK(q), NEW m \in Messages, lost \subseteq Types, Put(q, m), NEW S
  PROVE  /\ InQ(q, S) => InQ(queue', S)
         /\ lost \subseteq lost'
         /\ m.type \in S => InQ(queue', S) \/ lost' \cap S # {}
  <1>1. InQ(q, S) => InQ(queue', S)
    <2>1. Len(q) <= Len(queue') /\ \A i \in 1 .. Len(q) : queue'[i] = q[i]
      BY PutOK
    <2> QED  BY <2>1, PutOK DEF InQ, QueueOK
  <1>2. m.type \in S => InQ(queue', S) \/ lost' \cap S # {}
    <2>1. CASE Len(queue') = Len(q) + 1 /\ queue'[Len(q) + 1] = m
      BY <2>1 DEF InQ, QueueOK
    <2>2. CASE m.type \in lost'
      BY <2>2
    <2> QED  BY <2>1, <2>2, PutOK
  <1> QED  BY <1>1, <1>2, PutOK

\* The same of a step of the handler that leaves the queue to the rest, or to
\* the rest and a request for a new evaluation.
LEMMA HandlerKeeps ==
  ASSUME TypeOK, queue # <<>>, temperature' \in Readings,
         queue' = Rest \/ SendTemperatureToSelf, NEW S, Head(queue).type \notin S,
         InQueue(S)
  PROVE  InQueue(S)'
  <1>1. QueueOK(queue) /\ QueueOK(Rest) /\ lost \subseteq Types
    BY TailOK DEF TypeOK, QueueOK, Rest
  <1>2. InQ(Rest, S)
    BY <1>1, TakeKeeps DEF InQueue, InQ, Rest
  <1>3. CASE queue' = Rest
    BY <1>2, <1>3 DEF InQueue, InQ
  <1>4. CASE SendTemperatureToSelf
    <2>1. InQ(queue', S)
      BY <1>1, <1>2, <1>4, MessagesBuilt, PutKeeps DEF SendTemperatureToSelf
    <2> QED  BY <2>1 DEF InQueue, InQ
  <1> QED  BY <1>3, <1>4

\* A message posted from outside the task.
LEMMA PostKeeps ==
  ASSUME TypeOK, NEW m \in Messages, Put(queue, m), NEW S
  PROVE  /\ InQueue(S) => InQueue(S)'
         /\ lost \subseteq lost'
         /\ m.type \in S => InQueue(S)' \/ lost' \cap S # {}
  <1>1. QueueOK(queue) /\ lost \subseteq Types
    BY DEF TypeOK, QueueOK
  <1> QED  BY <1>1, PutKeeps DEF InQueue, InQ

\* A request for a new evaluation is queued or recorded as lost.
LEMMA SelfPending ==
  ASSUME TypeOK, queue # <<>>, temperature' \in Readings, SendTemperatureToSelf
  PROVE  EvaluationPending' /\ lost \subseteq lost'
  <1>1. QueueOK(Rest) /\ lost \subseteq Types
    BY TailOK DEF TypeOK, QueueOK, Rest
  <1>2. Temperature(temperature') \in Messages
        /\ Temperature(temperature').type \in TemperatureTypes
    BY MessagesBuilt
  <1>3. (InQ(queue', TemperatureTypes) \/ lost' \cap TemperatureTypes # {}) /\ lost \subseteq lost'
    BY <1>1, <1>2, PutKeeps DEF SendTemperatureToSelf
  <1> QED  BY <1>3 DEF EvaluationPending, InQueue, InQ

-----------------------------------------------------------------------------
(***************************************************************************)
(* Timeouts are never forgotten.                                           *)
(***************************************************************************)

\* A timeout that is pending stays so while its timer is left alone and a
\* message of another type is handled.
LEMMA PendingKept ==
  ASSUME TypeOK, queue # <<>>, temperature' \in Readings,
         queue' = Rest \/ SendTemperatureToSelf, lost \ TemperatureTypes \subseteq lost',
         NEW t \in Timers, Head(queue).type # t, timer'[t] = timer[t], Pending(t)
  PROVE  Pending(t)'
  <1>1. t \notin TemperatureTypes
    BY DEF Timers, TemperatureTypes
  <1>2. CASE timer[t] # Stopped
    BY <1>2 DEF Pending, Stopped
  <1>3. CASE InQueue({t})
    <2>1. InQueue({t})'
      BY <1>3, HandlerKeeps
    <2> QED  BY <2>1 DEF Pending
  <1>4. CASE t \in lost
    BY <1>1, <1>4 DEF Pending
  <1> QED  BY <1>2, <1>3, <1>4 DEF Pending

LEMMA WakeupInit == Init => WakeupPending
  BY PeriodAssumption DEF Init, WakeupPending, Pending, Stopped, Timers

LEMMA WakeupNext == TypeOK /\ WakeupPending /\ [Next]_vars => WakeupPending'
  <1> SUFFICES ASSUME TypeOK, WakeupPending, [Next]_vars PROVE WakeupPending'
    OBVIOUS
  <1> USE DEF WakeupPending
  <1>0. TypeOK'
    BY TypeNext
  <1>r. temperature' \in Readings /\ lost \subseteq Types
    BY <1>0 DEF TypeOK
  <1>t. Timers = {"WORK_TIMEOUT", "WAIT_TIMEOUT", "REST_TIMEOUT", "PWR_WAIT_TIMEOUT"}
    BY DEF Timers
  <1>s. ASSUME NEW t \in Timers, timer' = Start(t)
        PROVE  Pending(t)'
    <2>1. timer'[t] = Period[t]
      BY <1>s DEF TypeOK, Start
    <2>2. Period[t] # Stopped
      BY PeriodOK DEF Stopped
    <2> QED  BY <2>1, <2>2 DEF Pending, Stopped
  <1>u. ASSUME NEW t \in Timers, NEW u \in Timers, timer' = StopAndStart(t, u)
        PROVE  Pending(u)'
    <2>1. timer'[u] = Period[u]
      BY <1>u DEF TypeOK, StopAndStart
    <2>2. Period[u] # Stopped
      BY PeriodOK DEF Stopped
    <2> QED  BY <2>1, <2>2 DEF Pending, Stopped
  <1>1. CASE HandleLock
    BY <1>1 DEF HandleLock
  <1>2. CASE HandleUnlock \/ HandleTemperatureConfig
    <2>1. /\ queue # <<>> /\ Head(queue).type \notin Timers /\ SendTemperatureToSelf
          /\ UNCHANGED <<timer, status>>
      BY <1>2, <1>t DEF HandleUnlock, HandleTemperatureConfig, Receive
    <2>2. lost \subseteq lost'
      BY <1>r, <2>1, SelfPending
    <2>3. \A t \in Timers : Pending(t) => Pending(t)'
      BY <1>r, <2>1, <2>2, PendingKept
    <2> QED  BY <2>1, <2>3, <1>t
  <1>3. CASE HandlePwrWaitTimeout \/ WaitTimeoutReady \/ RestTimeoutReady
    BY <1>3 DEF HandlePwrWaitTimeout, WaitTimeoutReady, RestTimeoutReady
  <1>4. CASE TemperatureStops \/ ErrorStops
    BY <1>4, <1>t, <1>u DEF TemperatureStops, ErrorStops
  <1>5. CASE TemperatureStarts
    BY <1>5, <1>t, <1>s DEF TemperatureStarts
  <1>6. CASE WorkTimeoutRests
    BY <1>6, <1>t, <1>s DEF WorkTimeoutRests
  <1>7. CASE TemperatureCached \/ ErrorCached \/ HandleRepeatedLock
    <2>1. /\ queue # <<>> /\ Head(queue).type \notin Timers /\ queue' = Rest
          /\ lost \ TemperatureTypes \subseteq lost' /\ UNCHANGED <<timer, status>>
      BY <1>7, <1>t
         DEF TemperatureCached, ErrorCached, HandleRepeatedLock, Receive, Take, taskVars
    <2>2. \A t \in Timers : Pending(t) => Pending(t)'
      BY <1>r, <2>1, PendingKept
    <2> QED  BY <2>1, <2>2, <1>t
  <1>8. CASE StaleTimeout
    <2>1. /\ queue # <<>> /\ queue' = Rest /\ lost' = lost /\ UNCHANGED <<timer, status>>
      BY <1>8 DEF StaleTimeout, Receive, Take, taskVars
    <2>2. \A t \in Timers : Head(queue).type # t /\ Pending(t) => Pending(t)'
      BY <1>r, <2>1, PendingKept
    <2>3. \/ Head(queue).type = "WORK_TIMEOUT" /\ status # "WORK"
          \/ Head(queue).type = "WAIT_TIMEOUT" /\ status \notin {"WAIT", "WAIT_CONTINUE"}
          \/ Head(queue).type = "REST_TIMEOUT" /\ status # "REST"
      BY <1>8 DEF StaleTimeout, Receive
    <2> QED  BY <2>1, <2>2, <2>3, <1>t
  <1>9. ASSUME NEW m \in Messages, Put(queue, m), UNCHANGED <<timer, status>>
        PROVE  WakeupPending'
    <2>1. \A t \in Timers : Pending(t) => Pending(t)'
      BY <1>9, PostKeeps DEF Pending
    <2> QED  BY <1>9, <2>1, <1>t
  <1>10. ASSUME NEW t \in Timers, Expire(t) PROVE WakeupPending'
    <2>1. Timeout(t) \in Messages /\ Timeout(t).type = t
      BY MessagesBuilt
    <2>2. Pending(t)'
      BY <1>10, <2>1, PostKeeps DEF Expire, Pending
    <2>3. \A u \in Timers \ {t} : Pending(u) => Pending(u)'
      BY <1>10, <2>1, PostKeeps DEF Expire, Pending, TypeOK
    <2>4. status' = status
      BY <1>10 DEF Expire, taskVars
    <2> QED  BY <2>2, <2>3, <2>4, <1>t
  <1>11. CASE Tick
    <2>1. \A t \in Timers : timer[t] # Stopped => timer'[t] # Stopped
      BY <1>11 DEF Tick, TypeOK, Stopped
    <2>2. \A t \in Timers : Pending(t) => Pending(t)'
      BY <1>11, <2>1 DEF Tick, Pending, InQueue, Stopped
    <2> QED  BY <1>11, <2>2, <1>t DEF Tick, taskVars
  <1>12. CASE Alarm
    <2>1. ASSUME NEW v \in Readings, AlarmTemperature(v) PROVE WakeupPending'
      BY <2>1, <1>9, MessagesBuilt DEF AlarmTemperature, taskVars
    <2>2. ASSUME NEW v \in LockValues, AlarmLock(v) PROVE WakeupPending'
      BY <2>2, <1>9, MessagesBuilt DEF AlarmLock, taskVars
    <2>3. ASSUME NEW l \in Limits, AlarmLimits(l) PROVE WakeupPending'
      <3>1. CASE LimitsValid(l) /\ reading # Err
        BY <2>3, <3>1, <1>9, MessagesBuilt DEF AlarmLimits, taskVars
      <3>2. CASE ~(LimitsValid(l) /\ reading # Err)
        BY <2>3, <3>2 DEF AlarmLimits, taskVars, Pending, InQueue
      <3> QED  BY <3>1, <3>2
    <2> QED  BY <1>12, <2>1, <2>2, <2>3 DEF Alarm
  <1>13. CASE UNCHANGED vars
    BY <1>13 DEF vars, taskVars, Pending, InQueue
  <1> QED
    BY <1>1, <1>2, <1>3, <1>4, <1>5, <1>6, <1>7, <1>8, <1>10, <1>11, <1>12, <1>13
       DEF Next, Handle, Daemon

\* A status that only a timeout ends always has that timeout coming, unless the
\* full queue dropped its message.
THEOREM WakeupsAreNotForgotten == Spec => []WakeupPending
  <1>1. Init => TypeOK /\ WakeupPending
    BY TypeInit, WakeupInit
  <1>2. (TypeOK /\ WakeupPending) /\ [Next]_vars => (TypeOK /\ WakeupPending)'
    BY TypeNext, WakeupNext
  <1> QED  BY <1>1, <1>2, PTL DEF Spec

-----------------------------------------------------------------------------
(***************************************************************************)
(* Evaluations are never forgotten.                                        *)
(***************************************************************************)
LEMMA EvaluationInit == Init => ReadingIsActedOn
  BY DEF Init, ReadingIsActedOn, NoMissedStart, NoMissedStop, Controlled

\* The steps that leave the task alone also leave a pending evaluation pending.
LEMMA OthersKeepEvaluation ==
  ASSUME TypeOK, TypeOK', Others
  PROVE  EvaluationPending => EvaluationPending'
  <1> SUFFICES ASSUME EvaluationPending PROVE EvaluationPending'
    OBVIOUS
  <1> USE DEF EvaluationPending
  <1>1. CASE StaleTimeout \/ HandleRepeatedLock
    <2>1. /\ queue # <<>> /\ Head(queue).type \notin TemperatureTypes
          /\ queue' = Rest /\ lost' = lost
      BY <1>1 DEF StaleTimeout, HandleRepeatedLock, Receive, Take, TemperatureTypes
    <2>2. InQueue(TemperatureTypes) => InQueue(TemperatureTypes)'
      BY <2>1, HandlerKeeps DEF TypeOK
    <2> QED  BY <2>1, <2>2
  <1>2. ASSUME NEW m \in Messages, Put(queue, m)
        PROVE  EvaluationPending'
    BY <1>2, PostKeeps
  <1>3. CASE Daemon
    BY <1>2, <1>3, MessagesBuilt DEF Daemon, Expire
  <1>4. CASE Alarm
    <2>1. ASSUME NEW l \in Limits, AlarmLimits(l) PROVE EvaluationPending'
      BY <2>1, <1>2, MessagesBuilt DEF AlarmLimits, InQueue
    <2> QED
      BY <1>2, <1>4, <2>1, MessagesBuilt DEF Alarm, AlarmTemperature, AlarmLock
  <1>5. CASE Tick \/ UNCHANGED vars
    BY <1>5 DEF Tick, vars, InQueue
  <1> QED  BY <1>1, <1>3, <1>4, <1>5 DEF Others

LEMMA EvaluationNext ==
  TypeOK /\ PinInv /\ ReadingIsActedOn /\ [Next]_vars => ReadingIsActedOn'
  <1> SUFFICES ASSUME TypeOK, PinInv, ReadingIsActedOn, [Next]_vars PROVE ReadingIsActedOn'
    OBVIOUS
  <1> USE DEF ReadingIsActedOn, NoMissedStart, NoMissedStop
  <1>0. TypeOK'
    BY TypeNext
  <1>v. ASSUME NEW type \in TemperatureTypes, Receive(type)
        PROVE  /\ Head(queue).value \in Readings
               /\ type = "TEMPERATURE_ERR" <=> Head(queue).value = Err
    <2>1. Head(queue) \in Messages
      BY <1>v, TailOK DEF Receive, TypeOK, QueueOK
    <2> QED  BY <1>v, <2>1, MessageFields DEF Receive
  <1>1. CASE HandleLock
    BY <1>1 DEF HandleLock, Controlled
  <1>2. CASE \/ HandleUnlock \/ HandleTemperatureConfig \/ HandlePwrWaitTimeout
             \/ WaitTimeoutReady \/ RestTimeoutReady
    <2>1. queue # <<>> /\ SendTemperatureToSelf
      BY <1>2 DEF HandleUnlock, HandleTemperatureConfig, HandlePwrWaitTimeout,
                  WaitTimeoutReady, RestTimeoutReady, Receive
    <2>2. EvaluationPending'
      BY <1>0, <2>1, SelfPending DEF TypeOK
    <2> QED  BY <2>2
  <1>3. CASE TemperatureStops \/ ErrorStops \/ WorkTimeoutRests
    <2>1. status' \in {"WAIT", "WAIT_CONTINUE", "REST"}
      BY <1>3 DEF TemperatureStops, ErrorStops, WorkTimeoutRests
    <2> QED  BY <2>1 DEF MayStart
  <1>4. CASE TemperatureStarts
    <2>1. /\ status' = "WORK" /\ temperature' = Head(queue).value
          /\ UNCHANGED <<temperature_work, temperature_stop>>
          /\ MayStart(Head(queue).value)
      BY <1>4 DEF TemperatureStarts
    <2>2. temperature' # Err
      BY <1>4, <1>v, <2>1 DEF TemperatureStarts, TemperatureTypes
    <2> QED  BY <2>1, <2>2 DEF MayStart
  <1>5. CASE TemperatureCached
    <2>1. /\ temperature' = Head(queue).value
          /\ UNCHANGED <<status, lock, config, temperature_work, temperature_stop>>
          /\ Controlled => ~MustStop(temperature') /\ ~MayStart(temperature')
      BY <1>5 DEF TemperatureCached
    <2>2. NoMissedStart'
      BY <2>1 DEF Controlled, MayStart
    <2>3. ASSUME status' = "WORK" PROVE temperature' # Err /\ temperature' > temperature_stop'
      <3>1. Controlled
        BY <2>1, <2>3 DEF PinInv, WorkIsOn, Controlled
      <3>2. temperature' \in Temps
        BY <1>5, <1>v, <2>1 DEF TemperatureCached, TemperatureTypes, Readings
      <3> QED
        BY <2>1, <2>3, <3>1, <3>2, TempsAssumption DEF MustStop, TypeOK
    <2> QED  BY <2>2, <2>3
  <1>6. CASE ErrorCached
    <2>1. temperature' = Err /\ status' # "WORK"
      BY <1>6, <1>v DEF ErrorCached, TemperatureTypes
    <2> QED  BY <2>1
  <1>7. CASE Others
    <2>1. EvaluationPending => EvaluationPending'
      BY <1>0, <1>7, OthersKeepEvaluation
    <2>2. UNCHANGED taskVars
      BY <1>7, OthersKeepTask
    <2> QED  BY <2>1, <2>2 DEF taskVars, Controlled, MayStart
  <1> QED
    BY <1>1, <1>2, <1>3, <1>4, <1>5, <1>6, <1>7 DEF Next, Handle, Others

\* A reading that would start a ready compressor, or stop a working one, is never
\* forgotten: unless the full queue dropped it, it is still to be handled.
THEOREM EvaluationsAreNotForgotten == Spec => []ReadingIsActedOn
  <1>1. Init => TypeOK /\ PinInv /\ ReadingIsActedOn
    BY TypeInit, PinInit, EvaluationInit
  <1>2. (TypeOK /\ PinInv /\ ReadingIsActedOn) /\ [Next]_vars
          => (TypeOK /\ PinInv /\ ReadingIsActedOn)'
    BY TypeNext, PinNext, EvaluationNext
  <1> QED  BY <1>1, <1>2, PTL DEF Spec

-----------------------------------------------------------------------------
(***************************************************************************)
(* A queue with a slot for every timer and every message the alarm task    *)
(* posts between two ticks never drops anything.  The invariant counts the *)
(* messages still to come from timers that are due.                        *)
(***************************************************************************)
DueOne(t) == IF Due(t) THEN 1 ELSE 0
DueCount ==
  DueOne("WORK_TIMEOUT") + DueOne("WAIT_TIMEOUT") + DueOne("REST_TIMEOUT")
    + DueOne("PWR_WAIT_TIMEOUT")
LossInv == lost = {} /\ Len(queue) + DueCount <= burst + 4

\* A step of the handler makes the queue no longer, and drops nothing.
LEMMA HandlerShortens ==
  ASSUME TypeOK, lost = {}, queue # <<>>, temperature' \in Readings,
         (queue' = Rest /\ lost' \subseteq lost) \/ SendTemperatureToSelf
  PROVE  lost' = {} /\ Len(queue') <= Len(queue) /\ Len(queue') \in Nat
  <1>1. QueueOK(Rest) /\ Len(Rest) = Len(queue) - 1 /\ Len(queue) \in Nat /\ Len(queue) <= QueueSize
    BY TailOK DEF TypeOK, QueueOK, Rest
  <1>2. CASE queue' = Rest /\ lost' \subseteq lost
    BY <1>1, <1>2 DEF QueueOK
  <1>3. CASE SendTemperatureToSelf
    <2>1. Len(Rest) < QueueSize
      BY <1>1, QueueAssumption
    <2>2. queue' = Append(Rest, Temperature(temperature')) /\ lost' = lost
      BY <1>3, <2>1 DEF SendTemperatureToSelf, Put
    <2>3. Len(queue') = Len(Rest) + 1
      BY <1>1, <2>2, MessagesBuilt DEF QueueOK
    <2> QED  BY <1>1, <2>2, <2>3
  <1> QED  BY <1>2, <1>3

LEMMA LossNext ==
  ASSUME Prompt, QueueSize >= MaxBurst + 4
  PROVE  TypeOK /\ LossInv /\ [Next]_vars => LossInv'
  <1> SUFFICES ASSUME TypeOK, LossInv, [Next]_vars PROVE LossInv'
    OBVIOUS
  <1> USE DEF LossInv
  <1>0. TypeOK'
    BY TypeNext
  <1>b. /\ burst \in Nat /\ burst <= MaxBurst /\ burst' \in Nat /\ MaxBurst \in Nat
        /\ Len(queue) \in Nat /\ Len(queue') \in Nat /\ QueueSize \in Nat
        /\ temperature' \in Readings
    BY <1>0, QueueAssumption DEF TypeOK
  <1>d. DueCount \in 0 .. 4 /\ DueCount' \in 0 .. 4
    BY DEF DueCount, DueOne
  <1>p. \A t \in Timers : Period[t] # 0 /\ Stopped # 0
    BY PeriodOK DEF Stopped
  <1>1. ASSUME \A t \in Timers : timer'[t] # 0 \/ timer'[t] = timer[t]
        PROVE  DueCount' <= DueCount
    BY <1>1 DEF DueCount, DueOne, Due, Timers
  <1>2. CASE Handle
    <2>1. \A t \in Timers : timer'[t] # 0 \/ timer'[t] = timer[t]
      <3>1. CASE HandleLock
        BY <3>1, <1>p DEF HandleLock, TypeOK
      <3>2. CASE TemperatureStops \/ ErrorStops
        BY <3>2, <1>p DEF TemperatureStops, ErrorStops, StopAndStart, TypeOK
      <3>3. CASE TemperatureStarts \/ WorkTimeoutRests
        BY <3>3, <1>p DEF TemperatureStarts, WorkTimeoutRests, Start, TypeOK
      <3>4. CASE UNCHANGED timer
        BY <3>4
      <3> QED
        BY <1>2, <3>1, <3>2, <3>3, <3>4
           DEF Handle, HandleUnlock, HandleRepeatedLock, HandleTemperatureConfig,
               HandlePwrWaitTimeout, TemperatureCached, ErrorCached, WaitTimeoutReady,
               RestTimeoutReady, StaleTimeout
    <2>2. /\ queue # <<>>
          /\ (queue' = Rest /\ lost' \subseteq lost) \/ SendTemperatureToSelf
          /\ burst' = burst
      BY <1>2
         DEF Handle, HandleLock, HandleUnlock, HandleRepeatedLock, HandleTemperatureConfig,
             HandlePwrWaitTimeout, TemperatureStops, TemperatureStarts, TemperatureCached,
             ErrorStops, ErrorCached, WorkTimeoutRests, WaitTimeoutReady, RestTimeoutReady,
             StaleTimeout, Take, Receive, envVars
    <2>3. lost' = {} /\ Len(queue') <= Len(queue)
      BY <1>b, <2>2, HandlerShortens
    <2> QED  BY <1>1, <1>b, <1>d, <2>1, <2>2, <2>3
  <1>3. ASSUME NEW m \in Messages, Put(queue, m), Len(queue) < QueueSize
        PROVE  lost' = {} /\ Len(queue') = Len(queue) + 1
    BY <1>3 DEF Put, TypeOK
  <1>4. ASSUME NEW t \in Timers, Expire(t) PROVE LossInv'
    <2>1. DueCount' = DueCount - 1
      BY <1>4 DEF Expire, DueCount, DueOne, Due, Timers, TypeOK, Stopped
    <2>2. Len(queue) < QueueSize
      BY <1>b, <1>d, <2>1
    <2>3. lost' = {} /\ Len(queue') = Len(queue) + 1
      BY <1>3, <1>4, <2>2, MessagesBuilt DEF Expire
    <2>4. burst' = burst
      BY <1>4 DEF Expire, envVars
    <2> QED  BY <1>b, <1>d, <2>1, <2>3, <2>4
  <1>5. CASE Tick
    <2>1. queue' = <<>> /\ lost' = {} /\ burst' = 0
      BY <1>5 DEF Tick
    <2>2. Len(queue') = 0
      BY <2>1
    <2>3. burst' = 0
      BY <2>1
    <2>4. Len(queue') + DueCount' <= burst' + 4
      <3> DEFINE n == DueCount'
      <3>1. n \in 0 .. 4
        BY <1>d
      <3> HIDE DEF n
      <3>2. 0 + n <= 0 + 4
        BY <3>1
      <3> QED  BY <2>2, <2>3, <3>2 DEF n
    <2> QED  BY <2>1, <2>4
  <1>6. CASE Alarm
    <2>1. /\ burst < MaxBurst /\ burst' = burst + 1 /\ timer' = timer
          /\ \/ \E m \in Messages : Put(queue, m)
             \/ UNCHANGED <<queue, lost>>
      BY <1>6, MessagesBuilt DEF Alarm, AlarmTemperature, AlarmLock, AlarmLimits
    <2>2. DueCount' = DueCount
      BY <2>1 DEF DueCount, DueOne, Due
    <2>3. Len(queue) < QueueSize
      BY <1>b, <1>d, <2>1
    <2>4. lost' = {} /\ Len(queue') <= Len(queue) + 1
      BY <1>3, <1>b, <2>1, <2>3
    <2> QED  BY <1>b, <1>d, <2>1, <2>2, <2>4
  <1>7. CASE UNCHANGED vars
    BY <1>7 DEF vars, envVars, DueCount, DueOne, Due
  <1> QED  BY <1>2, <1>4, <1>5, <1>6, <1>7 DEF Next, Daemon

\* With no more messages between two ticks than the queue has slots beside the
\* four timers', no message to the compressor task is ever dropped, if the task
\* handles what is queued within the tick.
THEOREM QueueLosesNothing ==
  ASSUME Prompt, QueueSize >= MaxBurst + 4
  PROVE  Spec => []NothingLost
  <1>1. Init => TypeOK /\ LossInv
    <2> SUFFICES ASSUME Init PROVE LossInv
      BY TypeInit
    <2>1. DueCount = 0
      BY PeriodAssumption DEF Init, DueCount, DueOne, Due, Timers, Stopped
    <2>2. Len(queue) = 0 /\ burst = 0 /\ lost = {}
      BY DEF Init
    <2> QED  BY <2>1, <2>2 DEF LossInv
  <1>2. (TypeOK /\ LossInv) /\ [Next]_vars => (TypeOK /\ LossInv)'
    BY TypeNext, LossNext
  <1>3. LossInv => NothingLost
    BY DEF LossInv, NothingLost
  <1> QED  BY <1>1, <1>2, <1>3, PTL DEF Spec

-----------------------------------------------------------------------------
(***************************************************************************)
(* The pauses of an unlocked machine.  The three timers a pause waits for  *)
(* are Pauses; a pause t is the only one pending, its timeout is queued at *)
(* most once, only after its time has passed, and only in its statuses.    *)
(***************************************************************************)
Pauses == {"WAIT_TIMEOUT", "REST_TIMEOUT", "PWR_WAIT_TIMEOUT"}

PauseStatuses(t) ==
  CASE t = "PWR_WAIT_TIMEOUT" -> {"INIT"}
    [] t = "WAIT_TIMEOUT" -> {"WAIT", "WAIT_CONTINUE"}
    [] t = "REST_TIMEOUT" -> {"REST"}
PauseReason(t) ==
  CASE t = "PWR_WAIT_TIMEOUT" -> "BOOT"
    [] t = "WAIT_TIMEOUT" -> "WAIT"
    [] t = "REST_TIMEOUT" -> "REST"

Once(q, t) == \A i, j \in 1 .. Len(q) : q[i].type = t /\ q[j].type = t => i = j

PauseOK(t) ==
  /\ Once(queue, t)
  /\ InQ(queue, {t}) => timer[t] = Stopped /\ since >= Period[t]
  /\ timer[t] # Stopped => timer[t] + since >= Period[t]
  /\ timer[t] # Stopped \/ InQ(queue, {t}) => status \in PauseStatuses(t) /\ reason = PauseReason(t)

GapInv ==
  /\ ~lock
  /\ RunningMeansWork
  /\ \A t \in Pauses : PauseOK(t)
  /\ status \in {"RDY", "RDY_CONTINUE"} => since >= Owed

\* Taking a message, and a timeout that is queued once is gone once taken.
LEMMA TakeOnce ==
  ASSUME NEW q, QueueOK(q), q # <<>>, NEW t
  PROVE  /\ Once(q, t) => Once(Tail(q), t)
         /\ InQ(Tail(q), {t}) => InQ(q, {t})
         /\ Once(q, t) /\ Head(q).type = t => ~InQ(Tail(q), {t})
  <1>1. \A i \in 1 .. Len(Tail(q)) :
          i + 1 \in 1 .. Len(q) /\ Tail(q)[i] = q[i + 1] /\ i + 1 # 1 /\ i \in Nat
    BY TailOK
  <1>2. Once(q, t) => Once(Tail(q), t)
    BY <1>1 DEF Once
  <1>3. InQ(Tail(q), {t}) => InQ(q, {t})
    BY <1>1 DEF InQ
  <1>4. Head(q) = q[1] /\ 1 \in 1 .. Len(q)
    BY TailOK
  <1>5. Once(q, t) /\ Head(q).type = t => ~InQ(Tail(q), {t})
    BY <1>1, <1>4 DEF Once, InQ
  <1> QED  BY <1>2, <1>3, <1>5

\* Putting a message of another type, and putting a timeout that is not queued.
LEMMA PutOnce ==
  ASSUME NEW q, QueueOK(q), NEW m \in Messages, lost \subseteq Types, Put(q, m), NEW t
  PROVE  /\ m.type # t => (Once(q, t) => Once(queue', t)) /\ (InQ(queue', {t}) => InQ(q, {t}))
         /\ ~InQ(q, {t}) => Once(queue', t)
  <1>1. \A i \in 1 .. Len(queue') :
          \/ i \in 1 .. Len(q) /\ queue'[i] = q[i]
          \/ i = Len(q) + 1 /\ queue'[i] = m
    BY PutOK DEF QueueOK
  <1> QED  BY <1>1 DEF Once, InQ

\* The same of a step of the handler.
LEMMA HandlerOnce ==
  ASSUME TypeOK, queue # <<>>, temperature' \in Readings,
         queue' = Rest \/ SendTemperatureToSelf, NEW t \in Timers
  PROVE  /\ Once(queue, t) => Once(queue', t)
         /\ InQ(queue', {t}) => InQ(queue, {t})
         /\ Once(queue, t) /\ Head(queue).type = t => ~InQ(queue', {t})
  <1>1. QueueOK(queue) /\ QueueOK(Rest) /\ lost \subseteq Types
    BY TailOK DEF TypeOK, QueueOK, Rest
  <1>2. /\ Once(queue, t) => Once(Rest, t)
        /\ InQ(Rest, {t}) => InQ(queue, {t})
        /\ Once(queue, t) /\ Head(queue).type = t => ~InQ(Rest, {t})
    BY <1>1, TakeOnce DEF Rest
  <1>3. CASE queue' = Rest
    BY <1>2, <1>3
  <1>4. CASE SendTemperatureToSelf
    <2>1. /\ Temperature(temperature') \in Messages
          /\ Temperature(temperature').type # t
      BY MessagesBuilt DEF Timers, TemperatureTypes
    <2>2. (Once(Rest, t) => Once(queue', t)) /\ (InQ(queue', {t}) => InQ(Rest, {t}))
      BY <1>1, <1>4, <2>1, PutOnce DEF SendTemperatureToSelf
    <2> QED  BY <1>2, <2>2
  <1> QED  BY <1>3, <1>4

UnlockedAssumption ==
  /\ LockValues \subseteq {"UNLOCK"}
  /\ \A t \in Pauses : Period[t] <= Horizon

LEMMA GapInit == Init => GapInv
  <1> SUFFICES ASSUME Init PROVE GapInv
    OBVIOUS
  <1>1. ~lock /\ RunningMeansWork /\ status = "INIT" /\ reason = "BOOT" /\ since = 0
    BY DEF Init, RunningMeansWork
  <1>2. Len(queue) = 0
    BY DEF Init
  <1>3. ASSUME NEW t \in Pauses PROVE PauseOK(t)
    <2>1. Once(queue, t) /\ ~InQ(queue, {t})
      BY <1>2 DEF Once, InQ
    <2>2. timer[t] = IF t = "PWR_WAIT_TIMEOUT" THEN PwrWaitTicks ELSE Stopped
      BY DEF Init, Pauses, Timers
    <2>3. CASE t = "PWR_WAIT_TIMEOUT"
      <3>1. timer[t] = Period[t] /\ Period[t] \in Nat
        BY <2>2, <2>3, PeriodAssumption DEF Period, Timers
      <3> QED  BY <1>1, <2>1, <2>3, <3>1 DEF PauseOK, PauseStatuses, PauseReason
    <2>4. CASE t # "PWR_WAIT_TIMEOUT"
      BY <2>1, <2>2, <2>4 DEF PauseOK
    <2> QED  BY <2>3, <2>4
  <1> QED  BY <1>1, <1>3 DEF GapInv

\* A message that is no pause's timeout leaves the pauses alone.
LEMMA PostKeepsPauses ==
  ASSUME TypeOK, GapInv, NEW m \in Messages, m.type \notin Pauses, Put(queue, m),
         UNCHANGED <<taskVars, timer, histVars>>
  PROVE  GapInv'
  <1>1. ASSUME NEW t \in Pauses PROVE PauseOK(t)'
    <2>1. QueueOK(queue) /\ lost \subseteq Types
      BY DEF TypeOK, QueueOK
    <2>2. (Once(queue, t) => Once(queue', t)) /\ (InQ(queue', {t}) => InQ(queue, {t}))
      BY <2>1, PutOnce
    <2> QED  BY <2>2 DEF GapInv, PauseOK, taskVars, histVars
  <1> QED  BY <1>1 DEF GapInv, RunningMeansWork, Owed, taskVars, histVars

LEMMA GapNext ==
  ASSUME UnlockedAssumption
  PROVE  TypeOK /\ PinInv /\ GapInv /\ [Next]_vars => GapInv'
  <1> SUFFICES ASSUME TypeOK, PinInv, GapInv, [Next]_vars PROVE GapInv'
    OBVIOUS
  <1>0. TypeOK' /\ temperature' \in Readings
    BY TypeNext DEF TypeOK
  <1>t. /\ Pauses \subseteq Timers
        /\ \A t \in Pauses : Period[t] \in Nat \ {0} /\ Period[t] # Stopped /\ Period[t] <= Horizon
    BY PeriodOK DEF UnlockedAssumption, Pauses, Timers, Stopped
  <1>i. /\ since \in Nat /\ since <= Horizon /\ Horizon \in Nat
        /\ \A t \in Pauses : timer[t] \in Int /\ timer[t] >= Stopped
    BY <1>t, PeriodAssumption DEF TypeOK, Stopped
  <1>o. ASSUME NEW t \in Pauses, reason = PauseReason(t)
        PROVE  Owed = Period[t]
    BY <1>o DEF Pauses, PauseReason, Owed, Period, Timers
  <1>n. ASSUME NEW t \in Pauses, status \notin PauseStatuses(t)
        PROVE  timer[t] = Stopped /\ ~InQ(queue, {t})
    BY <1>n DEF GapInv, PauseOK
  <1>1. CASE HandleLock \/ HandleUnlock
    <2>1. Head(queue) \in Messages
      BY <1>1, TailOK DEF HandleLock, HandleUnlock, Receive, TypeOK, QueueOK
    <2>2. Receive("LOCK_CONFIG") => Head(queue).lock # "LOCK"
      BY <2>1, MessageFields DEF UnlockedAssumption, Receive
    <2> QED  BY <1>1, <2>2 DEF HandleLock, HandleUnlock, GapInv
  <1>2. CASE \/ HandleRepeatedLock \/ HandleTemperatureConfig
             \/ TemperatureCached \/ ErrorCached \/ StaleTimeout
    <2>1. /\ queue # <<>>
          /\ queue' = Rest \/ SendTemperatureToSelf
          /\ UNCHANGED <<lock, status, power, timer, since, reason>>
      BY <1>2 DEF HandleRepeatedLock, HandleTemperatureConfig, TemperatureCached, ErrorCached,
                  StaleTimeout, Receive, Take, taskVars, histVars
    <2>2. ASSUME NEW t \in Pauses PROVE PauseOK(t)'
      <3>1. (Once(queue, t) => Once(queue', t)) /\ (InQ(queue', {t}) => InQ(queue, {t}))
        BY <1>0, <1>t, <2>1, HandlerOnce
      <3> QED  BY <2>1, <3>1 DEF GapInv, PauseOK
    <2> QED  BY <2>1, <2>2 DEF GapInv, RunningMeansWork, Owed
  <1>3. CASE HandlePwrWaitTimeout \/ WaitTimeoutReady \/ RestTimeoutReady
    <2>1. PICK t \in Pauses :
            /\ queue # <<>> /\ Head(queue).type = t
            /\ SendTemperatureToSelf
            /\ status' \in {"RDY", "RDY_CONTINUE"}
            /\ UNCHANGED <<lock, power, timer, since, reason>>
      BY <1>3 DEF HandlePwrWaitTimeout, WaitTimeoutReady, RestTimeoutReady, Receive, Pauses,
                  histVars
    <2>2. InQ(queue, {t})
      BY <2>1, TailOK DEF TypeOK, QueueOK, InQ
    <2>3. /\ timer[t] = Stopped /\ since >= Period[t]
          /\ status \in PauseStatuses(t) /\ reason = PauseReason(t)
      BY <2>2 DEF GapInv, PauseOK
    <2>4. ~power
      BY <2>3 DEF GapInv, RunningMeansWork, PauseStatuses, Pauses
    <2>5. ASSUME NEW u \in Pauses PROVE PauseOK(u)'
      <3>1. /\ Once(queue', u)
            /\ InQ(queue', {u}) => InQ(queue, {u})
            /\ u = t => ~InQ(queue', {u})
        BY <1>0, <1>t, <2>1, HandlerOnce DEF GapInv, PauseOK
      <3>2. u # t => status \notin PauseStatuses(u)
        BY <2>3 DEF PauseStatuses, Pauses
      <3>3. timer[u] = Stopped /\ ~InQ(queue', {u})
        BY <1>n, <2>3, <3>1, <3>2
      <3> QED  BY <2>1, <3>1, <3>3 DEF PauseOK
    <2>6. since >= Owed
      BY <1>o, <2>3
    <2> QED  BY <2>1, <2>4, <2>5, <2>6 DEF GapInv, RunningMeansWork, Owed
  <1>4. CASE TemperatureStops \/ ErrorStops \/ WorkTimeoutRests
    <2>1. PICK t \in Pauses :
            /\ queue # <<>> /\ queue' = Rest
            /\ status = "WORK" /\ status' \in PauseStatuses(t)
            /\ TurnOff(PauseReason(t))
            /\ timer' \in {StopAndStart("WORK_TIMEOUT", t), Start(t)}
            /\ lock' = lock
      <3>1. CASE TemperatureStops \/ ErrorStops
        <4>1. /\ status' \in PauseStatuses("WAIT_TIMEOUT") /\ TurnOff(PauseReason("WAIT_TIMEOUT"))
              /\ timer' = StopAndStart("WORK_TIMEOUT", "WAIT_TIMEOUT")
          BY <3>1 DEF TemperatureStops, ErrorStops, PauseStatuses, PauseReason
        <4>2. /\ queue # <<>> /\ queue' = Rest /\ status = "WORK" /\ lock' = lock
              /\ "WAIT_TIMEOUT" \in Pauses
          BY <3>1 DEF TemperatureStops, ErrorStops, MustStop, Receive, Pauses
        <4> QED  BY <4>1, <4>2
      <3>2. CASE WorkTimeoutRests
        <4>1. /\ status' \in PauseStatuses("REST_TIMEOUT") /\ TurnOff(PauseReason("REST_TIMEOUT"))
              /\ timer' = Start("REST_TIMEOUT")
          BY <3>2 DEF WorkTimeoutRests, PauseStatuses, PauseReason
        <4>2. /\ queue # <<>> /\ queue' = Rest /\ status = "WORK" /\ lock' = lock
              /\ "REST_TIMEOUT" \in Pauses
          BY <3>2 DEF WorkTimeoutRests, Receive, Pauses
        <4> QED  BY <4>1, <4>2
      <3> QED  BY <1>4, <3>1, <3>2
    <2>2. power' = FALSE /\ since' = 0 /\ reason' = PauseReason(t)
      BY <2>1 DEF PinInv, WorkIsOn, TurnOff
    <2>3. timer'[t] = Period[t] /\ \A u \in Pauses \ {t} : timer'[u] = timer[u]
      BY <1>t, <2>1 DEF StopAndStart, Start, TypeOK, Pauses
    <2>4. ASSUME NEW u \in Pauses
          PROVE  Once(queue', u) /\ ~InQ(queue', {u}) /\ timer[u] = Stopped
      <3>1. status \notin PauseStatuses(u)
        BY <2>1 DEF PauseStatuses, Pauses
      <3> QED  BY <1>0, <1>n, <1>t, <2>1, <3>1, HandlerOnce DEF GapInv, PauseOK
    <2>5. ASSUME NEW u \in Pauses PROVE PauseOK(u)'
      <3>1. CASE u = t
        <4>1. timer'[u] + since' >= Period[u]
          BY <1>t, <2>2, <2>3, <3>1
        <4> QED  BY <2>1, <2>2, <2>4, <3>1, <4>1 DEF PauseOK
      <3>2. CASE u # t
        BY <2>3, <2>4, <3>2 DEF PauseOK
      <3> QED  BY <3>1, <3>2
    <2>6. status' \notin {"RDY", "RDY_CONTINUE"}
      BY <2>1 DEF PauseStatuses, Pauses
    <2> QED  BY <2>1, <2>2, <2>5, <2>6 DEF GapInv, RunningMeansWork
  <1>5. CASE TemperatureStarts
    <2>1. /\ queue # <<>> /\ queue' = Rest
          /\ status \in {"RDY", "RDY_CONTINUE"} /\ status' = "WORK"
          /\ timer' = Start("WORK_TIMEOUT")
          /\ lock' = lock
      BY <1>5 DEF TemperatureStarts, MayStart, Receive
    <2>2. ASSUME NEW u \in Pauses PROVE PauseOK(u)'
      <3>1. status \notin PauseStatuses(u)
        BY <2>1 DEF PauseStatuses, Pauses
      <3>2. Once(queue', u) /\ ~InQ(queue', {u}) /\ timer[u] = Stopped
        BY <1>0, <1>n, <1>t, <2>1, <3>1, HandlerOnce DEF GapInv, PauseOK
      <3>3. timer'[u] = timer[u]
        BY <2>1 DEF Start, TypeOK, Pauses
      <3> QED  BY <3>2, <3>3 DEF PauseOK
    <2> QED  BY <2>1, <2>2 DEF GapInv, RunningMeansWork
  <1>6. ASSUME NEW t \in Timers, Expire(t) PROVE GapInv'
    <2>1. /\ timer[t] = 0 /\ timer' = [timer EXCEPT ![t] = Stopped] /\ Put(queue, Timeout(t))
          /\ UNCHANGED <<lock, status, power, since, reason>>
      BY <1>6 DEF Expire, Due, taskVars, histVars
    <2>2. Timeout(t) \in Messages /\ Timeout(t).type = t /\ QueueOK(queue) /\ lost \subseteq Types
      BY MessagesBuilt DEF TypeOK, QueueOK
    <2>3. ASSUME NEW u \in Pauses PROVE PauseOK(u)'
      <3>1. CASE u # t
        <4>1. (Once(queue, u) => Once(queue', u)) /\ (InQ(queue', {u}) => InQ(queue, {u}))
          BY <2>1, <2>2, <3>1, PutOnce
        <4>2. timer'[u] = timer[u]
          BY <1>t, <2>1, <3>1 DEF TypeOK
        <4> QED  BY <2>1, <4>1, <4>2 DEF GapInv, PauseOK
      <3>2. CASE u = t
        <4>0. timer[u] = 0 /\ timer[u] # Stopped
          BY <2>1, <3>2 DEF Stopped
        <4>1. timer[u] # Stopped /\ since >= Period[u]
          <5>1. timer[u] + since >= Period[u]
            BY <4>0 DEF GapInv, PauseOK
          <5>2. timer[u] + since = since
            BY <1>i, <4>0
          <5> QED  BY <4>0, <5>1, <5>2
        <4>2. ~InQ(queue, {u}) /\ status \in PauseStatuses(u) /\ reason = PauseReason(u)
          BY <4>1 DEF GapInv, PauseOK
        <4>3. Once(queue', u)
          BY <2>1, <2>2, <4>2, PutOnce
        <4>4. timer'[u] = Stopped
          BY <2>1, <3>2 DEF TypeOK
        <4> QED  BY <2>1, <4>1, <4>2, <4>3, <4>4 DEF PauseOK
      <3> QED  BY <3>1, <3>2
    <2> QED  BY <2>1, <2>3 DEF GapInv, RunningMeansWork, Owed
  <1>7. CASE Tick
    <2>1. /\ UNCHANGED <<lock, status, power, queue, reason>>
          /\ since' = IF since < Horizon THEN since + 1 ELSE since
          /\ \A t \in Timers : timer'[t] = IF timer[t] > 0 THEN timer[t] - 1 ELSE timer[t]
      BY <1>7 DEF Tick, taskVars
    <2>2. since' >= since /\ since' \in Nat /\ (since' = since + 1 \/ since' = Horizon)
      BY <1>i, <2>1
    <2>3. ASSUME NEW u \in Pauses PROVE PauseOK(u)'
      <3>1. (timer'[u] = Stopped <=> timer[u] = Stopped)
        BY <1>i, <1>t, <2>1 DEF Stopped
      <3>2. ASSUME timer[u] # Stopped PROVE timer'[u] + since' >= Period[u]
        <4>0. timer[u] + since >= Period[u]
          BY <3>2 DEF GapInv, PauseOK
        <4>1. timer[u] + since >= Period[u] /\ timer[u] >= 0
          BY <1>i, <3>2, <4>0 DEF Stopped
        <4>2. timer'[u] >= 0 /\ timer'[u] >= timer[u] - 1 /\ timer'[u] \in Int
              /\ (timer[u] = 0 => timer'[u] = 0)
          BY <1>i, <1>t, <2>1, <4>1
        <4> QED  BY <1>i, <1>t, <2>2, <4>1, <4>2
      <3>3. InQ(queue, {u}) => since' >= Period[u]
        BY <1>i, <1>t, <2>2 DEF GapInv, PauseOK
      <3> QED  BY <2>1, <3>1, <3>2, <3>3 DEF GapInv, PauseOK
    <2>4. status \in {"RDY", "RDY_CONTINUE"} => since' >= Owed
      <3>1. Owed \in Nat
        BY PeriodAssumption DEF Owed, TypeOK
      <3> QED  BY <1>i, <2>2, <3>1 DEF GapInv
    <2> QED  BY <2>1, <2>3, <2>4 DEF GapInv, RunningMeansWork, Owed
  <1>8. CASE Alarm
    <2>1. /\ UNCHANGED <<taskVars, timer, histVars>>
          /\ \/ \E m \in Messages : m.type \notin Pauses /\ Put(queue, m)
             \/ UNCHANGED queue
      BY <1>8, MessagesBuilt
         DEF Alarm, AlarmTemperature, AlarmLock, AlarmLimits, Pauses, TemperatureTypes
    <2>2. CASE UNCHANGED queue
      BY <2>1, <2>2 DEF GapInv, PauseOK, RunningMeansWork, Owed, taskVars, histVars
    <2> QED  BY <2>1, <2>2, PostKeepsPauses
  <1>9. CASE UNCHANGED vars
    BY <1>9 DEF vars, GapInv, PauseOK, RunningMeansWork, Owed, taskVars, histVars
  <1> QED
    BY <1>1, <1>2, <1>3, <1>4, <1>5, <1>6, <1>7, <1>8, <1>9 DEF Next, Handle, Daemon

\* On a machine that is never locked the pin is on only in the status WORK, and
\* the compressor is never switched on before its pause is over: the power-on
\* wait, the wait between two starts or the rest, whatever the queue drops and
\* however late the timeouts are handled.
THEOREM UnlockedPauses ==
  ASSUME UnlockedAssumption
  PROVE  Spec => []RunningMeansWork /\ RestartGap
  <1> DEFINE Inv == TypeOK /\ PinInv /\ GapInv
  <1>1. Init => Inv
    BY TypeInit, PinInit, GapInit
  <1>2. Inv /\ [Next]_vars => Inv'
    BY TypeNext, PinNext, GapNext
  <1>3. Inv => RunningMeansWork
    BY DEF GapInv
  <1>4. Inv /\ [Next]_vars => [~power /\ power' => since >= Owed]_vars
    <2> SUFFICES ASSUME Inv, Next, ~power, power' PROVE since >= Owed
      OBVIOUS
    <2>1. TemperatureStarts
      BY DEF Next, Handle, HandleLock, HandleUnlock, HandleRepeatedLock, HandleTemperatureConfig,
             HandlePwrWaitTimeout, TemperatureStops, TemperatureCached, ErrorStops, ErrorCached,
             WorkTimeoutRests, WaitTimeoutReady, RestTimeoutReady, StaleTimeout, TurnOff,
             Daemon, Expire, Tick, Alarm, AlarmTemperature, AlarmLock, AlarmLimits, taskVars
    <2> QED  BY <2>1 DEF TemperatureStarts, MayStart, GapInv
  <1> HIDE DEF Inv
  <1> QED  BY <1>1, <1>2, <1>3, <1>4, PTL DEF Spec, RestartGap

-----------------------------------------------------------------------------
(***************************************************************************)
(* The length of a run.  While the compressor works, the time it has       *)
(* worked and the time its timer has left are no more than a working time, *)
(* or the timeout is queued, in time.  A timeout that is handled late or   *)
(* dropped would break this, so nothing may be dropped and no tick may     *)
(* pass over a message.  A timeout left over from an earlier run only      *)
(* makes a run shorter.                                                    *)
(***************************************************************************)
RunInv ==
  status = "WORK" =>
    \/ timer["WORK_TIMEOUT"] # Stopped /\ timer["WORK_TIMEOUT"] + since <= WorkTicks
    \/ InQueue({"WORK_TIMEOUT"}) /\ since <= WorkTicks

\* The steps of the handler that let the compressor go on working.
WorkGoesOn ==
  HandleUnlock \/ HandleTemperatureConfig \/ HandleRepeatedLock \/ TemperatureCached
    \/ ErrorCached \/ StaleTimeout
\* Those that end the work, or find it ended.
WorkEnds ==
  HandleLock \/ HandlePwrWaitTimeout \/ TemperatureStops \/ ErrorStops
    \/ WorkTimeoutRests \/ WaitTimeoutReady \/ RestTimeoutReady

\* A message that is put and not lost is queued.
LEMMA PutInQueue ==
  ASSUME TypeOK, NEW m \in Messages, Put(queue, m), lost' = {}
  PROVE  InQueue({m.type})'
  BY PostKeeps

LEMMA RunNext ==
  ASSUME Prompt
  PROVE  TypeOK /\ PinInv /\ RunningMeansWork /\ RunInv /\ lost' = {} /\ [Next]_vars => RunInv'
  <1> SUFFICES ASSUME TypeOK, PinInv, RunningMeansWork, RunInv, lost' = {}, [Next]_vars,
                      status' = "WORK"
               PROVE  \/ timer'["WORK_TIMEOUT"] # Stopped /\ timer'["WORK_TIMEOUT"] + since' <= WorkTicks
                      \/ InQueue({"WORK_TIMEOUT"})' /\ since' <= WorkTicks
    BY DEF RunInv, Stopped
  <1> DEFINE W == "WORK_TIMEOUT"
  <1>0. temperature' \in Readings
    BY TypeNext DEF TypeOK
  <1>1. /\ since \in Nat /\ timer[W] \in Int /\ timer[W] >= Stopped /\ WorkTicks \in Nat \ {0}
        /\ W \in Timers
    BY PeriodAssumption DEF TypeOK, Stopped, Timers
  \* A step that leaves the work, its timer and a queued timeout alone.
  <1>2. ASSUME status = "WORK", timer'[W] = timer[W], since' = since,
               InQueue({W}) => InQueue({W})'
        PROVE  \/ timer'[W] # Stopped /\ timer'[W] + since' <= WorkTicks
               \/ InQueue({W})' /\ since' <= WorkTicks
    BY <1>2 DEF RunInv
  <1>3. CASE WorkGoesOn
    <2>1. /\ queue # <<>>
          /\ queue' = Rest \/ SendTemperatureToSelf
          /\ UNCHANGED <<status, timer, since>>
      BY <1>3 DEF WorkGoesOn, HandleUnlock, HandleTemperatureConfig, HandleRepeatedLock,
                  TemperatureCached, ErrorCached, StaleTimeout, Receive, Take, taskVars, histVars
    <2>2. Head(queue).type # W
      BY <1>3, <2>1 DEF WorkGoesOn, HandleUnlock, HandleTemperatureConfig, HandleRepeatedLock,
                  TemperatureCached, ErrorCached, StaleTimeout, Receive
    <2>3. InQueue({W}) => InQueue({W})'
      BY <1>0, <2>1, <2>2, HandlerKeeps
    <2> QED  BY <1>2, <2>1, <2>3
  <1>4. CASE TemperatureStarts
    <2>1. status \in {"RDY", "RDY_CONTINUE"} /\ TurnOn /\ timer' = Start(W)
      BY <1>4 DEF TemperatureStarts, MayStart
    <2>2. since' = 0
      BY <2>1 DEF RunningMeansWork, TurnOn
    <2>3. timer'[W] = WorkTicks
      BY <1>1, <2>1 DEF Start, TypeOK, Period, Timers
    <2> QED  BY <1>1, <2>2, <2>3 DEF Stopped
  <1>5. ~WorkEnds
    BY DEF WorkEnds, HandleLock, HandlePwrWaitTimeout, TemperatureStops, ErrorStops,
           WorkTimeoutRests, WaitTimeoutReady, RestTimeoutReady
  <1>6. ASSUME NEW t \in Timers, Expire(t)
        PROVE  \/ timer'[W] # Stopped /\ timer'[W] + since' <= WorkTicks
               \/ InQueue({W})' /\ since' <= WorkTicks
    <2>1. /\ Timeout(t) \in Messages /\ Timeout(t).type = t /\ Put(queue, Timeout(t))
          /\ timer' = [timer EXCEPT ![t] = Stopped] /\ timer[t] = 0
          /\ UNCHANGED <<status, since>>
      BY <1>6, MessagesBuilt DEF Expire, Due, taskVars, histVars
    <2>2. CASE t = W
      <3>1. InQueue({W})'
        BY <2>1, <2>2, PutInQueue
      <3>2. since <= WorkTicks
        BY <1>1, <2>1, <2>2 DEF RunInv
      <3> QED  BY <2>1, <3>1, <3>2
    <2>3. CASE t # W
      <3>1. timer'[W] = timer[W]
        BY <1>1, <2>1, <2>3 DEF TypeOK
      <3>2. InQueue({W}) => InQueue({W})'
        BY <2>1, PostKeeps
      <3> QED  BY <1>2, <2>1, <3>1, <3>2
    <2> QED  BY <2>2, <2>3
  <1>7. CASE Tick
    <2>1. /\ queue = <<>> /\ ~Due(W) /\ timer'[W] = IF timer[W] > 0 THEN timer[W] - 1 ELSE timer[W]
          /\ since' = IF since < Horizon THEN since + 1 ELSE since
          /\ status' = status
      BY <1>1, <1>7 DEF Tick, taskVars
    <2>2. ~InQueue({W})
      BY <2>1 DEF InQueue
    <2>3. timer[W] # Stopped /\ timer[W] + since <= WorkTicks
      BY <2>1, <2>2 DEF RunInv
    <2>4. timer[W] > 0
      BY <1>1, <2>1, <2>3 DEF Due, Stopped
    <2>5. since' \in Nat /\ since' <= since + 1 /\ timer'[W] = timer[W] - 1
      BY <1>1, <2>1, <2>4, PeriodAssumption
    <2>6. timer'[W] # Stopped /\ timer'[W] + since' <= WorkTicks
      BY <1>1, <2>3, <2>4, <2>5 DEF Stopped
    <2> QED  BY <2>6
  <1>8. CASE Alarm
    <2>1. /\ UNCHANGED <<status, timer, since>>
          /\ \/ \E m \in Messages : Put(queue, m)
             \/ UNCHANGED queue
      BY <1>8, MessagesBuilt DEF Alarm, AlarmTemperature, AlarmLock, AlarmLimits, taskVars, histVars
    <2>2. ASSUME NEW m \in Messages, Put(queue, m)
          PROVE  InQueue({W}) => InQueue({W})'
      BY <2>2, PostKeeps
    <2>3. UNCHANGED queue => (InQueue({W}) => InQueue({W})')
      BY DEF InQueue
    <2> QED  BY <1>2, <2>1, <2>2, <2>3
  <1>9. CASE UNCHANGED vars
    <2>1. UNCHANGED <<status, timer, since>> /\ (InQueue({W}) => InQueue({W})')
      BY <1>9 DEF vars, taskVars, histVars, InQueue
    <2> QED  BY <1>2, <2>1
  <1> QED
    BY <1>3, <1>4, <1>5, <1>6, <1>7, <1>8, <1>9 DEF Next, Handle, Daemon, WorkGoesOn, WorkEnds

\* The compressor of an unlocked machine never runs longer than the longest working
\* time at a stretch (compressor_task.c's WORK_TIMEOUT), for any periods and any queue,
\* in every run in which the task handles what is queued within the tick and nothing is
\* dropped.
THEOREM RunsAreBounded ==
  ASSUME UnlockedAssumption, Prompt
  PROVE  Spec /\ []NothingLost => []BoundedRun
  <1> DEFINE Inv == TypeOK /\ PinInv /\ GapInv /\ RunInv
  <1>1. Init => Inv
    <2>1. Init => RunInv
      BY DEF Init, RunInv
    <2> QED  BY <2>1, TypeInit, PinInit, GapInit
  <1>2. Inv /\ NothingLost' /\ [Next]_vars => Inv'
    <2> SUFFICES ASSUME Inv, NothingLost', [Next]_vars PROVE Inv'
      OBVIOUS
    <2>1. TypeOK' /\ PinInv' /\ GapInv'
      BY TypeNext, PinNext, GapNext
    <2>2. RunInv'
      BY RunNext DEF GapInv, NothingLost
    <2> QED  BY <2>1, <2>2
  <1>3. Inv => BoundedRun
    <2> SUFFICES ASSUME Inv, power PROVE since <= WorkTicks
      BY DEF BoundedRun
    <2>1. since \in Nat /\ timer["WORK_TIMEOUT"] \in Int /\ timer["WORK_TIMEOUT"] >= Stopped
          /\ WorkTicks \in Nat
      BY PeriodAssumption DEF TypeOK, Stopped, Timers
    <2>2. status = "WORK"
      BY DEF GapInv, RunningMeansWork
    <2> QED  BY <2>1, <2>2 DEF RunInv, Stopped
  <1> HIDE DEF Inv
  <1> QED  BY <1>1, <1>2, <1>3, PTL DEF Spec

\* In particular with a queue that has room for the four timeouts beside what the alarm
\* task posts between two ticks, as the code's queue of 8 has for bursts of up to 4.
THEOREM RunsAreBoundedWithRoom ==
  ASSUME UnlockedAssumption, Prompt, QueueSize >= MaxBurst + 4
  PROVE  Spec => []BoundedRun
  BY RunsAreBounded, QueueLosesNothing, PTL

-----------------------------------------------------------------------------
(***************************************************************************)
(* The display.                                                            *)
(***************************************************************************)
\* The steps that leave the pin and what is shown alone.
PinStays ==
  WorkGoesOn \/ HandlePwrWaitTimeout \/ WaitTimeoutReady \/ RestTimeoutReady \/ Daemon \/ Tick
    \/ Alarm \/ UNCHANGED vars

\* The blinking symbol tells whether the pin is on, in every run in which the display
\* queue accepts the messages: every branch that moves the pin tells the display, from
\* the status after the move.  It holds of a machine that is locked, too, and when
\* readings or timeouts are dropped.
THEOREM SymbolTellsThePin ==
  ASSUME DisplayPut = {TRUE}
  PROVE  Spec => []ShownIsPower
  <1>1. Init => ShownIsPower
    BY DEF Init, ShownIsPower
  <1>2. ShownIsPower /\ [Next]_vars => ShownIsPower'
    <2> SUFFICES ASSUME ShownIsPower, [Next]_vars PROVE shown' = power'
      BY DEF ShownIsPower
    <2>1. CASE PinStays
      <3>1. UNCHANGED <<shown, power>>
        BY <2>1 DEF PinStays, WorkGoesOn, HandleUnlock, HandleTemperatureConfig, HandleRepeatedLock,
                    TemperatureCached, ErrorCached, StaleTimeout, HandlePwrWaitTimeout,
                    WaitTimeoutReady, RestTimeoutReady, Daemon, Expire, Tick, Alarm,
                    AlarmTemperature, AlarmLock, AlarmLimits, vars, taskVars
      <3> QED  BY <3>1 DEF ShownIsPower
    <2>2. CASE HandleLock \/ TemperatureStops \/ ErrorStops \/ WorkTimeoutRests
      <3>1. power' = FALSE /\ status' # "WORK" /\ ShowCompressor
        BY <2>2 DEF HandleLock, TemperatureStops, ErrorStops, WorkTimeoutRests, TurnOff
      <3>2. shown' = FALSE
        BY <3>1 DEF ShowCompressor
      <3> QED  BY <3>1, <3>2
    <2>3. CASE TemperatureStarts
      <3>1. power' = TRUE /\ status' = "WORK" /\ ShowCompressor
        BY <2>3 DEF TemperatureStarts, TurnOn
      <3>2. shown' = TRUE
        BY <3>1 DEF ShowCompressor
      <3> QED  BY <3>1, <3>2
    <2> QED
      BY <2>1, <2>2, <2>3 DEF Next, Handle, PinStays, WorkGoesOn
  <1> QED  BY <1>1, <1>2, PTL DEF Spec
=============================================================================
