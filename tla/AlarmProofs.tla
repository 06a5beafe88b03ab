----------------------------- MODULE AlarmProofs -----------------------------
(***************************************************************************)
(* Proofs about the alarm task, for any sensors, readings, limits and      *)
(* queue length: the display shows what the task holds, and an error is    *)
(* reported once.                                                          *)
(*                                                                         *)
(* Both are about one kind of value at a time.  The order in which an      *)
(* error and the end of an error follow each other is an invariant of what *)
(* was reported, what is queued, and what the sensor task may post next,   *)
(* read as one line of places (Alternates): between two bad places there   *)
(* is a good reading.                                                      *)
(***************************************************************************)
EXTENDS Alarm, TLAPS

SensorReadings == {Reading("sensor", k, v) : k \in Sampled, v \in Readings}
SelfReadings == {Reading("self", k, v) : k \in Kinds, v \in Values \cup {0}}
Configs == UNION {{Config(k, r) : r \in Ranges[k]} : k \in Kinds}
Locks == {Lock(l) : l \in LockValues}
Messages == SensorReadings \cup SelfReadings \cup Configs \cup Locks \cup {TimerTimeout}

QueueInv == queue \in Seq(Messages) /\ Len(queue) <= QueueSize

UnitType ==
  [value : Readings \cup {0}, alarm : BOOLEAN, warning : BOOLEAN, config : BOOLEAN,
   high : Int, low : Int]
SensorType == [value : Readings \cup {PowerOnValue}, dir : -Confirm .. Confirm]

TypeInv ==
  /\ current \in [Sampled -> Readings] /\ sensor \in [Sampled -> SensorType]
  /\ unit \in [Kinds -> UnitType] /\ is_pwr_on \in BOOLEAN
  /\ DOMAIN shown = Kinds /\ DOMAIN reported = Kinds
  /\ dispatched \in 0 .. 4 * MaxDispatch

IsReading(m, k) == m.kind = k /\ m.from \in {"sensor", "self"}

\* A reading of k is queued in q.
Queued(q, k) == \E i \in 1 .. Len(q) : IsReading(q[i], k)
Current(u) == [value |-> u.value,
               blink |-> u.value = Err \/ (u.config /\ (u.value > u.high \/ u.value < u.low))]
ShownInv ==
  \A k \in Kinds :
    Queued(queue, k) \/ <<"self", k>> \in lost \/ shown[k] = None \/ shown[k] = Current(unit[k])

\* Of the line of what was reported last (r), the queue q, and what a sensor that
\* holds s may post next, place p is an error of k.
BadAt(q, k, r, s, p) ==
  \/ p = 0 /\ r = "ERR"
  \/ p = Len(q) + 1 /\ s # Err
  \/ p \in 1 .. Len(q) /\ IsReading(q[p], k) /\ q[p].value = Err
GoodAt(q, k, p) == p \in 1 .. Len(q) /\ IsReading(q[p], k) /\ q[p].value # Err
Alternates(q, k, r, s) ==
  \A p, t \in 0 .. Len(q) + 1 :
    p < t /\ BadAt(q, k, r, s, p) /\ BadAt(q, k, r, s, t) =>
      \E m \in p + 1 .. t - 1 : GoodAt(q, k, m)

AlternateInv ==
  \A k \in Sampled :
    <<"sensor", k>> \in lost \/ Alternates(queue, k, reported[k], sensor[k].value)

\* Only a sensor task posts an error, so that a kind that is not read never has one.
Inv == TypeInv /\ QueueInv /\ ShownInv /\ AlternateInv

-----------------------------------------------------------------------------
(***************************************************************************)
(* Messages and queues.                                                    *)
(***************************************************************************)
LEMMA Numbers ==
  /\ Values \subseteq Int /\ Err \in Int /\ Err \notin Values /\ Err # 0 /\ Err # PowerOnValue
  /\ Sampled \subseteq Kinds /\ Readings \subseteq Int
  /\ QueueSize \in Nat \ {0} /\ Confirm \in Nat \ {0} /\ MaxDispatch \in Nat
  /\ \A k \in Kinds : Ranges[k] \subseteq [high : -127 .. 126, low : -127 .. 126]
  /\ None # "ERR"
  BY AlarmAssumption DEF AlarmAssumption, Readings, PowerOnValue

LEMMA MessagesAre ==
  /\ \A m : m \in SensorReadings <=> \E k \in Sampled, v \in Readings : m = Reading("sensor", k, v)
  /\ \A m : m \in SelfReadings <=> \E k \in Kinds, v \in Values \cup {0} : m = Reading("self", k, v)
  /\ \A m : m \in Configs <=> \E k \in Kinds : \E r \in Ranges[k] : m = Config(k, r)
  /\ \A m : m \in Locks <=> \E l \in LockValues : m = Lock(l)
  <1>1. \A m : m \in SensorReadings <=> \E k \in Sampled, v \in Readings : m = Reading("sensor", k, v)
    BY DEF SensorReadings
  <1>2. \A m : m \in SelfReadings <=> \E k \in Kinds, v \in Values \cup {0} : m = Reading("self", k, v)
    BY DEF SelfReadings
  <1>3. \A m : m \in Configs <=> \E k \in Kinds : \E r \in Ranges[k] : m = Config(k, r)
    BY DEF Configs
  <1>4. \A m : m \in Locks <=> \E l \in LockValues : m = Lock(l)
    BY DEF Locks
  <1> QED  BY <1>1, <1>2, <1>3, <1>4

\* What a message tells of itself.
LEMMA MessageIs ==
  ASSUME NEW m \in Messages
  PROVE  /\ m.from \in {"sensor", "self", "report", "timer"}
         /\ m.from = "sensor" => m.kind \in Sampled /\ m.value \in Readings
         /\ m.from = "self" => m.kind \in Kinds /\ m.value \in Values \cup {0} /\ m.value # Err
         /\ m.from = "report" /\ m.kind \in Kinds => m.range \in Ranges[m.kind]
         /\ m.from \in {"sensor", "self"} => m.kind \in Kinds /\ m.value \in Readings \cup {0}
  <1>1. CASE \E k \in Sampled, v \in Readings : m = Reading("sensor", k, v)
    BY <1>1, Numbers DEF Reading
  <1>2. CASE \E k \in Kinds, v \in Values \cup {0} : m = Reading("self", k, v)
    BY <1>2, Numbers DEF Reading, Readings
  <1>3. CASE \E k \in Kinds : \E r \in Ranges[k] : m = Config(k, r)
    BY <1>3 DEF Config
  <1>4. CASE \E l \in LockValues : m = Lock(l)
    BY <1>4 DEF Lock, Kinds
  <1>5. CASE m = TimerTimeout
    BY <1>5 DEF TimerTimeout
  <1> QED  BY <1>1, <1>2, <1>3, <1>4, <1>5, MessagesAre DEF Messages

LEMMA TailIs ==
  ASSUME NEW S, NEW q \in Seq(S), q # <<>>
  PROVE  /\ Tail(q) \in Seq(S) /\ Len(q) \in Nat \ {0} /\ Len(Tail(q)) = Len(q) - 1
         /\ Head(q) = q[1] /\ Head(q) \in S
         /\ \A i \in 1 .. Len(q) - 1 : Tail(q)[i] = q[i + 1]
  OBVIOUS

LEMMA AppendIs ==
  ASSUME NEW S, NEW q \in Seq(S), NEW m \in S
  PROVE  /\ Append(q, m) \in Seq(S) /\ Len(q) \in Nat /\ Len(Append(q, m)) = Len(q) + 1
         /\ Append(q, m)[Len(q) + 1] = m
         /\ \A i \in 1 .. Len(q) : Append(q, m)[i] = q[i]
  OBVIOUS

LEMMA QueuedAppend ==
  ASSUME NEW q \in Seq(Messages), NEW m \in Messages, NEW k
  PROVE  /\ Queued(q, k) => Queued(Append(q, m), k)
         /\ IsReading(m, k) => Queued(Append(q, m), k)
  BY AppendIs DEF Queued

LEMMA QueuedTail ==
  ASSUME NEW q \in Seq(Messages), q # <<>>, NEW k, ~IsReading(Head(q), k), Queued(q, k)
  PROVE  Queued(Tail(q), k)
  <1>1. PICK i \in 1 .. Len(q) : IsReading(q[i], k)
    BY DEF Queued
  <1>2. i # 1 /\ i - 1 \in 1 .. Len(q) - 1 /\ (i - 1) + 1 = i
    BY <1>1, TailIs
  <1>3. Tail(q)[i - 1] = q[i] /\ Len(Tail(q)) = Len(q) - 1
    BY <1>2, TailIs
  <1> QED  BY <1>1, <1>2, <1>3 DEF Queued

-----------------------------------------------------------------------------
(***************************************************************************)
(* The line of places, when a message is put and when one is taken.        *)
(***************************************************************************)
\* A message that is no error of k, from a sensor that holds the same as before or
\* a good value it just posted.
LEMMA AlternatesAppend ==
  ASSUME NEW q \in Seq(Messages), NEW m \in Messages, NEW k, NEW r, NEW s, NEW t,
         Alternates(q, k, r, s), ~(IsReading(m, k) /\ m.value = Err),
         t = s \/ IsReading(m, k)
  PROVE  Alternates(Append(q, m), k, r, t)
  <1> DEFINE a == Append(q, m)
             n == Len(q)
  <1>1. /\ n \in Nat /\ Len(a) = n + 1 /\ a[n + 1] = m
        /\ \A i \in 1 .. n : a[i] = q[i]
    BY AppendIs
  <1> HIDE DEF a, n
  <1>2. SUFFICES ASSUME NEW i \in 0 .. n + 2, NEW j \in 0 .. n + 2, i < j,
                        BadAt(a, k, r, t, i), BadAt(a, k, r, t, j)
                 PROVE  \E h \in i + 1 .. j - 1 : GoodAt(a, k, h)
    BY <1>1 DEF Alternates, a
  <1>3. i \in 0 .. n /\ BadAt(q, k, r, s, i)
    BY <1>1, <1>2 DEF BadAt, n
  <1>4. CASE j \in 1 .. n
    <2>1. BadAt(q, k, r, s, j)
      BY <1>1, <1>2, <1>4 DEF BadAt, n
    <2>2. PICK h \in i + 1 .. j - 1 : GoodAt(q, k, h)
      BY <1>1, <1>2, <1>3, <1>4, <2>1 DEF Alternates, n
    <2> QED  BY <1>1, <2>2 DEF GoodAt, n
  <1>5. CASE j = n + 2
    <2>1. CASE IsReading(m, k)
      <3>1. GoodAt(a, k, n + 1)
        BY <1>1, <2>1 DEF GoodAt
      <3> QED  BY <1>1, <1>3, <1>5, <3>1
    <2>2. CASE ~IsReading(m, k)
      <3>1. BadAt(q, k, r, s, n + 1)
        BY <1>1, <1>2, <1>5, <2>2 DEF BadAt, n
      <3>2. PICK h \in i + 1 .. n : GoodAt(q, k, h)
        BY <1>1, <1>3, <3>1 DEF Alternates, n
      <3> QED  BY <1>1, <1>5, <3>2 DEF GoodAt, n
    <2> QED  BY <2>1, <2>2
  <1>6. j # n + 1
    BY <1>1, <1>2 DEF BadAt
  <1> QED  BY <1>1, <1>2, <1>3, <1>4, <1>5, <1>6

\* An error, from a sensor that held a good value.
LEMMA AlternatesAppendErr ==
  ASSUME NEW q \in Seq(Messages), NEW m \in Messages, NEW k, NEW r, NEW s,
         Alternates(q, k, r, s), s # Err
  PROVE  Alternates(Append(q, m), k, r, Err)
  <1> DEFINE a == Append(q, m)
             n == Len(q)
  <1>1. /\ n \in Nat /\ Len(a) = n + 1 /\ a[n + 1] = m
        /\ \A i \in 1 .. n : a[i] = q[i]
    BY AppendIs
  <1> HIDE DEF a, n
  <1>2. SUFFICES ASSUME NEW i \in 0 .. n + 2, NEW j \in 0 .. n + 2, i < j,
                        BadAt(a, k, r, Err, i), BadAt(a, k, r, Err, j)
                 PROVE  \E h \in i + 1 .. j - 1 : GoodAt(a, k, h)
    BY <1>1 DEF Alternates, a
  <1>3. j \in 0 .. n + 1 /\ i \in 0 .. n
    BY <1>1, <1>2 DEF BadAt
  <1>4. BadAt(q, k, r, s, i) /\ BadAt(q, k, r, s, j)
    BY <1>1, <1>2, <1>3 DEF BadAt, n
  <1>5. PICK h \in i + 1 .. j - 1 : GoodAt(q, k, h)
    BY <1>1, <1>2, <1>3, <1>4 DEF Alternates, n
  <1> QED  BY <1>1, <1>5 DEF GoodAt, n

\* What is reported (u) when m is taken, after r: an error is reported of an error,
\* and stays what was reported last when m is no reading of k.
Reports(m, k, r, u) ==
  u = "ERR" => \/ IsReading(m, k) /\ m.value = Err
               \/ ~IsReading(m, k) /\ r = "ERR"

\* A message is taken.
LEMMA AlternatesTail ==
  ASSUME NEW q \in Seq(Messages), q # <<>>, NEW k, NEW r, NEW u, NEW s,
         Alternates(q, k, r, s), Reports(Head(q), k, r, u)
  PROVE  Alternates(Tail(q), k, u, s)
  <1> DEFINE a == Tail(q)
             n == Len(q)
  <1>1. /\ n \in Nat \ {0} /\ Len(a) = n - 1 /\ Head(q) = q[1]
        /\ \A i \in 1 .. n - 1 : a[i] = q[i + 1]
    BY TailIs
  <1> HIDE DEF a, n
  <1>2. SUFFICES ASSUME NEW i \in 0 .. n, NEW j \in 0 .. n, i < j,
                        BadAt(a, k, u, s, i), BadAt(a, k, u, s, j)
                 PROVE  \E h \in i + 1 .. j - 1 : GoodAt(a, k, h)
    BY <1>1 DEF Alternates, a
  <1>3. j + 1 \in 1 .. n + 1 /\ BadAt(q, k, r, s, j + 1)
    <2>1. j \in 1 .. n /\ j + 1 \in 1 .. n + 1
      BY <1>1, <1>2
    <2>2. CASE j = n
      BY <1>1, <1>2, <2>1, <2>2 DEF BadAt, n
    <2>3. CASE j # n
      <3>1. j \in 1 .. n - 1 /\ a[j] = q[j + 1]
        BY <1>1, <2>1, <2>3
      <3>2. IsReading(a[j], k) /\ a[j].value = Err
        BY <1>1, <1>2, <2>1, <2>3 DEF BadAt
      <3> QED  BY <2>1, <3>1, <3>2 DEF BadAt, n
    <2> QED  BY <2>1, <2>2, <2>3
  \* The place before it in the longer line: reported before, or one further on.
  <1>4. PICK g \in {0, i + 1} : /\ BadAt(q, k, r, s, g) /\ (g = 0 => i = 0 /\ ~IsReading(q[1], k))
    <2>1. CASE i # 0
      <3>1. BadAt(q, k, r, s, i + 1)
        BY <1>1, <1>2, <2>1 DEF BadAt, n
      <3> QED  BY <2>1, <3>1
    <2>2. CASE i = 0
      <3>1. u = "ERR"
        BY <1>1, <1>2, <2>2 DEF BadAt
      <3>2. CASE IsReading(q[1], k) /\ q[1].value = Err
        BY <1>1, <2>2, <3>2 DEF BadAt, n
      <3>3. CASE ~IsReading(q[1], k) /\ r = "ERR"
        BY <2>2, <3>3 DEF BadAt
      <3> QED  BY <1>1, <3>1, <3>2, <3>3 DEF Reports
    <2> QED  BY <2>1, <2>2
  <1>5. g \in 0 .. n + 1 /\ g < j + 1
    BY <1>1, <1>2, <1>4
  <1>6. PICK h \in g + 1 .. (j + 1) - 1 : GoodAt(q, k, h)
    BY <1>1, <1>3, <1>4, <1>5 DEF Alternates, n
  <1>7. h \in 1 .. n /\ (g = 0 => h # 1)
    BY <1>4, <1>6 DEF GoodAt, n
  <1>8. h - 1 \in i + 1 .. j - 1 /\ h - 1 \in 1 .. n - 1 /\ (h - 1) + 1 = h
    BY <1>1, <1>2, <1>4, <1>5, <1>6, <1>7
  <1>9. GoodAt(a, k, h - 1)
    BY <1>1, <1>6, <1>8 DEF GoodAt
  <1> QED  BY <1>8, <1>9

-----------------------------------------------------------------------------
(***************************************************************************)
(* The steps.                                                              *)
(***************************************************************************)
LEMMA PutDoes ==
  ASSUME NEW q \in Seq(Messages), Len(q) <= QueueSize, NEW m \in Messages, Put(q, m)
  PROVE  /\ QueueInv' /\ lost \subseteq lost'
         /\ \/ queue' = Append(q, m)
            \/ queue' = q /\ (<<m.from, m.kind>> \in Readers => <<m.from, m.kind>> \in lost')
         /\ Len(q) < QueueSize => queue' = Append(q, m)
  <1>1. CASE Len(q) < QueueSize
    <2>1. queue' = Append(q, m) /\ lost' = lost
      BY <1>1 DEF Put
    <2>2. Append(q, m) \in Seq(Messages) /\ Len(Append(q, m)) = Len(q) + 1 /\ Len(q) \in Nat
      BY AppendIs
    <2> QED  BY <1>1, <2>1, <2>2, Numbers DEF QueueInv
  <1>2. CASE ~(Len(q) < QueueSize)
    <2>1. queue' = q /\ lost' = lost \cup ({<<m.from, m.kind>>} \cap Readers)
      BY <1>2 DEF Put
    <2> QED  BY <1>2, <2>1 DEF QueueInv
  <1> QED  BY <1>1, <1>2

\* A message that is no reading is put.
LEMMA PutOther ==
  ASSUME Inv, NEW m \in Messages, m.from \in {"report", "timer"}, Put(queue, m),
         UNCHANGED <<sensor, unit, shown, reported>>
  PROVE  QueueInv' /\ ShownInv' /\ AlternateInv'
  <1>1. /\ queue \in Seq(Messages) /\ Len(queue) <= QueueSize
        /\ \A k : ~IsReading(m, k)
    BY DEF Inv, QueueInv, IsReading
  <1>2. /\ QueueInv' /\ lost \subseteq lost' /\ (queue' = Append(queue, m) \/ queue' = queue)
    BY <1>1, PutDoes
  <1>3. \A k : Queued(queue, k) => Queued(queue', k)
    BY <1>1, <1>2, QueuedAppend
  <1>4. ShownInv'
    BY <1>2, <1>3 DEF Inv, ShownInv
  <1>5. AlternateInv'
    <2> SUFFICES ASSUME NEW k \in Sampled, <<"sensor", k>> \notin lost'
                 PROVE  Alternates(queue', k, reported'[k], sensor'[k].value)
      BY DEF AlternateInv
    <2>1. Alternates(queue, k, reported[k], sensor[k].value)
      BY <1>2 DEF Inv, AlternateInv
    <2> QED  BY <1>1, <1>2, <2>1, AlternatesAppend
  <1> QED  BY <1>2, <1>4, <1>5

\* A message that is no reading is taken, and nothing is told of it.
LEMMA TakeOther ==
  ASSUME Inv, queue # <<>>, Head(queue).from \in {"report", "timer"}, Take,
         UNCHANGED <<sensor, unit, shown, reported>>
  PROVE  QueueInv' /\ ShownInv' /\ AlternateInv'
  <1>1. /\ queue \in Seq(Messages) /\ Len(queue) <= QueueSize
        /\ \A k : ~IsReading(Head(queue), k)
        /\ queue' = Tail(queue) /\ lost' = lost
    BY DEF Inv, QueueInv, IsReading, Take, Rest
  <1>2. QueueInv'
    BY <1>1, TailIs, Numbers DEF QueueInv
  <1>3. \A k : Queued(queue, k) => Queued(queue', k)
    BY <1>1, QueuedTail
  <1>4. ShownInv'
    BY <1>1, <1>3 DEF Inv, ShownInv
  <1>5. AlternateInv'
    <2> SUFFICES ASSUME NEW k \in Sampled, <<"sensor", k>> \notin lost'
                 PROVE  Alternates(queue', k, reported'[k], sensor'[k].value)
      BY DEF AlternateInv
    <2>1. Alternates(queue, k, reported[k], sensor[k].value)
      BY <1>1 DEF Inv, AlternateInv
    <2>2. Reports(Head(queue), k, reported[k], reported[k])
      BY <1>1 DEF Reports
    <2> QED  BY <1>1, <2>1, <2>2, AlternatesTail
  <1> QED  BY <1>2, <1>4, <1>5

\* A reading of k is taken and told of: the new value is what the display shows, and
\* the report of a good value is not an error.
LEMMA TakeReading ==
  ASSUME Inv, queue # <<>>, Take, NEW k \in Kinds, IsReading(Head(queue), k),
         UNCHANGED sensor, NEW type, type = "ERR" => Head(queue).value = Err,
         reported' = [reported EXCEPT ![k] = type],
         shown' = [shown EXCEPT ![k] = Current(unit'[k])],
         \A j \in Kinds \ {k} : Current(unit'[j]) = Current(unit[j])
  PROVE  QueueInv' /\ ShownInv' /\ AlternateInv'
  <1>1. /\ queue \in Seq(Messages) /\ Len(queue) <= QueueSize
        /\ queue' = Tail(queue) /\ lost' = lost
        /\ \A j : j # k => ~IsReading(Head(queue), j)
        /\ reported'[k] = type /\ shown'[k] = Current(unit'[k])
        /\ \A j \in Kinds \ {k} : reported'[j] = reported[j] /\ shown'[j] = shown[j]
    BY DEF Inv, TypeInv, QueueInv, IsReading, Take, Rest
  <1>2. QueueInv'
    BY <1>1, TailIs, Numbers DEF QueueInv
  <1>3. ShownInv'
    <2> SUFFICES ASSUME NEW j \in Kinds
                 PROVE  \/ Queued(queue', j) \/ <<"self", j>> \in lost' \/ shown'[j] = None
                        \/ shown'[j] = Current(unit'[j])
      BY DEF ShownInv
    <2>1. CASE j = k
      BY <1>1, <2>1
    <2>2. CASE j # k
      <3>1. Queued(queue, j) => Queued(queue', j)
        BY <1>1, <2>2, QueuedTail
      <3> QED  BY <1>1, <2>2, <3>1 DEF Inv, ShownInv
    <2> QED  BY <2>1, <2>2
  <1>4. AlternateInv'
    <2> SUFFICES ASSUME NEW j \in Sampled, <<"sensor", j>> \notin lost'
                 PROVE  Alternates(queue', j, reported'[j], sensor'[j].value)
      BY DEF AlternateInv
    <2>1. Alternates(queue, j, reported[j], sensor[j].value) /\ j \in Kinds
      BY <1>1, Numbers DEF Inv, AlternateInv
    <2>2. Reports(Head(queue), j, reported[j], reported'[j])
      BY <1>1, <2>1 DEF Reports
    <2>3. Alternates(Tail(queue), j, reported'[j], sensor[j].value)
      BY <1>1, <2>1, <2>2, AlternatesTail
    <2> QED  BY <1>1, <2>3
  <1> QED  BY <1>2, <1>3, <1>4

\* The head of the queue, when it is a reading.
LEMMA HeadReading ==
  ASSUME Inv, Receive("sensor") \/ Receive("self")
  PROVE  /\ queue # <<>> /\ Head(queue).kind \in Kinds /\ Head(queue).value \in Readings \cup {0}
         /\ IsReading(Head(queue), Head(queue).kind)
  <1>1. queue # <<>> /\ Head(queue).from \in {"sensor", "self"} /\ Head(queue) \in Messages
    BY TailIs DEF Inv, QueueInv, Receive
  <1> QED  BY <1>1, MessageIs DEF IsReading

LEMMA HandleErrStep ==
  ASSUME Inv, HandleErr
  PROVE  Inv'
  <1> DEFINE k == Head(queue).kind
  <1>1. /\ queue # <<>> /\ k \in Kinds /\ IsReading(Head(queue), k)
    BY HeadReading DEF HandleErr
  <1>2. /\ Head(queue).value = Err /\ Take /\ UNCHANGED <<current, sensor, is_pwr_on, dispatched>>
        /\ unit' = [unit EXCEPT ![k].value = Err, ![k].alarm = TRUE]
        /\ shown' = [shown EXCEPT ![k] = [value |-> Err, blink |-> TRUE]]
        /\ reported' = [reported EXCEPT ![k] = "ERR"]
    BY DEF HandleErr, TellAll
  <1> HIDE DEF k
  <1>3. /\ unit \in [Kinds -> UnitType] /\ unit[k] \in UnitType
        /\ unit' = [unit EXCEPT ![k] = [unit[k] EXCEPT !.value = Err, !.alarm = TRUE]]
    BY <1>1, <1>2 DEF Inv, TypeInv
  <1>4. /\ [unit[k] EXCEPT !.value = Err, !.alarm = TRUE] \in UnitType
        /\ [unit[k] EXCEPT !.value = Err, !.alarm = TRUE].value = Err
    BY <1>3, Numbers DEF UnitType, Readings
  <1>5. /\ unit' \in [Kinds -> UnitType] /\ unit'[k].value = Err
        /\ \A j \in Kinds \ {k} : unit'[j] = unit[j]
    BY <1>1, <1>3, <1>4
  <1>6. Current(unit'[k]) = [value |-> Err, blink |-> TRUE]
    BY <1>5 DEF Current
  <1>7. QueueInv' /\ ShownInv' /\ AlternateInv'
    BY <1>1, <1>2, <1>5, <1>6, TakeReading
  <1>8. TypeInv'
    BY <1>2, <1>5 DEF Inv, TypeInv
  <1> QED  BY <1>7, <1>8 DEF Inv

LEMMA HandleValueStep ==
  ASSUME Inv, HandleValue
  PROVE  Inv'
  <1> DEFINE k == Head(queue).kind
             v == Head(queue).value
             w == Warned(k)
             type == IF unit[k].alarm THEN "ERR_CLEAR" ELSE "VALUE"
             good == [unit EXCEPT ![k] = [unit[k] EXCEPT !.value = v, !.alarm = FALSE]]
  <1>1. /\ queue # <<>> /\ k \in Kinds /\ IsReading(Head(queue), k) /\ v \in Readings \cup {0}
        /\ w \in Kinds
    BY HeadReading DEF HandleValue, Warned, Kinds
  <1>2. /\ v # Err /\ Take /\ UNCHANGED <<current, sensor, is_pwr_on, dispatched>>
        /\ unit' = IF OutOfRange(k, v) THEN [good EXCEPT ![w] = [good[w] EXCEPT !.warning = TRUE]]
                   ELSE [good EXCEPT ![k] = [good[k] EXCEPT !.warning = FALSE]]
        /\ shown' = [shown EXCEPT ![k] = [value |-> v, blink |-> OutOfRange(k, v)]]
        /\ reported' = [reported EXCEPT ![k] = type]
    BY DEF HandleValue, TellAll
  <1>3. unit \in [Kinds -> UnitType] /\ unit[k] \in UnitType
    BY <1>1 DEF Inv, TypeInv
  <1> HIDE DEF k, v, w, type
  <1>4. /\ good \in [Kinds -> UnitType] /\ good[k].value = v
        /\ good[k].config = unit[k].config /\ good[k].high = unit[k].high /\ good[k].low = unit[k].low
        /\ \A j \in Kinds \ {k} : good[j] = unit[j]
    <2>1. [unit[k] EXCEPT !.value = v, !.alarm = FALSE] \in UnitType
      BY <1>1, <1>3 DEF UnitType
    <2>2. good \in [Kinds -> UnitType] /\ good[k] = [unit[k] EXCEPT !.value = v, !.alarm = FALSE]
      BY <1>1, <1>3, <2>1
    <2>3. \A j \in Kinds \ {k} : good[j] = unit[j]
      BY <1>3
    <2> QED  BY <1>3, <2>2, <2>3 DEF UnitType
  <1> HIDE DEF good
  \* The warning is no part of what is shown.
  <1>5. ASSUME NEW x \in Kinds, NEW b \in BOOLEAN,
               unit' = [good EXCEPT ![x] = [good[x] EXCEPT !.warning = b]]
        PROVE  /\ unit' \in [Kinds -> UnitType]
               /\ \A j \in Kinds : /\ unit'[j].value = good[j].value /\ unit'[j].config = good[j].config
                                    /\ unit'[j].high = good[j].high /\ unit'[j].low = good[j].low
    <2>1. good[x] \in UnitType
      BY <1>4
    <2>2. /\ [good[x] EXCEPT !.warning = b] \in UnitType
          /\ [good[x] EXCEPT !.warning = b].value = good[x].value
          /\ [good[x] EXCEPT !.warning = b].config = good[x].config
          /\ [good[x] EXCEPT !.warning = b].high = good[x].high
          /\ [good[x] EXCEPT !.warning = b].low = good[x].low
      BY <2>1 DEF UnitType
    <2>3. /\ unit'[x] = [good[x] EXCEPT !.warning = b]
          /\ \A j \in Kinds \ {x} : unit'[j] = good[j]
          /\ unit' \in [Kinds -> UnitType]
      BY <1>4, <1>5, <2>2
    <2> QED  BY <2>2, <2>3
  <1>6. /\ unit' \in [Kinds -> UnitType]
        /\ \A j \in Kinds : /\ unit'[j].value = good[j].value /\ unit'[j].config = good[j].config
                             /\ unit'[j].high = good[j].high /\ unit'[j].low = good[j].low
    BY <1>1, <1>2, <1>5
  <1>7. Current(unit'[k]) = [value |-> v, blink |-> OutOfRange(k, v)]
    BY <1>1, <1>2, <1>4, <1>6 DEF Current, OutOfRange
  <1>8. \A j \in Kinds \ {k} : Current(unit'[j]) = Current(unit[j])
    BY <1>4, <1>6 DEF Current
  <1>9. type # "ERR"
    BY DEF type
  <1>10. QueueInv' /\ ShownInv' /\ AlternateInv'
    BY <1>1, <1>2, <1>7, <1>8, <1>9, TakeReading
  <1>11. TypeInv'
    BY <1>2, <1>6 DEF Inv, TypeInv
  <1> QED  BY <1>10, <1>11 DEF Inv

\* New limits: the message the task sends itself finds room, because it has just taken
\* one, and an error is shown in the same way with any limits.
LEMMA HandleConfigStep ==
  ASSUME Inv, HandleConfig
  PROVE  Inv'
  <1> DEFINE k == Head(queue).kind
             a == AlarmRange(k, Head(queue).range)
             m == Reading("self", k, unit[k].value)
  <1>1. /\ queue # <<>> /\ Head(queue).from = "report" /\ k \in Kinds
        /\ queue \in Seq(Messages) /\ Len(queue) <= QueueSize /\ Head(queue) \in Messages
    BY TailIs DEF HandleConfig, Receive, Inv, QueueInv
  <1>2. /\ unit' = [unit EXCEPT ![k].high = a.high, ![k].low = a.low, ![k].config = TRUE]
        /\ SendToSelf(k) /\ UNCHANGED <<current, sensor, is_pwr_on, shown, reported, dispatched>>
    BY DEF HandleConfig
  <1>3. a.high \in Int /\ a.low \in Int
    <2>1. Head(queue).range \in [high : -127 .. 126, low : -127 .. 126]
      BY <1>1, MessageIs, Numbers
    <2> QED  BY <2>1 DEF AlarmRange
  <1>4. \A j : ~IsReading(Head(queue), j)
    BY <1>1 DEF IsReading
  <1>5. unit \in [Kinds -> UnitType] /\ unit[k] \in UnitType /\ sensor \in [Sampled -> SensorType]
    BY <1>1 DEF Inv, TypeInv
  <1> HIDE DEF k, a
  <1>6. /\ unit' \in [Kinds -> UnitType] /\ unit'[k].value = unit[k].value
        /\ \A j \in Kinds \ {k} : unit'[j] = unit[j]
    <2>1. unit' = [unit EXCEPT ![k] = [unit[k] EXCEPT !.high = a.high, !.low = a.low, !.config = TRUE]]
      BY <1>1, <1>2, <1>5
    <2>2. /\ [unit[k] EXCEPT !.high = a.high, !.low = a.low, !.config = TRUE] \in UnitType
          /\ [unit[k] EXCEPT !.high = a.high, !.low = a.low, !.config = TRUE].value = unit[k].value
      BY <1>3, <1>5 DEF UnitType
    <2> QED  BY <1>1, <1>5, <2>1, <2>2
  <1>7. TypeInv'
    BY <1>2, <1>6 DEF Inv, TypeInv
  <1>8. /\ Rest \in Seq(Messages) /\ Rest = Tail(queue)
        /\ Len(Rest) < QueueSize /\ Len(Rest) <= QueueSize
    BY <1>1, TailIs, Numbers DEF Rest
  <1>9. CASE unit[k].value = Err
    <2>1. queue' = Rest /\ lost' = lost
      BY <1>2, <1>9 DEF SendToSelf, Take
    <2>2. QueueInv'
      BY <1>8, <2>1 DEF QueueInv
    <2>3. \A j : Queued(queue, j) => Queued(queue', j)
      BY <1>1, <1>4, <1>8, <2>1, QueuedTail
    <2>4. \A j \in Kinds : Current(unit'[j]) = Current(unit[j])
      BY <1>6, <1>9 DEF Current
    <2>5. ShownInv'
      BY <1>2, <2>1, <2>3, <2>4 DEF Inv, ShownInv
    <2>6. AlternateInv'
      <3> SUFFICES ASSUME NEW j \in Sampled, <<"sensor", j>> \notin lost'
                   PROVE  Alternates(queue', j, reported'[j], sensor'[j].value)
        BY DEF AlternateInv
      <3>1. Alternates(queue, j, reported[j], sensor[j].value)
        BY <2>1 DEF Inv, AlternateInv
      <3>2. Reports(Head(queue), j, reported[j], reported[j])
        BY <1>4 DEF Reports
      <3> QED  BY <1>1, <1>2, <1>8, <2>1, <3>1, <3>2, AlternatesTail
    <2> QED  BY <1>7, <2>2, <2>5, <2>6 DEF Inv
  <1>10. CASE unit[k].value # Err
    <2>1. /\ m \in Messages /\ IsReading(m, k) /\ m.value # Err
          /\ \A j : j # k => ~IsReading(m, j)
      <3>1. unit[k].value \in Values \cup {0}
        BY <1>5, <1>10 DEF UnitType, Readings
      <3>2. m \in Messages
        BY <1>1, <3>1, MessagesAre DEF Messages
      <3> QED  BY <1>10, <3>2 DEF Reading, IsReading
    <2>2. Put(Rest, m)
      BY <1>2, <1>10 DEF SendToSelf
    <2> HIDE DEF m
    <2>3. QueueInv' /\ lost \subseteq lost' /\ queue' = Append(Rest, m)
      BY <1>8, <2>1, <2>2, PutDoes
    <2>4. \A j : Queued(queue, j) => Queued(queue', j)
      BY <1>1, <1>4, <1>8, <2>1, <2>3, QueuedTail, QueuedAppend
    <2>5. Queued(queue', k)
      BY <1>8, <2>1, <2>3, QueuedAppend
    <2>6. ShownInv'
      <3> SUFFICES ASSUME NEW j \in Kinds, j # k
                   PROVE  \/ Queued(queue', j) \/ <<"self", j>> \in lost' \/ shown'[j] = None
                          \/ shown'[j] = Current(unit'[j])
        BY <2>5 DEF ShownInv
      <3> QED  BY <1>2, <1>6, <2>3, <2>4 DEF Inv, ShownInv
    <2>7. AlternateInv'
      <3> SUFFICES ASSUME NEW j \in Sampled, <<"sensor", j>> \notin lost'
                   PROVE  Alternates(queue', j, reported'[j], sensor'[j].value)
        BY DEF AlternateInv
      <3>1. Alternates(queue, j, reported[j], sensor[j].value)
        BY <2>3 DEF Inv, AlternateInv
      <3>2. Reports(Head(queue), j, reported[j], reported[j])
        BY <1>4 DEF Reports
      <3>3. Alternates(Rest, j, reported[j], sensor[j].value)
        BY <1>1, <1>8, <3>1, <3>2, AlternatesTail
      <3> QED  BY <1>2, <1>8, <2>1, <2>3, <3>3, AlternatesAppend
    <2> QED  BY <1>7, <2>3, <2>6, <2>7 DEF Inv
  <1> QED  BY <1>9, <1>10

\* A sensor task posts a value only when it differs from the one it posted before.
LEMMA SampleStep ==
  ASSUME Inv, NEW k \in Sampled, Sample(k)
  PROVE  Inv'
  <1> DEFINE v == current[k]
             dir == NextDir(k, v)
             m == Reading("sensor", k, v)
  <1>1. /\ v # sensor[k].value
        /\ UNCHANGED <<current, unit, is_pwr_on, shown, reported, dispatched>>
    BY DEF Sample
  <1>2. /\ sensor \in [Sampled -> SensorType] /\ sensor[k] \in SensorType /\ v \in Readings
        /\ k \in Kinds /\ queue \in Seq(Messages) /\ Len(queue) <= QueueSize
    BY Numbers DEF Inv, TypeInv, QueueInv
  <1>3. CASE ~Confirmed(dir)
    <2>1. sensor' = [sensor EXCEPT ![k] = [sensor[k] EXCEPT !.dir = dir]] /\ UNCHANGED <<queue, lost>>
      BY <1>2, <1>3 DEF Sample
    <2>2. dir \in -Confirm .. Confirm
      <3>1. sensor[k].dir \in Int
        BY <1>2, Numbers DEF SensorType
      <3>2. dir \in Int
        BY <3>1 DEF NextDir, Step
      <3> HIDE DEF dir
      <3> QED  BY <1>3, <3>2, Numbers DEF Confirmed
    <2> HIDE DEF dir
    <2>3. /\ [sensor[k] EXCEPT !.dir = dir] \in SensorType
          /\ [sensor[k] EXCEPT !.dir = dir].value = sensor[k].value
      BY <1>2, <2>2 DEF SensorType
    <2>4. /\ sensor' \in [Sampled -> SensorType]
          /\ \A j \in Sampled : sensor'[j].value = sensor[j].value
      BY <1>2, <2>1, <2>3
    <2>5. TypeInv'
      BY <1>1, <2>4 DEF Inv, TypeInv
    <2> QED  BY <1>1, <2>1, <2>4, <2>5 DEF Inv, QueueInv, ShownInv, AlternateInv
  <1>4. CASE Confirmed(dir)
    <2>1. sensor' = [sensor EXCEPT ![k] = [value |-> v, dir |-> 0]] /\ Put(queue, m)
      BY <1>4 DEF Sample
    <2>2. /\ sensor' \in [Sampled -> SensorType] /\ sensor'[k].value = v
          /\ \A j \in Sampled \ {k} : sensor'[j] = sensor[j]
      <3>1. [value |-> v, dir |-> 0] \in SensorType
        BY <1>2, Numbers DEF SensorType
      <3> QED  BY <1>2, <2>1, <3>1
    <2>3. /\ m \in Messages /\ IsReading(m, k) /\ m.value = v /\ m.from = "sensor" /\ m.kind = k
          /\ \A j : j # k => ~IsReading(m, j)
      <3>1. m \in Messages
        BY <1>2, MessagesAre DEF Messages
      <3> QED  BY <3>1 DEF Reading, IsReading
    <2> HIDE DEF m
    <2>4. /\ QueueInv' /\ lost \subseteq lost'
          /\ \/ queue' = Append(queue, m)
             \/ queue' = queue /\ <<"sensor", k>> \in lost'
      BY <1>2, <2>1, <2>3, PutDoes DEF Readers
    <2>5. TypeInv'
      BY <1>1, <2>2 DEF Inv, TypeInv
    <2>6. \A j : Queued(queue, j) => Queued(queue', j)
      BY <1>2, <2>3, <2>4, QueuedAppend
    <2>7. ShownInv'
      BY <1>1, <2>4, <2>6 DEF Inv, ShownInv
    <2>8. AlternateInv'
      <3> SUFFICES ASSUME NEW j \in Sampled, <<"sensor", j>> \notin lost'
                   PROVE  Alternates(queue', j, reported'[j], sensor'[j].value)
        BY DEF AlternateInv
      <3>1. Alternates(queue, j, reported[j], sensor[j].value)
        BY <2>4 DEF Inv, AlternateInv
      <3>2. CASE queue' = queue
        <4>1. j # k
          BY <2>4, <3>2, AppendIs, <1>2, <2>3
        <4> QED  BY <1>1, <2>2, <3>1, <3>2, <4>1
      <3>3. CASE queue' = Append(queue, m) /\ j = k /\ v = Err
        BY <1>1, <1>2, <2>2, <2>3, <3>1, <3>3, AlternatesAppendErr
      <3>4. CASE queue' = Append(queue, m) /\ (j # k \/ v # Err)
        BY <1>1, <1>2, <2>2, <2>3, <3>1, <3>4, AlternatesAppend
      <3> QED  BY <2>4, <3>2, <3>3, <3>4
    <2> QED  BY <2>4, <2>5, <2>7, <2>8 DEF Inv
  <1> QED  BY <1>3, <1>4

LEMMA OtherHandleStep ==
  ASSUME Inv, HandleInvalidConfig \/ HandleLock \/ HandleTimer
  PROVE  Inv'
  <1>1. /\ queue # <<>> /\ Head(queue).from \in {"report", "timer"} /\ Take
        /\ UNCHANGED <<current, sensor, unit, shown, reported, dispatched>>
        /\ is_pwr_on' \in BOOLEAN
    BY DEF HandleInvalidConfig, HandleLock, HandleTimer, Receive, Inv, TypeInv
  <1>2. QueueInv' /\ ShownInv' /\ AlternateInv'
    BY <1>1, TakeOther
  <1> QED  BY <1>1, <1>2 DEF Inv, TypeInv

LEMMA TimerExpiredStep ==
  ASSUME Inv, TimerExpired
  PROVE  Inv'
  <1>1. TimerTimeout \in Messages /\ TimerTimeout.from = "timer"
    BY DEF Messages, TimerTimeout
  <1>2. Put(queue, TimerTimeout) /\ UNCHANGED <<current, sensor, unit, is_pwr_on, shown, reported, dispatched>>
    BY DEF TimerExpired
  <1>3. QueueInv' /\ ShownInv' /\ AlternateInv'
    BY <1>1, <1>2, PutOther
  <1> QED  BY <1>2, <1>3 DEF Inv, TypeInv

LEMMA DispatchStep ==
  ASSUME Inv, Dispatch
  PROVE  Inv'
  <1> DEFINE k == DispatchOrder[(dispatched % 4) + 1]
  <1>1. /\ dispatched < 4 * MaxDispatch /\ dispatched' = dispatched + 1
        /\ UNCHANGED <<current, sensor, unit, is_pwr_on, shown, reported>>
        /\ IF k = "lock" THEN \E l \in LockValues : Put(queue, Lock(l))
           ELSE \E r \in Ranges[k] : Put(queue, Config(k, r))
    BY DEF Dispatch
  <1>2. k = "lock" \/ k \in Kinds
    <2>1. dispatched \in Nat
      BY Numbers DEF Inv, TypeInv
    <2>2. (dispatched % 4) + 1 \in {1, 2, 3, 4}
      BY <2>1
    <2> QED  BY <2>2 DEF DispatchOrder, Kinds
  <1> HIDE DEF k
  <1>3. PICK m \in Messages : m.from = "report" /\ Put(queue, m)
    <2>1. CASE k = "lock"
      <3>1. PICK l \in LockValues : Put(queue, Lock(l))
        BY <1>1, <2>1
      <3>2. Lock(l) \in Messages
        BY MessagesAre DEF Messages
      <3>3. Lock(l).from = "report"
        BY DEF Lock
      <3> QED  BY <3>1, <3>2, <3>3
    <2>2. CASE k # "lock"
      <3>1. PICK r \in Ranges[k] : Put(queue, Config(k, r))
        BY <1>1, <2>2
      <3>2. Config(k, r) \in Messages
        BY <1>2, <2>2, MessagesAre DEF Messages
      <3>3. Config(k, r).from = "report"
        BY DEF Config
      <3> QED  BY <3>1, <3>2, <3>3
    <2> QED  BY <2>1, <2>2
  <1>4. QueueInv' /\ ShownInv' /\ AlternateInv'
    BY <1>1, <1>3, PutOther
  <1>5. dispatched' \in 0 .. 4 * MaxDispatch
    BY <1>1, Numbers DEF Inv, TypeInv
  <1> QED  BY <1>1, <1>4, <1>5 DEF Inv, TypeInv

LEMMA ChangeStep ==
  ASSUME Inv, NEW k \in Sampled, NEW v \in Readings, Change(k, v)
  PROVE  Inv'
  BY DEF Change, Inv, TypeInv, QueueInv, ShownInv, AlternateInv

LEMMA InitInv == Init => Inv
  <1> SUFFICES ASSUME Init PROVE Inv
    OBVIOUS
  <1>1. /\ queue = <<>> /\ shown = [k \in Kinds |-> None] /\ reported = [k \in Kinds |-> None]
        /\ unit = [k \in Kinds |-> [value |-> 0, alarm |-> FALSE, warning |-> FALSE,
                                    config |-> FALSE, high |-> 0, low |-> 0]]
        /\ sensor = [k \in Sampled |-> [value |-> PowerOnValue, dir |-> 0]]
        /\ current \in [Sampled -> Readings] /\ is_pwr_on = FALSE /\ dispatched = 0
    BY DEF Init
  <1>2. TypeInv
    <2>1. [value |-> PowerOnValue, dir |-> 0] \in SensorType
      BY Numbers DEF SensorType
    <2>2. [value |-> 0, alarm |-> FALSE, warning |-> FALSE, config |-> FALSE, high |-> 0, low |-> 0]
            \in UnitType
      BY DEF UnitType
    <2>3. sensor \in [Sampled -> SensorType]
      BY <1>1, <2>1
    <2>4. unit \in [Kinds -> UnitType]
      BY <1>1, <2>2
    <2>5. dispatched \in 0 .. 4 * MaxDispatch
      BY <1>1, Numbers
    <2> QED  BY <1>1, <2>3, <2>4, <2>5 DEF TypeInv
  <1>3. QueueInv
    BY <1>1, Numbers DEF QueueInv
  <1>4. ShownInv
    BY <1>1 DEF ShownInv
  <1>5. AlternateInv
    <2> SUFFICES ASSUME NEW k \in Sampled
                 PROVE  Alternates(queue, k, reported[k], sensor[k].value)
      BY DEF AlternateInv
    <2>1. reported[k] # "ERR"
      BY <1>1, Numbers
    <2> QED  BY <1>1, <2>1 DEF Alternates, BadAt
  <1> QED  BY <1>2, <1>3, <1>4, <1>5 DEF Inv

LEMMA NextInv == Inv /\ [Next]_vars => Inv'
  <1> SUFFICES ASSUME Inv, [Next]_vars PROVE Inv'
    OBVIOUS
  <1>1. CASE Handle
    BY <1>1, HandleErrStep, HandleValueStep, HandleConfigStep, OtherHandleStep DEF Handle
  <1>2. ASSUME NEW k \in Sampled, Sample(k)
        PROVE  Inv'
    BY <1>2, SampleStep
  <1>3. ASSUME NEW k \in Sampled, NEW v \in Readings, Change(k, v)
        PROVE  Inv'
    BY <1>3, ChangeStep
  <1>4. CASE UNCHANGED vars
    BY <1>4 DEF vars, Inv, TypeInv, QueueInv, ShownInv, AlternateInv
  <1> QED  BY <1>1, <1>2, <1>3, <1>4, TimerExpiredStep, DispatchStep DEF Next

-----------------------------------------------------------------------------
(***************************************************************************)
(* The theorems.                                                           *)
(***************************************************************************)
\* Everything below holds in every state: types (alarm_task.c's values are those of
\* an int8_t or the error), the display and the order of errors.
THEOREM AlarmIsSafe == Spec => []Inv
  <1>1. Init => Inv
    BY InitInv
  <1>2. Inv /\ [Next]_vars => Inv'
    BY NextInv
  <1> QED  BY <1>1, <1>2, PTL DEF Spec

\* The types of the alarm task and the sensor tasks, and the length of the queue.
THEOREM TypeCorrect == Spec => []TypeOK
  <1>1. Inv => TypeOK
    <2> SUFFICES ASSUME Inv PROVE TypeOK
      OBVIOUS
    <2>1. sensor \in [Sampled -> [value : Readings \cup {PowerOnValue}, dir : -Confirm .. Confirm]]
      BY DEF Inv, TypeInv, SensorType
    <2>2. \A k \in Kinds : unit[k].value \in Readings \cup {0} /\ unit[k].alarm \in BOOLEAN
      BY DEF Inv, TypeInv, UnitType
    <2> QED  BY <2>1, <2>2 DEF Inv, TypeInv, QueueInv, TypeOK
  <1> QED  BY <1>1, AlarmIsSafe, PTL

\* What the display shows is the value the alarm task holds, blinking exactly when
\* it is an error or out of the limits configured last, unless a reading is on its way
\* or one the task sent itself was dropped: the task tells the display of every value
\* it takes, and sends itself its own after new limits (alarm_task.c:263).
THEOREM DisplayIsCurrent == Spec => []ShownIsCurrent
  <1>1. Inv => ShownIsCurrent
    BY DEF Inv, ShownInv, Queued, IsReading, Current, ShownIsCurrent, ReadingQueued, OutOfRange
  <1> QED  BY <1>1, AlarmIsSafe, PTL

\* No second error of a sensor is reported without a good value between the two,
\* unless the queue dropped that value: the head of the queue and what was reported
\* last are places next to each other.
THEOREM ErrorsAreReportedOnce == Spec => []ErrorReportedOnce
  <1>1. Inv => ErrorReportedOnce
    <2> SUFFICES ASSUME Inv, Receive("sensor") \/ Receive("self"), Head(queue).value = Err,
                        reported[Head(queue).kind] = "ERR"
                 PROVE  <<"sensor", Head(queue).kind>> \in lost
      BY DEF ErrorReportedOnce
    <2> DEFINE k == Head(queue).kind
    <2>1. /\ queue \in Seq(Messages) /\ queue # <<>>
          /\ IsReading(Head(queue), k) /\ k \in Sampled
      <3>1. queue # <<>> /\ IsReading(Head(queue), k) /\ queue \in Seq(Messages)
        BY HeadReading DEF Inv, QueueInv
      <3>2. Head(queue) \in Messages /\ Head(queue).from \in {"sensor", "self"}
        BY <3>1, TailIs DEF IsReading
      <3> QED  BY <3>1, <3>2, MessageIs
    <2>2. Head(queue) = queue[1] /\ Len(queue) \in Nat \ {0}
      BY <2>1, TailIs
    <2> HIDE DEF k
    <2>3. /\ BadAt(queue, k, reported[k], sensor[k].value, 0)
          /\ BadAt(queue, k, reported[k], sensor[k].value, 1)
      BY <2>1, <2>2 DEF BadAt, k
    <2>4. ~Alternates(queue, k, reported[k], sensor[k].value)
      <3>1. 0 \in 0 .. Len(queue) + 1 /\ 1 \in 0 .. Len(queue) + 1 /\ 0 + 1 .. 1 - 1 = {}
        BY <2>2
      <3> QED  BY <2>3, <3>1 DEF Alternates
    <2> QED  BY <2>1, <2>4 DEF Inv, AlternateInv, k
  <1> QED  BY <1>1, AlarmIsSafe, PTL
=============================================================================
