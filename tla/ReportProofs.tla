---------------------------- MODULE ReportProofs ----------------------------
(***************************************************************************)
(* Proofs about Report, for queues, fault queues and firmwares of any      *)
(* size: nothing the report task has to do for ever is ever forgotten,     *)
(* unless a full queue drops it, and the faults reach the server in order. *)
(* Each invariant is inductive next to the types; what the handlers have   *)
(* in common is in lemmas about the queue.                                 *)
(***************************************************************************)
EXTENDS Report, FiniteSetTheorems, TLAPS

-----------------------------------------------------------------------------
(* The queue. *)

Holds(q, t) == \E i \in 1 .. Len(q) : WorkOf(q[i]) = t

LEMMA UnderWayHolds ==
  ASSUME NEW t
  PROVE  UnderWay(t) <=> Holds(queue, t) \/ t \in running \/ (t = "active" /\ starting) \/ dropped
BY DEF UnderWay, Queued, Holds

LEMMA UnderWayHoldsNext ==
  ASSUME NEW t
  PROVE  UnderWay(t)' <=> Holds(queue', t) \/ t \in running' \/ (t = "active" /\ starting') \/ dropped'
BY DEF UnderWay, Queued, Holds

\* What the tail of a queue lacks of the queue is the work of its head.
LEMMA TailHolds ==
  ASSUME NEW q \in Seq(Types), q # <<>>, NEW t, Holds(q, t), WorkOf(Head(q)) # t
  PROVE  Holds(Tail(q), t)
<1>1. PICK i \in 1 .. Len(q) : WorkOf(q[i]) = t
  BY DEF Holds
<1>2. i # 1
  BY <1>1
<1>3. i - 1 \in 1 .. Len(Tail(q)) /\ Tail(q)[i - 1] = q[i]
  BY <1>2
<1> QED
  BY <1>1, <1>3 DEF Holds

\* A queue that takes a message keeps what it holds and holds the message.
LEMMA AppendHolds ==
  ASSUME NEW q \in Seq(Types), NEW m \in Types, NEW t
  PROVE  Holds(Append(q, m), t) <=> Holds(q, t) \/ WorkOf(m) = t
<1>1. /\ Len(Append(q, m)) = Len(q) + 1 /\ Append(q, m)[Len(q) + 1] = m
      /\ \A i \in 1 .. Len(q) : Append(q, m)[i] = q[i]
  OBVIOUS
<1>2. 1 .. Len(q) + 1 = (1 .. Len(q)) \cup {Len(q) + 1}
  OBVIOUS
<1> QED
  BY <1>1, <1>2 DEF Holds

\* A put keeps the types; afterwards the queue holds what it held and the message, or
\* the message was dropped.
LEMMA PutHolds ==
  ASSUME TypeOK, NEW m \in Types, Put(m)
  PROVE  /\ queue' \in Seq(Types) /\ Len(queue') <= QueueSize /\ dropped' \in BOOLEAN
         /\ \A t : Holds(queue, t) => Holds(queue', t)
         /\ m # "ERR" => Holds(queue', WorkOf(m)) \/ dropped'
         /\ dropped => dropped'
<1>1. CASE Len(queue) < QueueSize
  <2>1. queue' = Append(queue, m) /\ dropped' = dropped
    BY <1>1 DEF Put
  <2>2. queue \in Seq(Types) /\ dropped \in BOOLEAN
    BY DEF TypeOK
  <2>3. queue' \in Seq(Types) /\ Len(queue') <= QueueSize
    BY <1>1, <2>1, <2>2, ReportAssumption DEF ReportAssumption
  <2> QED
    BY <2>1, <2>2, <2>3, AppendHolds
<1>2. CASE ~(Len(queue) < QueueSize)
  BY <1>2 DEF Put, TypeOK
<1> QED
  BY <1>1, <1>2

-----------------------------------------------------------------------------
(* Types. *)

\* Taking a message keeps the types and all work but the message's.
LEMMA TakeHolds ==
  ASSUME TypeOK, Waiting, Take
  PROVE  /\ queue' \in Seq(Types) /\ Len(queue') <= QueueSize /\ dropped' = dropped
         /\ Head(queue) \in Types
         /\ \A t : Holds(queue, t) /\ WorkOf(Head(queue)) # t => Holds(queue', t)
<1>1. queue \in Seq(Types) /\ queue # <<>> /\ queue' = Tail(queue) /\ dropped' = dropped
  BY DEF TypeOK, Waiting, Take
<1>2. Len(Tail(queue)) <= QueueSize
  BY <1>1, ReportAssumption DEF TypeOK, ReportAssumption
<1>3. Tail(queue) \in Seq(Types) /\ Head(queue) \in Types
  BY <1>1
<1>4. ASSUME NEW t, Holds(queue, t), WorkOf(Head(queue)) # t
      PROVE  Holds(Tail(queue), t)
  BY <1>1, <1>4, TailHolds
<1> QED
  BY <1>1, <1>2, <1>3, <1>4

LEMMA ModuloRange ==
  ASSUME NEW n \in Int
  PROVE  n % Width \in 0 .. Width - 1
BY ReportAssumption DEF ReportAssumption

LEMMA DownloadedType ==
  ASSUME TypeOK
  PROVE  Downloaded \in 0 .. Width - 1
<1>1. upgrade.bin_size \in Int /\ upgrade.download_size \in Int /\ PageSize \in Int
  BY ReportAssumption DEF TypeOK, ReportAssumption
<1>2. (upgrade.bin_size - upgrade.download_size) % Width \in Int
  BY <1>1, ModuloRange
<1>3. Size \in Int
  BY <1>1, <1>2 DEF Size
<1> QED
  BY <1>1, <1>3, ModuloRange DEF Downloaded

\* The steps of the chain.
ChainOf ==
  \/ HandleNetHalInfo \/ SyncUtc \/ Activate \/ NoUpgrade \/ NewUpgrade
  \/ RequestFails \/ PartOfUpgrade
  \/ DownloadPage \/ DownloadWithBadDigest \/ FlashFails

\* A step of the chain takes a message of the chain, is about to start the timer
\* afterwards and leaves the others' timers running.
LEMMA ChainOfStarts ==
  ASSUME TypeOK, ChainOf
  PROVE  /\ Waiting /\ Head(queue) \in Chain /\ Take
         /\ starting' = TRUE /\ active_event' \in Chain
         /\ running \subseteq running' /\ running' \subseteq Timers
         /\ "active" \in running' => "active" \in running
         /\ hal' \in 0 .. HalSize /\ is_active' \in BOOLEAN /\ (is_active => is_active')
         /\ is_active' # is_active => {"log", "fault"} \subseteq running'
         /\ upgrade' \in [bin_size : Sizes \cup {0}, download_size : 0 .. Width - 1, answered : BOOLEAN]
         /\ UNCHANGED <<faults, net, got>>
<1> USE DEF TypeOK, ChainStep, StartActive, Retry, Handling, Chain, Timers
<1>1. CASE HandleNetHalInfo
  <2>1. hal \in 0 .. HalSize /\ HalSize \in Nat /\ hal' \in {hal, hal - 1} /\ (hal' # hal => hal > 0)
    <3>1. HalSize \in Nat /\ hal \in 0 .. HalSize
      BY ReportAssumption DEF ReportAssumption
    <3> QED
      BY <1>1, <3>1 DEF HandleNetHalInfo
  <2>2. hal' \in 0 .. HalSize
    BY ONLY <2>1
  <2> QED
    BY <1>1, <2>2 DEF HandleNetHalInfo
<1>2. CASE SyncUtc
  BY <1>2 DEF SyncUtc
<1>3. CASE Activate
  BY <1>3 DEF Activate, FirstTimers
<1>4. CASE NoUpgrade
  BY <1>4 DEF NoUpgrade
<1>5. CASE NewUpgrade
  BY <1>5 DEF NewUpgrade
<1>6. CASE RequestFails
  BY <1>6 DEF RequestFails
<1>7. CASE DownloadPage
  BY <1>7, DownloadedType DEF DownloadPage
<1>8. CASE DownloadWithBadDigest
  BY <1>8, DownloadedType DEF DownloadWithBadDigest
<1>9. CASE FlashFails
  BY <1>9 DEF FlashFails
<1>10. CASE PartOfUpgrade
  BY <1>10 DEF PartOfUpgrade
<1> QED
  BY <1>1, <1>2, <1>3, <1>4, <1>5, <1>6, <1>7, <1>8, <1>9, <1>10 DEF ChainOf

\* The steps of the log and of the faults.
OtherOf ==
  HandleLog \/ HandleError \/ HandleFaultIdle \/ ReportFault \/ ReportFaultFails

LEMMA OtherOfLeaves ==
  ASSUME TypeOK, OtherOf
  PROVE  /\ Waiting /\ Head(queue) \in {"REPORT_LOG", "REPORT_FAULT", "ERR"} /\ Take
         /\ running \subseteq running' /\ running' \subseteq Timers
         /\ UNCHANGED <<starting, active_event, hal, is_active, upgrade, net>>
         /\ Head(queue) = "REPORT_LOG" /\ is_active => "log" \in running'
<1> USE DEF TypeOK, OtherStep, Handling, Start, Idle, Timers
<1>1. CASE HandleLog
  BY <1>1 DEF HandleLog
<1>2. CASE HandleError
  BY <1>2 DEF HandleError
<1>3. CASE HandleFaultIdle
  BY <1>3 DEF HandleFaultIdle
<1>4. CASE ReportFault
  BY <1>4 DEF ReportFault
<1>5. CASE ReportFaultFails
  BY <1>5 DEF ReportFaultFails
<1> QED
  BY <1>1, <1>2, <1>3, <1>4, <1>5 DEF OtherOf

LEMMA PutTypes ==
  ASSUME TypeOK, NEW m \in Types, Put(m),
         UNCHANGED <<starting, active_event, is_active, faults, upgrade, got>>,
         running' \subseteq Timers, hal' = hal,
         net' \in [inits : 0 .. MaxInits, telling : BOOLEAN]
  PROVE  TypeOK'
BY PutHolds DEF TypeOK

LEMMA EventTypes ==
  ASSUME TypeOK, NEW t \in Timers
  PROVE  EventOf(t) \in Types /\ WorkOf(EventOf(t)) = t /\ EventOf(t) # "ERR"
BY DEF TypeOK, EventOf, WorkOf, Timers, Types, Chain

\* A new fault is stored in a slot of the ring.
LEMMA FaultTypes ==
  ASSUME TypeOK, OtherOf
  PROVE  faults' \in [read : Nat, write : Nat, slot : [0 .. FaultSize - 1 -> Nat]] /\ got' \in Nat
<1> USE DEF TypeOK
<1>1. CASE HandleLog \/ HandleFaultIdle
  BY <1>1 DEF HandleLog, HandleFaultIdle
<1>2. CASE HandleError
  <2>1. faults' = faults \/ faults' = [faults EXCEPT !.slot[faults.write % FaultSize] = faults.write + 1,
                                                      !.write = @ + 1]
    BY <1>2 DEF HandleError
  <2>2. faults.write + 1 \in Nat
    OBVIOUS
  <2> QED
    BY <1>2, <2>1, <2>2 DEF HandleError
<1>3. CASE ReportFault \/ ReportFaultFails
  <2>1. FaultSize \in Nat \ {0} /\ faults.read \in Nat
    BY ReportAssumption DEF ReportAssumption
  <2>2. faults.read % FaultSize \in 0 .. FaultSize - 1
    BY <2>1
  <2>3. Oldest \in Nat
    BY <2>2 DEF Oldest
  <2> QED
    BY <1>3, <2>3 DEF ReportFault, ReportFaultFails
<1> QED
  BY <1>1, <1>2, <1>3 DEF OtherOf

LEMMA HandleSplits ==
  Handle <=> ChainOf \/ OtherOf \/ Restart
BY DEF Handle, ChainOf, OtherOf

LEMMA NoFaultsType == NoFaults \in [read : Nat, write : Nat, slot : [0 .. FaultSize - 1 -> Nat]]
BY DEF NoFaults

LEMMA InitTypes == Init => TypeOK
<1> SUFFICES ASSUME Init PROVE TypeOK
  OBVIOUS
<1>1. QueueSize \in Nat /\ HalSize \in Nat /\ MaxInits \in Nat /\ Width \in Nat /\ Width > 0
  BY ReportAssumption DEF ReportAssumption
<1>2. queue \in Seq(Types) /\ Len(queue) <= QueueSize
  BY <1>1 DEF Init
<1>3. upgrade \in [bin_size : Sizes \cup {0}, download_size : 0 .. Width - 1, answered : BOOLEAN]
  BY <1>1 DEF Init
<1>4. net \in [inits : 0 .. MaxInits, telling : BOOLEAN] /\ hal \in 0 .. HalSize
  BY <1>1 DEF Init
<1> QED
  BY <1>2, <1>3, <1>4, NoFaultsType DEF Init, TypeOK, Chain

LEMMA StepTypes == TypeOK /\ [Next]_vars => TypeOK'
<1> SUFFICES ASSUME TypeOK, [Next]_vars PROVE TypeOK'
  OBVIOUS
<1>1. ASSUME NEW t \in Timers, Expire(t) PROVE TypeOK'
  BY <1>1, EventTypes, PutTypes DEF Expire, TypeOK
<1>2. CASE NetInfo
  <2>1. MaxInits \in Nat /\ HalSize \in Nat /\ net.inits \in Nat
    BY ReportAssumption DEF TypeOK, ReportAssumption
  <2>2. net' \in [inits : 0 .. MaxInits, telling : BOOLEAN]
    BY <1>2, <2>1 DEF NetInfo
  <2>3. hal' \in 0 .. HalSize /\ dropped' \in BOOLEAN
    <3>1. hal \in 0 .. HalSize /\ dropped \in BOOLEAN
      BY DEF TypeOK
    <3>2. CASE hal < HalSize
      BY <1>2, <2>1, <3>1, <3>2 DEF NetInfo
    <3>3. CASE ~(hal < HalSize)
      BY <1>2, <2>1, <3>1, <3>3 DEF NetInfo
    <3> QED
      BY <3>2, <3>3
  <2> QED
    BY <1>2, <2>2, <2>3 DEF NetInfo, TypeOK
<1>3. CASE NetNotice
  BY <1>3, PutTypes DEF NetNotice, TypeOK, Types, Chain
<1>4. CASE Error
  BY <1>4, PutTypes DEF Error, TypeOK, Types
<1>5. CASE ChainOf
  BY <1>5, ChainOfStarts, TakeHolds DEF TypeOK
<1>6. CASE OtherOf
  BY <1>6, OtherOfLeaves, FaultTypes, TakeHolds DEF TypeOK
<1>7. CASE Restart
  <2>1. QueueSize \in Nat /\ HalSize \in Nat /\ MaxInits \in Nat /\ Width \in Nat /\ Width > 0
    BY ReportAssumption DEF ReportAssumption
  <2>2. queue' \in Seq(Types) /\ Len(queue') <= QueueSize
    BY <1>7, <2>1 DEF Restart
  <2>3. upgrade' \in [bin_size : Sizes \cup {0}, download_size : 0 .. Width - 1, answered : BOOLEAN]
    BY <1>7, <2>1 DEF Restart
  <2>4. net' \in [inits : 0 .. MaxInits, telling : BOOLEAN] /\ hal' \in 0 .. HalSize
    BY <1>7, <2>1 DEF Restart
  <2> QED
    BY <1>7, <2>2, <2>3, <2>4, NoFaultsType DEF Restart, TypeOK, Chain
<1>8. CASE StartTimer
  BY <1>8 DEF StartTimer, TypeOK, Timers
<1>9. CASE UNCHANGED vars
  BY <1>9 DEF vars, TypeOK
<1> QED
  BY <1>1, <1>2, <1>3, <1>4, <1>5, <1>6, <1>7, <1>8, <1>9, HandleSplits DEF Next

\* The declared types hold in every reachable state: no queue exceeds its length,
\* and the downloaded size stays below its width.
THEOREM TypeCorrect == Spec => []TypeOK
<1>1. Init => TypeOK
  BY InitTypes
<1>2. TypeOK /\ [Next]_vars => TypeOK'
  BY StepTypes
<1> QED
  BY <1>1, <1>2, PTL DEF Spec

-----------------------------------------------------------------------------
(* What goes on for ever. *)

\* A timer that expires hands its work to the queue, or the queue drops it; the work of
\* the others stays where it is.
LEMMA ExpireKeeps ==
  ASSUME TypeOK, NEW e \in Timers, Expire(e), NEW t, UnderWay(t)
  PROVE  UnderWay(t)'
<1>1. EventOf(e) \in Types /\ WorkOf(EventOf(e)) = e /\ EventOf(e) # "ERR" /\ Put(EventOf(e))
  BY EventTypes DEF Expire
<1>2. /\ Holds(queue, t) => Holds(queue', t)
      /\ Holds(queue', e) \/ dropped'
      /\ dropped => dropped'
  BY <1>1, PutHolds
<1>3. starting' = starting /\ running' = running \ {e}
  BY DEF Expire
<1> QED
  BY <1>2, <1>3, UnderWayHolds, UnderWayHoldsNext

\* Another task's post leaves all work where it is.
LEMMA PostKeeps ==
  ASSUME TypeOK, NEW m \in Types, Put(m), UNCHANGED <<running, starting>>, NEW t, UnderWay(t)
  PROVE  UnderWay(t)'
BY PutHolds, UnderWayHolds, UnderWayHoldsNext

\* A handler loses nothing but the work of its own message.
LEMMA TakeKeeps ==
  ASSUME TypeOK, Waiting, Take, running \subseteq running', starting \in BOOLEAN,
         starting => starting', NEW t, UnderWay(t), WorkOf(Head(queue)) # t
  PROVE  UnderWay(t)'
BY TakeHolds, UnderWayHolds, UnderWayHoldsNext

LEMMA ChainOfKeeps ==
  ASSUME TypeOK, ChainOf, NEW t, UnderWay(t)
  PROVE  UnderWay(t)'
<1>1. /\ Waiting /\ Head(queue) \in Chain /\ Take /\ starting' = TRUE
      /\ running \subseteq running'
  BY ChainOfStarts
<1>2. WorkOf(Head(queue)) = "active"
  BY <1>1 DEF WorkOf, Chain
<1>3. CASE t = "active"
  BY <1>1, <1>3, UnderWayHoldsNext
<1>4. CASE t # "active"
  BY <1>1, <1>2, <1>4, TakeKeeps DEF TypeOK
<1> QED
  BY <1>3, <1>4

\* A step of the log or of the faults keeps all work but that of its own message, and
\* the log keeps its own once the device is active.
LEMMA OtherOfKeeps ==
  ASSUME TypeOK, OtherOf, NEW t, UnderWay(t), WorkOf(Head(queue)) # t
  PROVE  UnderWay(t)'
BY OtherOfLeaves, TakeKeeps DEF TypeOK

\* What the three invariants say of one step.
LEMMA StepGoesOn ==
  ASSUME TypeOK, [Next]_vars, ~Restart, NEW t \in Timers, UnderWay(t)
  PROVE  \/ UnderWay(t)'
         \/ OtherOf /\ WorkOf(Head(queue)) = t
<1>1. ASSUME NEW e \in Timers, Expire(e) PROVE UnderWay(t)'
  BY <1>1, ExpireKeeps
<1>2. CASE NetInfo
  BY <1>2, UnderWayHolds, UnderWayHoldsNext DEF NetInfo
<1>3. CASE NetNotice
  BY <1>3, PostKeeps DEF NetNotice, Types, Chain
<1>4. CASE Error
  BY <1>4, PostKeeps DEF Error, Types
<1>5. CASE ChainOf
  BY <1>5, ChainOfKeeps
<1>6. CASE OtherOf
  BY <1>6, OtherOfKeeps
<1>7. CASE StartTimer
  BY <1>7, UnderWayHolds, UnderWayHoldsNext DEF StartTimer
<1>8. CASE UNCHANGED vars
  BY <1>8, UnderWayHolds, UnderWayHoldsNext DEF vars
<1> QED
  BY <1>1, <1>2, <1>3, <1>4, <1>5, <1>6, <1>7, <1>8, HandleSplits DEF Next

GoesOn == ChainGoesOn /\ LogGoesOn /\ FaultIsDue

LEMMA RestartGoesOn == Restart => GoesOn'
BY DEF Restart, NoFaults, NoFault, GoesOn, ChainGoesOn, LogGoesOn, FaultIsDue

\* Only the notice of the network task brings the chain to life.
LEMMA ChainStepGoesOn ==
  ASSUME TypeOK, ChainGoesOn, [Next]_vars, ~Restart
  PROVE  ChainGoesOn'
<1>1. CASE NetNotice
  <2>1. Put("NET_HAL_INFO") /\ "NET_HAL_INFO" \in Types /\ WorkOf("NET_HAL_INFO") = "active"
    BY <1>1 DEF NetNotice, Types, Chain, WorkOf
  <2>2. Holds(queue', "active") \/ dropped'
    BY <2>1, PutHolds
  <2> QED
    BY <2>2, UnderWayHoldsNext DEF ChainGoesOn
<1>2. CASE NetInfo
  BY <1>2 DEF NetInfo, ChainGoesOn, TypeOK
<1>3. CASE ~NetNotice /\ ~NetInfo
  <2>1. net' = net
    BY <1>3, ChainOfStarts, OtherOfLeaves, HandleSplits DEF Next, Expire, Error, StartTimer, vars
  <2>2. OtherOf => WorkOf(Head(queue)) # "active"
    BY OtherOfLeaves DEF WorkOf, Chain
  <2>3. UnderWay("active") => UnderWay("active")'
    BY <2>2, StepGoesOn DEF Timers
  <2> QED
    BY <2>1, <2>3 DEF ChainGoesOn
<1> QED
  BY <1>1, <1>2, <1>3

\* A step that does not activate the device leaves is_active alone.
LEMMA ActiveStays ==
  ASSUME TypeOK, [Next]_vars, ~Restart
  PROVE  \/ is_active' = is_active
         \/ is_active' /\ {"log", "fault"} \subseteq running'
<1>1. ChainOf => is_active' = is_active \/ (is_active' /\ {"log", "fault"} \subseteq running')
  BY ChainOfStarts DEF TypeOK
<1>2. OtherOf => is_active' = is_active
  BY OtherOfLeaves
<1> QED
  BY <1>1, <1>2, HandleSplits DEF Next, Expire, NetInfo, NetNotice, Error, StartTimer, vars

LEMMA LogStepGoesOn ==
  ASSUME TypeOK, LogGoesOn, [Next]_vars, ~Restart
  PROVE  LogGoesOn'
<1>1. CASE is_active' /\ {"log", "fault"} \subseteq running'
  BY <1>1, UnderWayHoldsNext DEF LogGoesOn
<1>2. CASE is_active' = is_active
  <2> SUFFICES ASSUME is_active PROVE UnderWay("log")'
    BY <1>2 DEF LogGoesOn
  <2>1. CASE OtherOf /\ WorkOf(Head(queue)) = "log"
    <3>1. Head(queue) = "REPORT_LOG"
      BY <2>1, OtherOfLeaves DEF WorkOf, Chain
    <3> QED
      BY <2>1, <3>1, OtherOfLeaves, UnderWayHoldsNext
  <2> QED
    BY <2>1, StepGoesOn DEF LogGoesOn, Timers
<1> QED
  BY <1>1, <1>2, ActiveStays

\* A report of a fault starts its timer unless there is nothing to report.
LEMMA FaultStepGoesOn ==
  ASSUME TypeOK, FaultIsDue, [Next]_vars, ~Restart
  PROVE  FaultIsDue'
<1>1. CASE is_active' /\ {"log", "fault"} \subseteq running'
  BY <1>1, UnderWayHoldsNext DEF FaultIsDue
<1>2. CASE HandleError \/ ReportFault \/ ReportFaultFails
  <2>1. "fault" \in running'
    BY <1>2 DEF HandleError, ReportFault, ReportFaultFails, Start
  <2> QED
    BY <2>1, UnderWayHoldsNext DEF FaultIsDue
<1>3. CASE is_active' = is_active /\ ~(HandleError \/ ReportFault \/ ReportFaultFails)
  <2>1. faults' = faults
    BY <1>3, ChainOfStarts, HandleSplits
    DEF Next, Expire, NetInfo, NetNotice, Error, StartTimer, vars, OtherOf, HandleLog, HandleFaultIdle
  <2> SUFFICES ASSUME is_active, ~NoFault PROVE UnderWay("fault")'
    BY <1>3, <2>1 DEF FaultIsDue, NoFault
  <2>2. ~(OtherOf /\ WorkOf(Head(queue)) = "fault")
    <3>1. ASSUME HandleLog PROVE WorkOf(Head(queue)) # "fault"
      BY <3>1 DEF HandleLog, Handling, WorkOf, Chain
    <3>2. ~HandleFaultIdle
      BY DEF HandleFaultIdle
    <3> QED
      BY <1>3, <3>1, <3>2 DEF OtherOf
  <2> QED
    BY <2>2, StepGoesOn DEF FaultIsDue, Timers
<1> QED
  BY <1>1, <1>2, <1>3, ActiveStays

LEMMA AllGoOn ==
  Spec => [](TypeOK /\ GoesOn)
<1>1. Init => TypeOK /\ GoesOn
  BY InitTypes DEF Init, NoFaults, NoFault, GoesOn, ChainGoesOn, LogGoesOn, FaultIsDue
<1>2. TypeOK /\ GoesOn /\ [Next]_vars => (TypeOK /\ GoesOn)'
  BY StepTypes, RestartGoesOn, ChainStepGoesOn, LogStepGoesOn, FaultStepGoesOn DEF GoesOn
<1> QED
  BY <1>1, <1>2, PTL DEF Spec

\* Once the network has been told, a step of the activation chain is under way for ever.
THEOREM ChainNeverStops == Spec => []ChainGoesOn
<1>1. GoesOn => ChainGoesOn
  BY DEF GoesOn
<1> QED
  BY <1>1, AllGoOn, PTL

\* Once the device is active the log is under way for ever.
THEOREM LogNeverStops == Spec => []LogGoesOn
<1>1. GoesOn => LogGoesOn
  BY DEF GoesOn
<1> QED
  BY <1>1, AllGoOn, PTL

\* An active device that holds a fault has the report of it under way.
THEOREM FaultsAreNotForgotten == Spec => []FaultIsDue
<1>1. GoesOn => FaultIsDue
  BY DEF GoesOn
<1> QED
  BY <1>1, AllGoOn, PTL

-----------------------------------------------------------------------------
(* The ring of faults. *)

LEMMA DivisionRange ==
  ASSUME NEW n \in Nat
  PROVE  /\ n = FaultSize * (n \div FaultSize) + (n % FaultSize)
         /\ n \div FaultSize \in Int /\ n % FaultSize \in 0 .. FaultSize - 1
<1>1. FaultSize \in Nat \ {0}
  BY ReportAssumption DEF ReportAssumption
<1> QED
  BY <1>1

LEMMA Multiples ==
  ASSUME NEW d \in Int
  PROVE  (d >= 1 => FaultSize * d >= FaultSize) /\ (d <= 0 => FaultSize * d <= 0)
<1>1. FaultSize \in Nat \ {0}
  BY ReportAssumption DEF ReportAssumption
<1>2. ASSUME d >= 1 PROVE FaultSize * d >= FaultSize
  BY <1>1, <1>2
<1>3. ASSUME d <= 0 PROVE FaultSize * d <= 0
  BY <1>1, <1>3
<1> QED
  BY <1>2, <1>3

LEMMA Distributes ==
  ASSUME NEW f \in Int, NEW a \in Int, NEW b \in Int
  PROVE  f * b - f * a = f * (b - a)
OBVIOUS

\* Fewer than FaultSize steps apart, two faults lie in different slots.
LEMMA SlotsDiffer ==
  ASSUME NEW i \in Nat, NEW w \in Nat, i < w, w - i < FaultSize
  PROVE  i % FaultSize # w % FaultSize
<1> DEFINE a == i \div FaultSize
           b == w \div FaultSize
<1>1. /\ i = FaultSize * a + (i % FaultSize) /\ w = FaultSize * b + (w % FaultSize)
      /\ a \in Int /\ b \in Int /\ i % FaultSize \in Int /\ w % FaultSize \in Int
  BY DivisionRange
<1>2. FaultSize \in Nat \ {0}
  BY ReportAssumption DEF ReportAssumption
<1> HIDE DEF a, b
<1> SUFFICES ASSUME i % FaultSize = w % FaultSize PROVE FALSE
  OBVIOUS
<1>3. w - i = FaultSize * b - FaultSize * a
  <2>1. FaultSize * a \in Int /\ FaultSize * b \in Int
    BY <1>1, <1>2
  <2> QED
    BY <2>1, <1>1
<1>4. w - i = FaultSize * (b - a)
  BY <1>1, <1>2, <1>3, Distributes
<1>5. CASE b - a >= 1
  BY <1>1, <1>2, <1>4, <1>5, Multiples
<1>6. CASE b - a <= 0
  BY <1>1, <1>2, <1>4, <1>6, Multiples
<1> QED
  BY <1>1, <1>5, <1>6

\* A new fault leaves those that are held alone.
LEMMA ErrorInOrder ==
  ASSUME TypeOK, FaultsInOrder, HandleError
  PROVE  FaultsInOrder'
<1> DEFINE w == faults.write
           new == [faults EXCEPT !.slot[w % FaultSize] = w + 1, !.write = @ + 1]
<1>1. /\ faults.read \in Nat /\ w \in Nat /\ got \in Nat
      /\ faults \in [read : Nat, write : Nat, slot : [0 .. FaultSize - 1 -> Nat]]
      /\ FaultSize \in Nat \ {0} /\ got' = got
  BY ReportAssumption DEF TypeOK, ReportAssumption, HandleError
<1>2. CASE Full
  <2>1. faults' = faults
    BY <1>2 DEF HandleError
  <2> QED
    BY <2>1, <1>1 DEF FaultsInOrder
<1>3. CASE ~Full
  <2>1. faults' = new /\ w - faults.read < FaultSize
    BY <1>3, <1>1 DEF HandleError, Full
  <2>2. w % FaultSize \in 0 .. FaultSize - 1
    BY <1>1, DivisionRange
  <2>3. /\ new.read = faults.read /\ new.write = w + 1
        /\ new.slot = [faults.slot EXCEPT ![w % FaultSize] = w + 1]
    BY <1>1
  <2>4. ASSUME NEW i \in new.read .. new.write - 1
        PROVE  new.slot[i % FaultSize] = i + 1
    <3>0. i \in Nat /\ i % FaultSize \in 0 .. FaultSize - 1 /\ i <= w /\ i >= faults.read
      <4>1. i \in Nat /\ i <= w /\ i >= faults.read
        BY <2>3, <2>4, <1>1
      <4> QED
        BY <4>1, DivisionRange
    <3>1. CASE i = w
      BY <3>1, <2>2, <2>3, <1>1
    <3>2. CASE i # w
      <4>1. i < w /\ w - i < FaultSize /\ i \in faults.read .. w - 1
        BY <3>0, <3>2, <2>1, <1>1
      <4>2. i % FaultSize # w % FaultSize
        BY <3>0, <4>1, <1>1, SlotsDiffer
      <4>3. faults.slot[i % FaultSize] = i + 1
        BY <4>1 DEF FaultsInOrder
      <4> QED
        BY <3>0, <4>2, <4>3, <2>2, <2>3, <1>1
    <3> QED
      BY <3>1, <3>2
  <2>5. got \in {new.read, new.read + 1} /\ got <= new.write /\ new.write - new.read <= FaultSize
    BY <1>1, <2>1, <2>3 DEF FaultsInOrder
  <2> HIDE DEF new
  <2> QED
    BY <1>1, <2>1, <2>4, <2>5 DEF FaultsInOrder
<1> QED
  BY <1>2, <1>3

\* The oldest fault held is the one the server needs next.
LEMMA OldestIsNext ==
  ASSUME TypeOK, FaultsInOrder, ~NoFault
  PROVE  Oldest = faults.read + 1 /\ faults.read < faults.write
<1>1. faults.read \in Nat /\ faults.write \in Nat
  BY DEF TypeOK
<1>2. faults.read < faults.write /\ faults.read \in faults.read .. faults.write - 1
  BY <1>1 DEF NoFault
<1> QED
  BY <1>2 DEF FaultsInOrder, Oldest

LEMMA StepInOrder == TypeOK /\ FaultsInOrder /\ [Next]_vars => FaultsInOrder'
<1> SUFFICES ASSUME TypeOK, FaultsInOrder, [Next]_vars PROVE FaultsInOrder'
  OBVIOUS
<1>1. faults.read \in Nat /\ faults.write \in Nat /\ got \in Nat
  BY DEF TypeOK
<1>2. CASE HandleError
  BY <1>2, ErrorInOrder
<1>3. CASE ReportFault
  <2>1. /\ got' = faults.read + 1 /\ faults.read < faults.write
        /\ faults' = [faults EXCEPT !.read = @ + 1]
    BY <1>3, OldestIsNext DEF ReportFault
  <2>2. /\ faults'.read = faults.read + 1 /\ faults'.write = faults.write
        /\ faults'.slot = faults.slot
    BY <2>1 DEF TypeOK
  <2>3. \A i \in faults'.read .. faults'.write - 1 : i \in faults.read .. faults.write - 1
    BY <1>1, <2>2
  <2>4. faults.write - faults.read <= FaultSize /\ FaultSize \in Nat
    BY ReportAssumption DEF FaultsInOrder, ReportAssumption
  <2> QED
    BY <1>1, <2>1, <2>2, <2>3, <2>4 DEF FaultsInOrder
<1>4. CASE ReportFaultFails
  <2>1. /\ got' \in {got, faults.read + 1} /\ faults.read < faults.write
        /\ faults' = faults
    BY <1>4, OldestIsNext DEF ReportFaultFails
  <2> QED
    BY <1>1, <2>1 DEF FaultsInOrder
<1>5. CASE Restart
  <2>1. faults' = NoFaults /\ got' = 0
    BY <1>5 DEF Restart
  <2>2. NoFaults.read = 0 /\ NoFaults.write = 0 /\ FaultSize \in Nat
    BY ReportAssumption DEF NoFaults, ReportAssumption
  <2> QED
    BY <2>1, <2>2 DEF FaultsInOrder
<1>6. CASE UNCHANGED <<faults, got>>
  BY <1>6 DEF FaultsInOrder
<1>7. [Next]_vars => \/ HandleError \/ ReportFault \/ ReportFaultFails \/ Restart
                     \/ UNCHANGED <<faults, got>>
  BY ChainOfStarts, HandleSplits
  DEF Next, Expire, NetInfo, NetNotice, Error, StartTimer, vars, OtherOf, HandleLog, HandleFaultIdle
<1> QED
  BY <1>2, <1>3, <1>4, <1>5, <1>6, <1>7

\* The faults reach the server in the order of their numbers, without a gap, and no more
\* than the oldest one held twice, for a ring of any size, however long reports fail and
\* however many faults come.
THEOREM FaultsReachTheServerInOrder == Spec => []FaultsInOrder
<1>1. Init => FaultsInOrder
  BY ReportAssumption DEF Init, NoFaults, FaultsInOrder, ReportAssumption
<1>2. TypeOK /\ FaultsInOrder /\ [Next]_vars => FaultsInOrder'
  BY StepInOrder
<1> QED
  BY <1>1, <1>2, TypeCorrect, PTL DEF Spec

-----------------------------------------------------------------------------
(***************************************************************************)
(* One chain.  While the network is initialised once, the chain has one    *)
(* place (AtMostOne), the event that is due there fits what the device has *)
(* done (StageOK), and before the notice of the network there is nothing.  *)
(***************************************************************************)
In(q, e) == \E i \in 1 .. Len(q) : q[i] = e
Single(q) == \A i, j \in 1 .. Len(q) : q[i] \in Chain /\ q[j] \in Chain => i = j
Armed(s, r) == s \/ "active" \in r
AtMostOne(q, s, r) ==
  /\ Single(q)
  /\ Armed(s, r) => ~Holds(q, "active")
  /\ ~(s /\ "active" \in r)
Nowhere(q, s, r) == ~Armed(s, r) /\ ~Holds(q, "active")

Due(q, s, r, event, e) == (Armed(s, r) /\ e = event) \/ In(q, e)

\* Before the activation the device is on its way to it; an active device asks for a
\* firmware, and has downloaded nothing, until the server has answered.
StageOK(e, active, u) ==
  /\ ~active => e \in {"NET_HAL_INFO", "SYNC_UTC", "ACTIVE"}
  /\ active => e \in {"SYNC_UTC", "GET_UPGRADE", "DOWNLOAD_UPGRADE"}
  /\ active /\ ~u.answered => e = "GET_UPGRADE"
  /\ e = "GET_UPGRADE" => u.download_size = 0
Fits(active, u) ==
  u.download_size <= u.bin_size /\ (~active => u.download_size = 0)

OneInv ==
  net.inits <= 1 =>
    /\ AtMostOne(queue, starting, running)
    /\ net.inits = 0 \/ net.telling => Nowhere(queue, starting, running) /\ ~is_active
    /\ net.inits = 0 => ~net.telling
    /\ \A e \in Chain : Due(queue, starting, running, active_event, e) => StageOK(e, is_active, upgrade)
    /\ Fits(is_active, upgrade)

LEMMA ActiveWork ==
  ASSUME NEW m \in Types
  PROVE  WorkOf(m) = "active" <=> m \in Chain
BY DEF Types, WorkOf, Chain

\* The chain's messages of a queue.
LEMMA HoldsIn ==
  ASSUME NEW q \in Seq(Types)
  PROVE  Holds(q, "active") <=> \E e \in Chain : In(q, e)
<1>1. \A i \in 1 .. Len(q) : q[i] \in Types
  OBVIOUS
<1> QED
  BY <1>1, ActiveWork DEF Holds, In

LEMMA OneAppend ==
  ASSUME NEW q \in Seq(Types), NEW m \in Types, Single(q)
  PROVE  /\ m \notin Chain \/ ~Holds(q, "active") => Single(Append(q, m))
         /\ m \notin Chain /\ ~Holds(q, "active") => ~Holds(Append(q, m), "active")
         /\ \A e : In(Append(q, m), e) => In(q, e) \/ e = m
<1> DEFINE a == Append(q, m)
<1>1. /\ Len(a) = Len(q) + 1 /\ a[Len(q) + 1] = m /\ Len(q) \in Nat
      /\ \A i \in 1 .. Len(q) : a[i] = q[i]
  OBVIOUS
<1>2. \A i \in 1 .. Len(q) : q[i] \in Chain => Holds(q, "active")
  BY HoldsIn DEF In
<1>3. \A i \in 1 .. Len(a) : i \in 1 .. Len(q) \/ i = Len(q) + 1
  BY <1>1
<1> HIDE DEF a
<1>4. ASSUME m \notin Chain \/ ~Holds(q, "active")
      PROVE  Single(a)
  BY <1>1, <1>2, <1>3, <1>4 DEF Single
<1>5. \A e : In(a, e) => In(q, e) \/ e = m
  BY <1>1, <1>3 DEF In
<1>6. m \notin Chain /\ ~Holds(q, "active") => ~Holds(a, "active")
  BY AppendHolds, ActiveWork DEF a
<1> QED
  BY <1>4, <1>5, <1>6 DEF a

LEMMA OneTail ==
  ASSUME NEW q \in Seq(Types), q # <<>>, Single(q)
  PROVE  /\ Single(Tail(q))
         /\ Head(q) \in Chain => ~Holds(Tail(q), "active") /\ Holds(q, "active")
         /\ \A e : In(Tail(q), e) => In(q, e)
         /\ In(q, Head(q))
<1> DEFINE a == Tail(q)
<1>1. /\ Len(q) \in Nat \ {0} /\ Len(a) = Len(q) - 1 /\ Head(q) = q[1] /\ a \in Seq(Types)
      /\ \A i \in 1 .. Len(a) : a[i] = q[i + 1] /\ i + 1 \in 1 .. Len(q)
  OBVIOUS
<1> HIDE DEF a
<1>2. Single(a)
  <2> SUFFICES ASSUME NEW i \in 1 .. Len(a), NEW j \in 1 .. Len(a), a[i] \in Chain, a[j] \in Chain
               PROVE  i = j
    BY DEF Single
  <2>1. i + 1 = j + 1
    BY <1>1 DEF Single
  <2> QED
    BY <1>1, <2>1
<1>3. \A e : In(a, e) => In(q, e)
  BY <1>1 DEF In
<1>4. In(q, Head(q))
  BY <1>1 DEF In
<1>5. ASSUME Head(q) \in Chain, NEW e \in Chain, In(a, e)
      PROVE  FALSE
  <2>1. PICK i \in 1 .. Len(a) : a[i] = e
    BY <1>5 DEF In
  <2>2. q[i + 1] \in Chain /\ i + 1 \in 1 .. Len(q) /\ q[1] \in Chain /\ 1 \in 1 .. Len(q)
    BY <1>1, <1>5, <2>1
  <2>3. i + 1 = 1
    BY <2>2 DEF Single
  <2> QED
    BY <1>1, <2>3
<1>6. Head(q) \in Chain => ~Holds(a, "active") /\ Holds(q, "active")
  BY <1>1, <1>4, <1>5, HoldsIn
<1> QED
  BY <1>2, <1>3, <1>4, <1>6 DEF a

LEMMA PutIs ==
  ASSUME NEW m \in Types, Put(m)
  PROVE  queue' = Append(queue, m) \/ queue' = queue
BY DEF Put

-----------------------------------------------------------------------------
(* What a page adds to a download. *)
LEMMA ModuloSmall ==
  ASSUME NEW n \in 0 .. Width - 1
  PROVE  n % Width = n
<1>1. Width \in Nat \ {0}
  BY ReportAssumption DEF ReportAssumption
<1> QED
  BY <1>1

LEMMA PageFits ==
  ASSUME TypeOK, upgrade.download_size <= upgrade.bin_size
  PROVE  Downloaded <= upgrade.bin_size
<1> DEFINE left == upgrade.bin_size - upgrade.download_size
<1>1. /\ upgrade.bin_size \in 0 .. Width - 1 /\ upgrade.download_size \in 0 .. Width - 1
      /\ PageSize \in 1 .. Width - 1 /\ Width \in Nat
  BY ReportAssumption DEF TypeOK, ReportAssumption
<1>2. left \in 0 .. Width - 1 /\ left % Width = left
  BY <1>1, ModuloSmall
<1> HIDE DEF left
<1>3. Size = IF left > PageSize THEN PageSize ELSE left
  BY <1>2 DEF Size, left
<1>4. Size \in 0 .. Width - 1 /\ Size <= left
  BY <1>1, <1>2, <1>3
<1>5. /\ upgrade.download_size + Size \in 0 .. Width - 1
      /\ upgrade.download_size + Size <= upgrade.bin_size
  BY <1>1, <1>4 DEF left
<1> QED
  BY <1>5, ModuloSmall DEF Downloaded

\* A handler of the chain leaves the event that fits what it has done.
LEMMA ChainOfStage ==
  ASSUME TypeOK, ChainOf, StageOK(Head(queue), is_active, upgrade), Fits(is_active, upgrade)
  PROVE  /\ StageOK(active_event', is_active', upgrade') /\ Fits(is_active', upgrade')
         /\ is_active' # is_active => Head(queue) = "ACTIVE"
<1> USE DEF ChainStep, StartActive, Retry, Handling, Chain, StageOK, Fits
<1>1. /\ is_active \in BOOLEAN
      /\ upgrade \in [bin_size : Sizes \cup {0}, download_size : 0 .. Width - 1, answered : BOOLEAN]
      /\ Sizes \subseteq Nat
  BY ReportAssumption DEF TypeOK, ReportAssumption
<1>2. CASE HandleNetHalInfo
  BY <1>1, <1>2 DEF HandleNetHalInfo
<1>3. CASE SyncUtc
  BY <1>1, <1>3 DEF SyncUtc
<1>4. CASE Activate
  BY <1>1, <1>4 DEF Activate, FirstTimers
<1>5. CASE NoUpgrade
  BY <1>1, <1>5 DEF NoUpgrade
<1>6. CASE NewUpgrade
  BY <1>1, <1>6 DEF NewUpgrade
<1>7. CASE RequestFails
  BY <1>1, <1>7 DEF RequestFails
<1>8. CASE DownloadPage
  BY <1>1, <1>8, PageFits DEF DownloadPage
<1>9. CASE DownloadWithBadDigest
  BY <1>1, <1>9, PageFits DEF DownloadWithBadDigest
<1>10. CASE FlashFails
  BY <1>1, <1>10 DEF FlashFails
<1>11. CASE PartOfUpgrade
  BY <1>1, <1>11 DEF PartOfUpgrade
<1> QED
  BY <1>2, <1>3, <1>4, <1>5, <1>6, <1>7, <1>8, <1>9, <1>10, <1>11 DEF ChainOf

-----------------------------------------------------------------------------
(* The steps. *)
LEMMA ChainOfOne ==
  ASSUME TypeOK, OneInv, ChainOf
  PROVE  OneInv'
<1>1. /\ Waiting /\ Head(queue) \in Chain /\ Take /\ starting' = TRUE
      /\ "active" \in running' => "active" \in running
      /\ active_event' \in Chain /\ net' = net
  BY ChainOfStarts
<1>2. queue \in Seq(Types) /\ queue # <<>> /\ queue' = Tail(queue)
  BY <1>1 DEF TypeOK, Waiting, Take
<1> SUFFICES ASSUME net.inits <= 1
             PROVE  /\ AtMostOne(queue', starting', running')
                    /\ net'.inits # 0 /\ ~net'.telling
                    /\ \A e \in Chain : Due(queue', starting', running', active_event', e)
                                          => StageOK(e, is_active', upgrade')
                    /\ Fits(is_active', upgrade')
  BY <1>1 DEF OneInv
<1>3. /\ AtMostOne(queue, starting, running) /\ Single(queue)
      /\ \A e \in Chain : Due(queue, starting, running, active_event, e) => StageOK(e, is_active, upgrade)
      /\ Fits(is_active, upgrade)
  BY DEF OneInv, AtMostOne
<1>4. /\ Single(queue') /\ ~Holds(queue', "active") /\ Holds(queue, "active")
      /\ In(queue, Head(queue)) /\ queue' \in Seq(Types)
  BY <1>1, <1>2, <1>3, OneTail
<1>5. "active" \notin running /\ net.inits # 0 /\ ~net.telling
  BY <1>3, <1>4 DEF OneInv, AtMostOne, Nowhere, Armed
<1>6. StageOK(Head(queue), is_active, upgrade)
  BY <1>1, <1>3, <1>4 DEF Due
<1>7. /\ "active" \notin running'
      /\ StageOK(active_event', is_active', upgrade') /\ Fits(is_active', upgrade')
  BY <1>1, <1>3, <1>5, <1>6, ChainOfStage
<1>8. AtMostOne(queue', starting', running')
  BY <1>4, <1>7 DEF AtMostOne
<1>9. \A e \in Chain : Due(queue', starting', running', active_event', e) => e = active_event'
  BY <1>4, HoldsIn DEF Due
<1> QED
  BY <1>1, <1>5, <1>7, <1>8, <1>9

\* Whoever puts a message that is none of the chain's, or takes one, leaves the chain.
LEMMA OthersOne ==
  ASSUME TypeOK, OneInv,
         \/ \E m \in Types \ Chain : Put(m)
         \/ OtherOf
         \/ queue' = queue,
         "active" \in running' <=> "active" \in running,
         UNCHANGED <<starting, active_event, is_active, upgrade, net>>
  PROVE  OneInv'
<1> SUFFICES ASSUME net.inits <= 1 PROVE OneInv'
  BY DEF OneInv
<1>1. queue \in Seq(Types) /\ Single(queue)
  BY DEF TypeOK, OneInv, AtMostOne
<1>2. /\ Single(queue') /\ (~Holds(queue, "active") => ~Holds(queue', "active"))
      /\ \A e \in Chain : In(queue', e) => In(queue, e)
  <2>1. CASE \E m \in Types \ Chain : Put(m)
    <3>1. PICK m \in Types \ Chain : Put(m)
      BY <2>1
    <3> QED
      BY <1>1, <3>1, PutIs, OneAppend
  <2>2. CASE OtherOf
    <3>1. queue # <<>> /\ queue' = Tail(queue) /\ Tail(queue) \in Seq(Types)
      BY <1>1, <2>2, OtherOfLeaves DEF Waiting, Take
    <3>2. Single(queue') /\ \A e : In(queue', e) => In(queue, e)
      BY <1>1, <3>1, OneTail
    <3> QED
      BY <1>1, <3>1, <3>2, HoldsIn
  <2>3. CASE queue' = queue
    BY <1>1, <2>3
  <2> QED
    BY <2>1, <2>2, <2>3
<1>3. Armed(starting', running') <=> Armed(starting, running)
  BY DEF Armed
<1>4. AtMostOne(queue', starting', running')
  BY <1>2, <1>3 DEF OneInv, AtMostOne
<1>5. \A e \in Chain : Due(queue', starting', running', active_event', e)
                         => Due(queue, starting, running, active_event, e)
  BY <1>2, <1>3 DEF Due
<1>6. Nowhere(queue, starting, running) => Nowhere(queue', starting', running')
  BY <1>2, <1>3 DEF Nowhere
<1> QED
  BY <1>4, <1>5, <1>6 DEF OneInv

\* The timer hands the one event to the queue.
LEMMA ExpireOne ==
  ASSUME TypeOK, OneInv, Expire("active")
  PROVE  OneInv'
<1>1. /\ "active" \in running /\ running' = running \ {"active"} /\ Put(active_event)
      /\ active_event \in Chain /\ active_event \in Types
      /\ UNCHANGED <<starting, active_event, is_active, upgrade, net>>
  BY DEF Expire, EventOf, TypeOK, Types
<1> SUFFICES ASSUME net.inits <= 1 PROVE OneInv'
  BY <1>1 DEF OneInv
<1>2. /\ queue \in Seq(Types) /\ Single(queue) /\ ~starting /\ ~Holds(queue, "active")
      /\ net.inits # 0 /\ ~net.telling
  BY <1>1 DEF TypeOK, OneInv, AtMostOne, Armed, Nowhere
<1>3. ~Armed(starting', running')
  BY <1>1, <1>2 DEF Armed
<1>4. Single(queue') /\ \A e : In(queue', e) => In(queue, e) \/ e = active_event
  BY <1>1, <1>2, PutIs, OneAppend
<1>5. \A e \in Chain : Due(queue', starting', running', active_event', e)
                         => Due(queue, starting, running, active_event, e)
  BY <1>1, <1>3, <1>4 DEF Due, Armed
<1>6. AtMostOne(queue', starting', running')
  BY <1>3, <1>4 DEF AtMostOne, Armed
<1> QED
  BY <1>1, <1>2, <1>5, <1>6 DEF OneInv

\* The notice of the network puts the first event where there was none.
LEMMA NoticeOne ==
  ASSUME TypeOK, OneInv, NetNotice
  PROVE  OneInv'
<1>1. /\ net.telling /\ net' = [net EXCEPT !.telling = FALSE] /\ Put("NET_HAL_INFO")
      /\ "NET_HAL_INFO" \in Types /\ "NET_HAL_INFO" \in Chain
      /\ UNCHANGED <<starting, running, active_event, is_active, upgrade>>
  BY DEF NetNotice, Types, Chain
<1>2. net'.inits = net.inits /\ net'.telling = FALSE
  BY <1>1 DEF TypeOK
<1> SUFFICES ASSUME net.inits <= 1 PROVE OneInv'
  BY <1>2 DEF OneInv
<1>3. /\ queue \in Seq(Types) /\ Single(queue) /\ Nowhere(queue, starting, running)
      /\ net.inits # 0 /\ ~is_active
  BY <1>1 DEF TypeOK, OneInv, AtMostOne
<1>4. Single(queue') /\ \A e : In(queue', e) => In(queue, e) \/ e = "NET_HAL_INFO"
  BY <1>1, <1>3, PutIs, OneAppend DEF Nowhere
<1>5. \A e \in Chain : Due(queue', starting', running', active_event', e) => e = "NET_HAL_INFO"
  BY <1>1, <1>3, <1>4, HoldsIn DEF Due, Nowhere, Armed
<1>6. StageOK("NET_HAL_INFO", is_active, upgrade)
  BY <1>3 DEF StageOK
<1>7. AtMostOne(queue', starting', running')
  BY <1>1, <1>3, <1>4 DEF AtMostOne, Nowhere, Armed
<1> QED
  BY <1>1, <1>2, <1>3, <1>5, <1>6, <1>7 DEF OneInv

LEMMA NetInfoOne ==
  ASSUME TypeOK, OneInv, NetInfo
  PROVE  OneInv'
<1>1. /\ net'.inits = net.inits + 1 /\ net'.telling = TRUE /\ net.inits \in Nat
      /\ UNCHANGED <<queue, starting, running, active_event, is_active, upgrade>>
  BY ReportAssumption DEF NetInfo, TypeOK, ReportAssumption
<1>2. net'.inits <= 1 => net.inits = 0 /\ net'.inits = 1
  BY <1>1
<1> QED
  BY <1>1, <1>2 DEF OneInv

LEMMA StartTimerOne ==
  ASSUME TypeOK, OneInv, StartTimer
  PROVE  OneInv'
<1>1. /\ starting /\ starting' = FALSE /\ "active" \in running' /\ running' = running \cup {"active"}
      /\ UNCHANGED <<queue, active_event, is_active, upgrade, net>>
  BY DEF StartTimer
<1>2. Armed(starting', running') /\ Armed(starting, running)
  BY <1>1 DEF Armed
<1> QED
  BY <1>1, <1>2 DEF OneInv, AtMostOne, Nowhere, Due

\* At the start and after a restart nothing is due.
LEMMA NothingIsOne ==
  ASSUME NEW q, q = <<>>
  PROVE  AtMostOne(q, FALSE, {}) /\ Nowhere(q, FALSE, {}) /\ \A e, event : ~Due(q, FALSE, {}, event, e)
BY DEF AtMostOne, Single, Nowhere, Armed, Holds, In, Due

LEMMA InitOne == Init => OneInv
<1> SUFFICES ASSUME Init PROVE OneInv
  OBVIOUS
<1>1. /\ queue = <<>> /\ starting = FALSE /\ running = {} /\ is_active = FALSE
      /\ upgrade = [bin_size |-> 0, download_size |-> 0, answered |-> FALSE]
      /\ net = [inits |-> 0, telling |-> FALSE]
  BY DEF Init
<1>2. Fits(is_active, upgrade) /\ net.inits = 0 /\ ~net.telling
  BY <1>1 DEF Fits
<1> QED
  BY <1>1, <1>2, NothingIsOne DEF OneInv

LEMMA RestartOne == Restart => OneInv'
<1> SUFFICES ASSUME Restart PROVE OneInv'
  OBVIOUS
<1>1. /\ queue' = <<>> /\ starting' = FALSE /\ running' = {} /\ is_active' = FALSE
      /\ upgrade' = [bin_size |-> 0, download_size |-> 0, answered |-> FALSE]
      /\ net' = [inits |-> 0, telling |-> FALSE]
  BY DEF Restart
<1>2. Fits(is_active', upgrade') /\ net'.inits = 0 /\ ~net'.telling
  BY <1>1 DEF Fits
<1> QED
  BY <1>1, <1>2, NothingIsOne DEF OneInv

LEMMA StepOne == TypeOK /\ OneInv /\ [Next]_vars => OneInv'
<1> SUFFICES ASSUME TypeOK, OneInv, [Next]_vars PROVE OneInv'
  OBVIOUS
<1>1. ASSUME NEW t \in Timers, Expire(t)
      PROVE  OneInv'
  <2>1. CASE t = "active"
    BY <1>1, <2>1, ExpireOne
  <2>2. CASE t # "active"
    <3>1. EventOf(t) \in Types \ Chain
      BY <1>1, <2>2 DEF EventOf, Timers, Types, Chain
    <3>2. Put(EventOf(t)) /\ running' = running \ {t}
          /\ UNCHANGED <<starting, active_event, is_active, upgrade, net>>
      BY <1>1 DEF Expire
    <3>3. "active" \in running' <=> "active" \in running
      BY <2>2, <3>2
    <3> QED
      BY <3>1, <3>2, <3>3, OthersOne
  <2> QED
    BY <2>1, <2>2
<1>2. CASE Error
  <2>1. "ERR" \in Types \ Chain /\ Put("ERR")
    BY <1>2 DEF Error, Types, Chain
  <2>2. UNCHANGED <<running, starting, active_event, is_active, upgrade, net>>
    BY <1>2 DEF Error
  <2> QED
    BY <2>1, <2>2, OthersOne
<1>3. CASE OtherOf
  <2>1. "active" \in running' <=> "active" \in running
    BY <1>3 DEF OtherOf, HandleLog, HandleError, HandleFaultIdle, ReportFault, ReportFaultFails,
                Start, Idle
  <2> QED
    BY <1>3, <2>1, OtherOfLeaves, OthersOne
<1>4. CASE UNCHANGED vars
  BY <1>4 DEF vars, OneInv
<1> QED
  BY <1>1, <1>2, <1>3, <1>4, ChainOfOne, NoticeOne, NetInfoOne, StartTimerOne, RestartOne, HandleSplits
  DEF Next

LEMMA OneAlways == Spec => [](TypeOK /\ OneInv)
<1>1. Init => TypeOK /\ OneInv
  BY InitTypes, InitOne
<1>2. TypeOK /\ OneInv /\ [Next]_vars => (TypeOK /\ OneInv)'
  BY StepTypes, StepOne
<1> QED
  BY <1>1, <1>2, PTL DEF Spec

-----------------------------------------------------------------------------
(***************************************************************************)
(* The places of the chain, counted: a handler trades a message for the    *)
(* start of the timer, the start for the running timer, the timer for a    *)
(* message.  Only a notice of the network adds one.                        *)
(***************************************************************************)
ChainIn(q) == {i \in 1 .. Len(q) : q[i] \in Chain}
Bit(b) == IF b THEN 1 ELSE 0
Places(q, s, r) == Cardinality(ChainIn(q)) + Bit(s) + Bit("active" \in r)

\* The handlers' messages counted by Queued are those of the chain.
LEMMA QueuedIsChainIn ==
  ASSUME queue \in Seq(Types)
  PROVE  Queued("active") = ChainIn(queue)
<1>1. \A i \in 1 .. Len(queue) : queue[i] \in Types
  OBVIOUS
<1> QED
  BY <1>1, ActiveWork DEF Queued, ChainIn

LEMMA ChainInFinite ==
  ASSUME NEW q \in Seq(Types)
  PROVE  IsFiniteSet(ChainIn(q)) /\ Cardinality(ChainIn(q)) \in Nat
<1>1. IsFiniteSet(1 .. Len(q)) /\ ChainIn(q) \in SUBSET (1 .. Len(q))
  BY FS_Interval DEF ChainIn
<1>2. IsFiniteSet(ChainIn(q))
  BY <1>1, FS_Subset
<1> QED
  BY <1>2, FS_CardinalityType

LEMMA AppendCounts ==
  ASSUME NEW q \in Seq(Types), NEW m \in Types
  PROVE  Cardinality(ChainIn(Append(q, m))) = Cardinality(ChainIn(q)) + Bit(m \in Chain)
<1> DEFINE n == Len(q)
           a == Append(q, m)
<1>1. /\ n \in Nat /\ Len(a) = n + 1 /\ a[n + 1] = m
      /\ \A i \in 1 .. n : a[i] = q[i]
  OBVIOUS
<1>2. 1 .. n + 1 = (1 .. n) \cup {n + 1} /\ n + 1 \notin 1 .. n
  BY <1>1
<1> HIDE DEF n, a
<1>3. ChainIn(a) = IF m \in Chain THEN ChainIn(q) \cup {n + 1} ELSE ChainIn(q)
  BY <1>1, <1>2 DEF ChainIn, n
<1>4. n + 1 \notin ChainIn(q)
  BY <1>2 DEF ChainIn, n
<1>5. Cardinality(ChainIn(q)) \in Nat /\ IsFiniteSet(ChainIn(q))
  BY ChainInFinite
<1>6. Cardinality(ChainIn(q) \cup {n + 1}) = Cardinality(ChainIn(q)) + 1
  BY <1>4, <1>5, FS_AddElement
<1>7. Cardinality(ChainIn(a)) = Cardinality(ChainIn(q)) + Bit(m \in Chain)
  BY <1>3, <1>5, <1>6 DEF Bit
<1> QED
  BY <1>7 DEF a

\* The tail has the chain's messages but the head, one place further on.
LEMMA TailCounts ==
  ASSUME NEW q \in Seq(Types), q # <<>>
  PROVE  Cardinality(ChainIn(Tail(q))) + Bit(Head(q) \in Chain) <= Cardinality(ChainIn(q))
<1> DEFINE a == Tail(q)
           S == ChainIn(a)
           T == ChainIn(q) \ {1}
           f == [i \in S |-> i + 1]
<1>1. /\ Len(q) \in Nat \ {0} /\ Len(a) = Len(q) - 1 /\ Head(q) = q[1]
      /\ \A i \in 1 .. Len(a) : a[i] = q[i + 1] /\ i + 1 \in 1 .. Len(q) /\ i + 1 # 1
  OBVIOUS
<1> HIDE DEF a
<1>2. S \subseteq Int /\ \A i \in S : i + 1 \in T
  BY <1>1 DEF ChainIn
<1>3. f \in Injection(S, T)
  BY <1>2 DEF Injection, IsInjective
<1>4. /\ IsFiniteSet(ChainIn(q)) /\ Cardinality(ChainIn(q)) \in Nat
      /\ Cardinality(T) = IF 1 \in ChainIn(q) THEN Cardinality(ChainIn(q)) - 1 ELSE Cardinality(ChainIn(q))
      /\ IsFiniteSet(T)
  BY ChainInFinite, FS_RemoveElement
<1>5. IsFiniteSet(S) /\ Cardinality(S) <= Cardinality(T)
  BY <1>3, <1>4, FS_Injection
<1>6. Cardinality(S) \in Nat
  BY <1>5, FS_CardinalityType
<1>7. 1 \in ChainIn(q) <=> Head(q) \in Chain
  BY <1>1 DEF ChainIn
<1>8. Cardinality(S) + Bit(Head(q) \in Chain) <= Cardinality(ChainIn(q))
  BY <1>4, <1>5, <1>6, <1>7 DEF Bit
<1> QED
  BY <1>8 DEF a

PlacesInv == Places(queue, starting, running) <= Notices

\* A put adds the message to the places or drops it.
LEMMA PutCounts ==
  ASSUME TypeOK, NEW m \in Types, Put(m)
  PROVE  /\ Cardinality(ChainIn(queue')) \in Nat
         /\ Cardinality(ChainIn(queue')) <= Cardinality(ChainIn(queue)) + Bit(m \in Chain)
<1>1. queue \in Seq(Types) /\ queue' \in Seq(Types)
  BY PutHolds DEF TypeOK
<1>2. Cardinality(ChainIn(queue)) \in Nat /\ Cardinality(ChainIn(queue')) \in Nat
  BY <1>1, ChainInFinite
<1>3. Bit(m \in Chain) \in {0, 1}
  BY DEF Bit
<1>4. CASE queue' = Append(queue, m)
  BY <1>1, <1>2, <1>4, AppendCounts
<1>5. CASE queue' = queue
  BY <1>2, <1>3, <1>5
<1> QED
  BY <1>4, <1>5, PutIs

LEMMA StepPlaces == TypeOK /\ PlacesInv /\ [Next]_vars => PlacesInv'
<1> SUFFICES ASSUME TypeOK, PlacesInv, [Next]_vars PROVE PlacesInv'
  OBVIOUS
<1> DEFINE c == Cardinality(ChainIn(queue))
           s == Bit(starting)
           r == Bit("active" \in running)
           d == Cardinality(ChainIn(queue'))
           t == Bit(starting')
           w == Bit("active" \in running')
<1>1. /\ queue \in Seq(Types) /\ c \in Nat /\ {s, r, t, w} \subseteq {0, 1}
      /\ net.inits \in Nat /\ net.telling \in BOOLEAN /\ Notices \in Int
      /\ (starting => s = 1) /\ (~starting => s = 0)
      /\ ("active" \in running => r = 1) /\ ("active" \notin running => r = 0)
  BY ChainInFinite, ReportAssumption DEF TypeOK, ReportAssumption, Bit, Notices
<1>2. c + s + r <= Notices
  BY DEF PlacesInv, Places
<1>3. (~starting' => t = 0) /\ ("active" \notin running' => w = 0)
  BY DEF Bit
<1>4. /\ starting' = starting => t = s
      /\ ("active" \in running' => "active" \in running) => w <= r
  BY DEF Bit
<1>5. PlacesInv' <=> d + t + w <= Notices'
  BY DEF PlacesInv, Places
<1>6. net' = net => Notices' = Notices
  BY DEF Notices
<1> HIDE DEF c, s, r, d, t, w
<1>7. ASSUME NEW e \in Timers, Expire(e)
      PROVE  PlacesInv'
  <2>1. /\ EventOf(e) \in Types /\ (EventOf(e) \in Chain <=> e = "active")
        /\ e \in running /\ running' = running \ {e} /\ Put(EventOf(e))
        /\ starting' = starting /\ net' = net
    BY <1>7, EventTypes, ActiveWork DEF Expire
  <2>2. d \in Nat /\ d <= c + Bit(EventOf(e) \in Chain)
    BY <2>1, PutCounts DEF c, d
  <2>3. CASE e = "active"
    <3>1. d <= c + 1 /\ r = 1 /\ w = 0
      BY <1>1, <1>3, <2>1, <2>2, <2>3 DEF Bit
    <3> QED
      BY <1>1, <1>2, <1>4, <1>5, <1>6, <2>1, <2>2, <3>1
  <2>4. CASE e # "active"
    <3>1. d <= c
      BY <1>1, <2>1, <2>2, <2>4 DEF Bit
    <3> QED
      BY <1>1, <1>2, <1>4, <1>5, <1>6, <2>1, <2>2, <3>1
  <2> QED
    BY <2>3, <2>4
<1>8. CASE NetInfo
  <2>1. Notices' = Notices /\ UNCHANGED <<queue, starting, running>>
    BY <1>1, <1>8 DEF NetInfo, Notices, TypeOK
  <2> QED
    BY <1>2, <2>1 DEF PlacesInv, Places, c, s, r
<1>9. CASE NetNotice
  <2>1. /\ Put("NET_HAL_INFO") /\ "NET_HAL_INFO" \in Types
        /\ UNCHANGED <<starting, running>>
        /\ Notices' = Notices + 1
    BY <1>1, <1>9 DEF NetNotice, Notices, Types, Chain, TypeOK
  <2>2. d \in Nat /\ d <= c + 1
    BY <1>1, <2>1, PutCounts DEF c, d, Bit, Chain
  <2> QED
    BY <1>1, <1>2, <1>4, <1>5, <2>1, <2>2
<1>10. CASE Error
  <2>1. Put("ERR") /\ "ERR" \in Types \ Chain /\ UNCHANGED <<starting, running, net>>
    BY <1>10 DEF Error, Types, Chain
  <2>2. d \in Nat /\ d <= c
    BY <1>1, <2>1, PutCounts DEF c, d, Bit
  <2> QED
    BY <1>1, <1>2, <1>4, <1>5, <1>6, <2>1, <2>2
<1>11. CASE ChainOf
  <2>1. /\ Waiting /\ Head(queue) \in Chain /\ Take /\ net' = net
        /\ "active" \in running' => "active" \in running
    BY <1>11, ChainOfStarts
  <2>2. queue # <<>> /\ queue' = Tail(queue) /\ queue' \in Seq(Types) /\ s = 0
    BY <1>1, <2>1 DEF Waiting, Take
  <2>3. d \in Nat /\ d + 1 <= c
    BY <1>1, <2>1, <2>2, TailCounts, ChainInFinite DEF c, d, Bit
  <2> QED
    BY <1>1, <1>2, <1>4, <1>5, <1>6, <2>1, <2>2, <2>3
<1>12. CASE OtherOf
  <2>1. /\ Waiting /\ Take /\ UNCHANGED <<starting, net>>
    BY <1>12, OtherOfLeaves
  <2>2. "active" \in running' => "active" \in running
    BY <1>12 DEF OtherOf, HandleLog, HandleError, HandleFaultIdle, ReportFault, ReportFaultFails,
                 Start, Idle
  <2>3. queue # <<>> /\ queue' = Tail(queue) /\ queue' \in Seq(Types)
    BY <1>1, <2>1 DEF Waiting, Take
  <2>4. d \in Nat /\ d <= c
    <3>1. d + Bit(Head(queue) \in Chain) <= c
      BY <1>1, <2>3, TailCounts DEF c, d
    <3>2. d \in Nat /\ Bit(Head(queue) \in Chain) \in {0, 1}
      BY <2>3, ChainInFinite DEF d, Bit
    <3> QED
      BY <1>1, <3>1, <3>2
  <2> QED
    BY <1>1, <1>2, <1>4, <1>5, <1>6, <2>1, <2>2, <2>4
<1>13. CASE StartTimer
  <2>1. starting /\ ~starting' /\ UNCHANGED <<queue, net>>
    BY <1>13 DEF StartTimer
  <2>2. d = c /\ s = 1 /\ t = 0 /\ w <= 1
    BY <1>1, <1>3, <2>1 DEF c, d
  <2> QED
    BY <1>1, <1>2, <1>5, <1>6, <2>1, <2>2
<1>14. CASE Restart
  <2>1. /\ queue' = <<>> /\ ~starting' /\ "active" \notin running'
        /\ Notices' = 0
    BY <1>14 DEF Restart, Notices
  <2>2. d = 0
    BY <2>1, FS_EmptySet DEF d, ChainIn
  <2> QED
    BY <1>3, <1>5, <2>1, <2>2
<1>15. CASE UNCHANGED vars
  BY <1>2, <1>15 DEF vars, PlacesInv, Places, Notices, c, s, r
<1> QED
  BY <1>7, <1>8, <1>9, <1>10, <1>11, <1>12, <1>13, <1>14, <1>15, HandleSplits DEF Next

\* The chain never splits: its messages, the timer about to be started and the running
\* timer are never more than the notices of the network, whatever fails, however often
\* the network is initialised and wherever the timer expires.
THEOREM ChainIsOne == Spec => []OneChain
<1>1. Init => PlacesInv
  <2> SUFFICES ASSUME Init PROVE PlacesInv
    OBVIOUS
  <2>1. ChainIn(queue) = {} /\ Notices = 0 /\ ~starting /\ "active" \notin running
    BY DEF Init, ChainIn, Notices
  <2> QED
    BY <2>1, FS_EmptySet DEF PlacesInv, Places, Bit
<1>2. TypeOK /\ PlacesInv => OneChain
  BY QueuedIsChainIn DEF TypeOK, PlacesInv, Places, Bit, OneChain
<1> QED
  BY <1>1, <1>2, StepPlaces, TypeCorrect, PTL DEF Spec

-----------------------------------------------------------------------------
\* An active device has the question for a firmware under way until the server has
\* answered: the chain is one, it never stops, and its event is the question.
THEOREM FirmwareIsAskedFor == Spec => []UpgradeIsAsked
<1>1. TypeOK /\ OneInv /\ GoesOn => UpgradeIsAsked
  <2> SUFFICES ASSUME TypeOK, OneInv, GoesOn, is_active, ~upgrade.answered, net.inits <= 1, ~dropped
               PROVE  \/ \E i \in 1 .. Len(queue) : queue[i] = "GET_UPGRADE"
                      \/ active_event = "GET_UPGRADE" /\ (starting \/ "active" \in running)
    BY DEF UpgradeIsAsked
  <2>1. net.inits > 0 /\ ~net.telling
    BY DEF OneInv, TypeOK
  <2>2. Holds(queue, "active") \/ Armed(starting, running)
    BY <2>1, UnderWayHolds DEF GoesOn, ChainGoesOn, Armed
  <2>3. PICK e \in Chain : Due(queue, starting, running, active_event, e)
    BY <2>2, HoldsIn DEF Due, TypeOK
  <2>4. e = "GET_UPGRADE"
    BY <2>3 DEF OneInv, StageOK
  <2> QED
    BY <2>3, <2>4 DEF Due, In, Armed
<1> QED
  BY <1>1, OneAlways, AllGoOn, PTL

\* A download never runs past the end of the firmware, for any sizes of firmware and
\* page below the width of the counters, although a firmware that failed is not
\* downloaded from the start: it is not downloaded again.
THEOREM DownloadsFit == Spec => []DownloadFits
<1>1. OneInv => DownloadFits
  BY DEF OneInv, DownloadFits, Fits
<1> QED
  BY <1>1, OneAlways, PTL
=============================================================================
