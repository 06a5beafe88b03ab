------------------------------- MODULE Report -------------------------------
(***************************************************************************)
(* The report task (Src/tasks/report_task.c): activation of the device,    *)
(* the search for a new firmware and its download, the periodic log and    *)
(* the queue of faults.                                                    *)
(*                                                                         *)
(* One timer and one variable active_event serve the whole chain           *)
(*   NET_HAL_INFO - SYNC_UTC - ACTIVE - GET_UPGRADE - DOWNLOAD_UPGRADE,    *)
(* whose every step starts the timer of the next or of its own retry.  The *)
(* callback posts the event the variable holds when the timer expires.     *)
(* Delays are not measured: a running timer may expire at any moment.  A   *)
(* message is taken and handled in one step, and the timer of the chain is *)
(* started in another: between the assignment of active_event and the      *)
(* start of the timer the timer daemon, of the same priority, may run.     *)
(* What happens during a request happens before or after that step.  A put *)
(* to a full queue is dropped.  Readings and locations, which the handler  *)
(* only stores, are left out: they take room in the queue, which is why a  *)
(* small QueueSize is the interesting one.                                 *)
(*                                                                         *)
(* The network task appears by the two puts of its initialisation, the     *)
(* server by the outcomes of requests.  What a firmware consists of is the *)
(* business of module FirmwareUpdate, what a request does of module Http.  *)
(***************************************************************************)
EXTENDS Integers, Sequences, FiniteSets

CONSTANTS
  QueueSize,   \* length of report_task_msg_q_id
  HalSize,     \* length of report_task_net_hal_info_msg_q_id
  FaultSize,   \* REPORT_TASK_FAULT_QUEUE_SIZE
  MaxFaults,   \* bound: errors and clearances of sensors taken in a session
  MaxInits,    \* bound: initialisations of the network in a session
  Sizes,       \* sizes of firmwares the server may offer
  PageSize,    \* BOOTLOADER_FLASH_PAGE_SIZE
  Width        \* 2^32, the width of download_size

ASSUME ReportAssumption ==
  /\ {QueueSize, HalSize, FaultSize, PageSize} \subseteq Nat \ {0}
  /\ {MaxFaults, MaxInits} \subseteq Nat
  /\ Width \in Nat /\ Sizes \cup {PageSize} \subseteq 1 .. Width - 1

VARIABLES
  queue,       \* report_task_msg_q_id
  starting,    \* the handler is about to start the timer of the chain
  running,     \* the timers that run
  active_event,
  hal,         \* number of messages in report_task_net_hal_info_msg_q_id
  is_active,   \* report_active.is_active
  faults,      \* fault_queue
  upgrade,     \* bin_size and download_size of report_upgrade, and whether the
               \* server has answered the question for a new firmware
  net,         \* the network task: initialisations, and whether one is being told
  got,         \* history: the number of the last fault the server received
  dropped      \* history: a full queue has dropped a timeout, a notice or an information

vars == <<queue, starting, running, active_event, hal, is_active,
          faults, upgrade, net, got, dropped>>

Chain == {"NET_HAL_INFO", "SYNC_UTC", "ACTIVE", "GET_UPGRADE", "DOWNLOAD_UPGRADE"}
Types == Chain \cup {"REPORT_LOG", "REPORT_FAULT", "ERR"}
Timers == {"active", "log", "fault"}

(***************************************************************************)
(* A message belongs to a timer's work.                                    *)
(***************************************************************************)
WorkOf(m) == CASE m \in Chain -> "active" [] m = "REPORT_LOG" -> "log"
               [] m = "REPORT_FAULT" -> "fault" [] m = "ERR" -> "none"

Put(m) ==
  IF Len(queue) < QueueSize
    THEN queue' = Append(queue, m) /\ dropped' = dropped
    ELSE queue' = queue /\ dropped' = (dropped \/ m # "ERR")

NoFaults == [read |-> 0, write |-> 0, slot |-> [i \in 0 .. FaultSize - 1 |-> 0]]

Init ==
  /\ queue = <<>> /\ starting = FALSE /\ running = {}
  /\ active_event = "NET_HAL_INFO" /\ hal = 0 /\ is_active = FALSE
  /\ faults = NoFaults
  /\ upgrade = [bin_size |-> 0, download_size |-> 0, answered |-> FALSE]
  /\ net = [inits |-> 0, telling |-> FALSE] /\ got = 0 /\ dropped = FALSE

-----------------------------------------------------------------------------
(***************************************************************************)
(* The timers.                                                             *)
(***************************************************************************)
EventOf(t) == CASE t = "active" -> active_event [] t = "log" -> "REPORT_LOG"
                [] t = "fault" -> "REPORT_FAULT"

ExpirePeriodic(t) ==  \* mutant: the timers are periodic
  /\ t \in running /\ running' = running
  /\ Put(EventOf(t))
  /\ UNCHANGED <<starting, active_event, hal, is_active, faults, upgrade, net, got>>
Expire(t) ==
  /\ t \in running
  /\ running' = running \ {t}
  /\ Put(EventOf(t))
  /\ UNCHANGED <<starting, active_event, hal, is_active, faults, upgrade, net, got>>

(***************************************************************************)
(* The other tasks.  The network task posts its information and then the   *)
(* notice of it; the alarm task posts errors and clearances of sensors.    *)
(***************************************************************************)
NetInfo ==
  /\ net.inits < MaxInits /\ ~net.telling
  /\ net' = [inits |-> net.inits + 1, telling |-> TRUE]
  /\ IF hal < HalSize THEN hal' = hal + 1 /\ dropped' = dropped
                      ELSE hal' = hal /\ dropped' = TRUE
  /\ UNCHANGED <<queue, starting, running, active_event, is_active,
                 faults, upgrade, got>>

NetNotice ==
  /\ net.telling
  /\ net' = [net EXCEPT !.telling = FALSE]
  /\ Put("NET_HAL_INFO")
  /\ UNCHANGED <<starting, running, active_event, hal, is_active,
                 faults, upgrade, got>>

ErrorsQueued == Cardinality({i \in 1 .. Len(queue) : queue[i] = "ERR"})

Error ==
  /\ faults.write + ErrorsQueued < MaxFaults
  /\ Put("ERR")
  /\ UNCHANGED <<starting, running, active_event, hal, is_active,
                 faults, upgrade, net, got>>

-----------------------------------------------------------------------------
(***************************************************************************)
(* The task takes a message and handles it.                                *)
(* osTimerStart makes a running timer start anew.                          *)
(***************************************************************************)
Waiting == ~starting /\ queue # <<>>
Handling(m) == Waiting /\ Head(queue) = m
Take == queue' = Tail(queue) /\ dropped' = dropped

StartTimer ==
  /\ starting /\ starting' = FALSE
  /\ running' = running \cup {"active"}
  /\ UNCHANGED <<queue, active_event, hal, is_active, faults, upgrade,
                 net, got, dropped>>

StartActive(event) == starting' = TRUE /\ active_event' = event
Retry == StartActive(Head(queue))

\* A step of the chain takes its message and leaves the log and the faults alone.
ChainStep == Take /\ UNCHANGED <<faults, net, got>>

HandleNetHalInfo ==
  /\ Handling("NET_HAL_INFO")
  /\ IF hal > 0 THEN hal' = hal - 1 /\ StartActive("SYNC_UTC")
                ELSE hal' = hal /\ Retry
  /\ UNCHANGED <<running, is_active, upgrade>> /\ ChainStep

SyncUtcOnly ==  \* mutant: the test of is_active is the wrong way round
  /\ Handling("SYNC_UTC")
  /\ StartActive(IF is_active THEN "ACTIVE" ELSE "SYNC_UTC")
  /\ UNCHANGED <<running, hal, is_active, upgrade>> /\ ChainStep
SyncUtc ==
  /\ Handling("SYNC_UTC")
  /\ StartActive(IF is_active THEN "SYNC_UTC" ELSE "ACTIVE")
  /\ UNCHANGED <<running, hal, is_active, upgrade>> /\ ChainStep

FirstTimersNoFault == {"log"}  \* mutant: old faults wait for a new one
FirstTimers == {"log", "fault"}

Activate ==
  /\ Handling("ACTIVE")
  /\ is_active' = TRUE
  /\ StartActive("GET_UPGRADE") /\ running' = running \cup FirstTimers
  /\ UNCHANGED <<hal, upgrade>> /\ ChainStep

\* The server knows no newer firmware: the timer serves the time from now on.
NoUpgradeStops ==  \* mutant: the timer is not started for the time
  /\ Handling("GET_UPGRADE")
  /\ upgrade' = [upgrade EXCEPT !.answered = TRUE]
  /\ UNCHANGED <<starting, active_event, running, hal, is_active>> /\ ChainStep
NoUpgrade ==
  /\ Handling("GET_UPGRADE")
  /\ upgrade' = [upgrade EXCEPT !.answered = TRUE]
  /\ StartActive("SYNC_UTC")
  /\ UNCHANGED <<running, hal, is_active>> /\ ChainStep

NewUpgrade ==
  /\ Handling("GET_UPGRADE")
  /\ \E s \in Sizes : upgrade' = [upgrade EXCEPT !.bin_size = s, !.answered = TRUE]
  /\ StartActive("DOWNLOAD_UPGRADE")
  /\ UNCHANGED <<running, hal, is_active>> /\ ChainStep

\* The request failed, or its answer could not be parsed.
RetryTimesOnly ==  \* mutant: the question for a firmware is asked once
  /\ Waiting /\ Head(queue) \in Chain \ {"NET_HAL_INFO"}
  /\ IF Head(queue) = "GET_UPGRADE" THEN StartActive("SYNC_UTC") ELSE Retry
  /\ UNCHANGED <<running, hal, is_active, upgrade>> /\ ChainStep
RequestFails ==
  /\ Waiting /\ Head(queue) \in Chain \ {"NET_HAL_INFO"}
  /\ Retry
  /\ UNCHANGED <<running, hal, is_active, upgrade>> /\ ChainStep

\* The answer about a new firmware ends after its size.
PartOfUpgrade ==
  /\ Handling("GET_UPGRADE")
  /\ \E s \in Sizes : upgrade' = [upgrade EXCEPT !.bin_size = s]
  /\ Retry
  /\ UNCHANGED <<running, hal, is_active>> /\ ChainStep

WholePage == PageSize  \* mutant: the last page is not cut to what is left
Size ==
  LET left == (upgrade.bin_size - upgrade.download_size) % Width
  IN  IF left > PageSize THEN PageSize ELSE left

Downloaded == (upgrade.download_size + Size) % Width

DownloadPage ==
  /\ Handling("DOWNLOAD_UPGRADE")
  /\ Downloaded # upgrade.bin_size
  /\ upgrade' = [upgrade EXCEPT !.download_size = Downloaded]
  /\ StartActive("DOWNLOAD_UPGRADE")
  /\ UNCHANGED <<running, hal, is_active>> /\ ChainStep

DownloadWithBadDigest ==
  /\ Handling("DOWNLOAD_UPGRADE")
  /\ Downloaded = upgrade.bin_size
  /\ upgrade' = [upgrade EXCEPT !.download_size = Downloaded]
  /\ StartActive("SYNC_UTC")
  /\ UNCHANGED <<running, hal, is_active>> /\ ChainStep

FlashFails ==
  /\ Handling("DOWNLOAD_UPGRADE")
  /\ StartActive("SYNC_UTC")
  /\ UNCHANGED <<running, hal, is_active, upgrade>> /\ ChainStep

\* The download is complete: the boot flag is set and the device restarts.
Restart ==
  /\ Handling("DOWNLOAD_UPGRADE")
  /\ Downloaded = upgrade.bin_size
  /\ queue' = <<>> /\ starting' = FALSE /\ running' = {}
  /\ active_event' = "NET_HAL_INFO" /\ hal' = 0 /\ is_active' = FALSE
  /\ faults' = NoFaults
  /\ upgrade' = [bin_size |-> 0, download_size |-> 0, answered |-> FALSE]
  /\ net' = [inits |-> 0, telling |-> FALSE] /\ got' = 0 /\ dropped' = FALSE

-----------------------------------------------------------------------------
Start(t) == running' = running \cup {t}
Idle == UNCHANGED running

\* A step of the log or of the faults takes its message and leaves the chain alone.
OtherStep ==
  Take /\ UNCHANGED <<starting, active_event, hal, is_active, upgrade, net>>

HandleLog ==
  /\ Handling("REPORT_LOG")
  /\ IF is_active THEN Start("log") ELSE Idle
  /\ UNCHANGED <<faults, got>> /\ OtherStep

(***************************************************************************)
(* Faults.  A fault is its number; code, time and status are left out.     *)
(***************************************************************************)
Full == faults.write - faults.read >= FaultSize

HandleError ==
  /\ Handling("ERR")
  /\ faults' = IF Full THEN faults
               ELSE [faults EXCEPT !.slot[faults.write % FaultSize] = faults.write + 1, !.write = @ + 1]
  /\ Start("fault")
  /\ UNCHANGED got /\ OtherStep

NoFault == faults.read >= faults.write
Oldest == faults.slot[faults.read % FaultSize]

HandleFaultIdle ==
  /\ Handling("REPORT_FAULT") /\ (~is_active \/ NoFault)
  /\ Idle
  /\ UNCHANGED <<faults, got>> /\ OtherStep

ReportFault ==
  /\ Handling("REPORT_FAULT") /\ is_active /\ ~NoFault
  /\ got' = Oldest
  /\ faults' = [faults EXCEPT !.read = @ + 1]
  /\ Start("fault")
  /\ OtherStep

\* The server may have received a fault whose report counts as failed.
ReportFaultDeletes ==  \* mutant: the fault is deleted whether or not it was taken
  /\ Handling("REPORT_FAULT") /\ is_active /\ ~NoFault
  /\ got' \in {got, Oldest}
  /\ faults' = [faults EXCEPT !.read = @ + 1]
  /\ Start("fault")
  /\ OtherStep
ReportFaultStops ==  \* mutant: a failed report is not tried again
  /\ Handling("REPORT_FAULT") /\ is_active /\ ~NoFault
  /\ got' \in {got, Oldest}
  /\ Idle
  /\ UNCHANGED faults /\ OtherStep
ReportFaultFails ==
  /\ Handling("REPORT_FAULT") /\ is_active /\ ~NoFault
  /\ got' \in {got, Oldest}
  /\ Start("fault")
  /\ UNCHANGED faults /\ OtherStep

-----------------------------------------------------------------------------
Handle ==
  \/ HandleNetHalInfo \/ SyncUtc \/ Activate \/ NoUpgrade \/ NewUpgrade
  \/ RequestFails \/ PartOfUpgrade
  \/ DownloadPage \/ DownloadWithBadDigest \/ FlashFails \/ Restart
  \/ HandleLog \/ HandleError
  \/ HandleFaultIdle \/ ReportFault \/ ReportFaultFails

Next ==
  \/ \E t \in Timers : Expire(t)
  \/ NetInfo \/ NetNotice \/ Error
  \/ Handle \/ StartTimer

Spec == Init /\ [][Next]_vars

(***************************************************************************)
(* The task and the timers go on, and a request that is repeated for ever  *)
(* succeeds in the end.                                                    *)
(***************************************************************************)
FairSpec ==
  /\ Spec
  /\ WF_vars(Handle) /\ WF_vars(StartTimer)
  /\ \A t \in Timers : WF_vars(Expire(t))
  /\ WF_vars(NetNotice)
  /\ SF_vars(SyncUtc) /\ SF_vars(Activate) /\ SF_vars(ReportFault)
  /\ SF_vars(NoUpgrade \/ NewUpgrade)

-----------------------------------------------------------------------------
(***************************************************************************)
(* The work of a timer is under way as long as the timer runs, is about to *)
(* be started, or its message is queued.                                   *)
(***************************************************************************)
Queued(t) == {i \in 1 .. Len(queue) : WorkOf(queue[i]) = t}
UnderWay(t) == Queued(t) # {} \/ t \in running \/ (t = "active" /\ starting) \/ dropped

\* Once the network task has told its information, some step of the activation chain
\* is under way for ever: no branch of the handler ends without the next step or a
\* retry, whatever fails, unless the full queue dropped the timeout.
ChainGoesOn == net.inits > 0 /\ ~net.telling => UnderWay("active")

\* Once the device is active the log goes on, however often it fails.
LogGoesOn == is_active => UnderWay("log")

\* An active device that holds a fault is about to report it: faults of the time
\* before the activation, faults behind others, and faults whose report failed.
FaultIsDue == is_active /\ ~NoFault => UnderWay("fault")

\* The server has every fault before the oldest one held, in order and without a gap,
\* and at most that one besides; those held are the ones noticed last, in order.
FaultsInOrder ==
  /\ got \in {faults.read, faults.read + 1} /\ got <= faults.write
  /\ faults.write - faults.read <= FaultSize
  /\ \A i \in faults.read .. faults.write - 1 : faults.slot[i % FaultSize] = i + 1

\* The chain never splits by itself: its messages, the timer about to be started and the
\* running timer are together never more than the network task has posted notices.  A
\* timer that expires between the assignment of active_event and its own restart posts
\* an event that the restarted timer posts again, but never one more than there were.
Notices == IF net.telling THEN net.inits - 1 ELSE net.inits
OneChain ==
  Cardinality(Queued("active")) + (IF starting THEN 1 ELSE 0)
    + (IF "active" \in running THEN 1 ELSE 0) <= Notices

\* An active device asks for a new firmware until the server has answered; only a
\* second initialisation of the network takes the timer away from the question.
UpgradeIsAsked ==
  is_active /\ ~upgrade.answered /\ net.inits <= 1 /\ ~dropped =>
    \/ \E i \in 1 .. Len(queue) : queue[i] = "GET_UPGRADE"
    \/ active_event = "GET_UPGRADE" /\ (starting \/ "active" \in running)

\* A download does not run past the end of the firmware.
DownloadFits == net.inits <= 1 => upgrade.download_size <= upgrade.bin_size

\* An active device reports all faults it holds in the end, unless a timeout was
\* dropped or the device restarted.
FaultsArrive == is_active /\ ~NoFault ~> NoFault \/ dropped

\* A device whose network task has told its information is activated, unless a full
\* queue dropped a step of the chain, or the network is initialised once more: of two
\* chains on one timer each may overwrite the event of the other for ever.
Activates == net.inits = 1 ~> is_active \/ dropped \/ net.inits > 1

\* Types; no queue holds more than its length.
TypeOK ==
  /\ queue \in Seq(Types) /\ Len(queue) <= QueueSize
  /\ starting \in BOOLEAN /\ running \subseteq Timers
  /\ active_event \in Chain /\ hal \in 0 .. HalSize /\ is_active \in BOOLEAN
  /\ upgrade \in [bin_size : Sizes \cup {0}, download_size : 0 .. Width - 1, answered : BOOLEAN]
  /\ net \in [inits : 0 .. MaxInits, telling : BOOLEAN]
  /\ faults \in [read : Nat, write : Nat, slot : [0 .. FaultSize - 1 -> Nat]]
  /\ got \in Nat /\ dropped \in BOOLEAN
=============================================================================
