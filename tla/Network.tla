------------------------------ MODULE Network ------------------------------
(***************************************************************************)
(* The network task (Src/tasks/net_task.c): it initialises the wifi and    *)
(* the gsm module, tells the report task, and then queries both modules by *)
(* timers, until one has failed so often that it starts all over.          *)
(*                                                                         *)
(* Between power on and the queries the task runs straight through, which  *)
(* may take minutes: each initialisation of a module is a step of its own, *)
(* and timers that still run may expire in between.  A handled query is    *)
(* one step.  The modules appear by the outcomes of their commands.  The   *)
(* signal strength, names and addresses, the posts to the display and the  *)
(* posts of locations change nothing here and are left out.  What the task *)
(* tells the report task is in Report; the wifi configuration it saves is  *)
(* a read and a save of EnvStore, with the wait for the user between them. *)
(***************************************************************************)
EXTENDS Naturals, Sequences, FiniteSets

CONSTANTS
  QueueSize,  \* length of net_task_msg_q_id
  ErrMax,     \* NET_TASK_ERR_CNT_MAX
  InitErrMax  \* NET_TASK_NET_INIT_ERR_CNT_MAX

ASSUME NetworkAssumption ==
  QueueSize \in Nat \ {0} /\ ErrMax \in Nat \ {0} /\ InitErrMax \in Nat

VARIABLES
  pc,            \* what the task does: initialise "wifi" or "gsm", "tell", or "query"
  wifi,          \* net.wifi; valid: config.status is VALID
  gsm,           \* net.gsm
  init_err_cnt,
  queue,         \* net_task_msg_q_id
  running,       \* the timers that run
  dropped        \* history: the full queue dropped a query

vars == <<pc, wifi, gsm, init_err_cnt, queue, running, dropped>>

Modules == {"wifi", "gsm"}  \* each names its timer and its query as well
Status == {"ONLINE", "OFFLINE"}

Init ==
  /\ pc = "wifi"
  /\ wifi = [initial |-> FALSE, config |-> FALSE, valid |-> FALSE, err_cnt |-> 0, status |-> "OFFLINE"]
  /\ gsm = [initial |-> FALSE, sim |-> FALSE, err_cnt |-> 0, status |-> "OFFLINE"]
  /\ init_err_cnt = 0 /\ queue = <<>> /\ running = {} /\ dropped = FALSE

-----------------------------------------------------------------------------
(***************************************************************************)
(* Initialisation, from label init on.                                     *)
(***************************************************************************)
Idle == UNCHANGED <<queue, running, dropped>>

WifiWorks ==
  /\ pc = "wifi" /\ wifi.config
  /\ pc' = "gsm" /\ wifi' = [wifi EXCEPT !.initial = TRUE]
  /\ UNCHANGED <<gsm, init_err_cnt>> /\ Idle

WifiFails ==
  /\ pc = "wifi" /\ ~wifi.initial
  /\ pc' = "gsm"
  /\ UNCHANGED <<wifi, gsm, init_err_cnt>> /\ Idle

\* The first time it works the user may configure the wifi; the environment may hold
\* a configuration, and a new one is valid.
ConfigWifiAgain ==  \* mutant: that it was configured is not noted
  /\ pc = "wifi" /\ ~wifi.config
  /\ \E v \in BOOLEAN : wifi' = [wifi EXCEPT !.initial = FALSE, !.valid = v]
  /\ UNCHANGED <<pc, gsm, init_err_cnt>> /\ Idle
ConfigWifi ==
  /\ pc = "wifi" /\ ~wifi.config
  /\ \E v \in BOOLEAN : wifi' = [wifi EXCEPT !.initial = FALSE, !.config = TRUE, !.valid = v]
  /\ UNCHANGED <<pc, gsm, init_err_cnt>> /\ Idle

\* After the gsm module the task starts over when both failed, a few times.
AfterGsm ==
  IF init_err_cnt < InitErrMax /\ ~gsm'.initial /\ ~wifi.initial
    THEN pc' = "wifi" /\ init_err_cnt' = init_err_cnt + 1
    ELSE pc' = "tell" /\ init_err_cnt' = 0

GsmWorks ==
  /\ pc = "gsm"
  /\ gsm' = IF gsm.initial THEN [gsm EXCEPT !.status = "ONLINE"]
            ELSE [gsm EXCEPT !.initial = TRUE, !.sim = TRUE, !.status = "ONLINE"]
  /\ AfterGsm
  /\ UNCHANGED wifi /\ Idle

\* It fails before the SIM card is known, for want of one, or after one was found.
GsmFails ==
  /\ pc = "gsm" /\ ~gsm.initial
  /\ \E s \in BOOLEAN : gsm' = [gsm EXCEPT !.sim = s]
  /\ AfterGsm
  /\ UNCHANGED wifi /\ Idle

\* The report task is told and both queries are due.
TellWifiOnly ==  \* mutant: the timer of the gsm module is started by its query only
  /\ pc = "tell"
  /\ pc' = "query" /\ running' = running \cup {"wifi"}
  /\ UNCHANGED <<wifi, gsm, init_err_cnt, queue, dropped>>
Tell ==
  /\ pc = "tell"
  /\ pc' = "query" /\ running' = running \cup Modules
  /\ UNCHANGED <<wifi, gsm, init_err_cnt, queue, dropped>>

-----------------------------------------------------------------------------
(***************************************************************************)
(* A timer that expires posts its query, without waiting for room.         *)
(***************************************************************************)
Expire(m) ==
  /\ m \in running
  /\ running' = running \ {m}
  /\ IF Len(queue) < QueueSize THEN queue' = Append(queue, m) /\ dropped' = dropped
                               ELSE queue' = queue /\ dropped' = TRUE
  /\ UNCHANGED <<pc, wifi, gsm, init_err_cnt>>

(***************************************************************************)
(* A query counts the errors of its module; the module is lost with the    *)
(* last one, or the timer is started again.                                *)
(***************************************************************************)
Query(m) ==
  /\ pc = "query" /\ queue # <<>> /\ Head(queue) = m
  /\ queue' = Tail(queue) /\ dropped' = dropped
  /\ UNCHANGED init_err_cnt

Answer(m) == pc' = "query" /\ running' = running \cup {m}

TooMany(e) == e >= ErrMax

LostStaysOnline(state) ==  \* mutant: the status is left alone
  /\ pc' = "wifi" /\ UNCHANGED running
  /\ state' = [state EXCEPT !.err_cnt = 0, !.initial = FALSE]
Lost(state) ==
  /\ pc' = "wifi" /\ UNCHANGED running
  /\ state' = [state EXCEPT !.err_cnt = 0, !.status = "OFFLINE", !.initial = FALSE]

QueryFails(state, m) ==
  IF TooMany(state.err_cnt + 1) THEN Lost(state)
  ELSE state' = [state EXCEPT !.err_cnt = @ + 1] /\ Answer(m)

IsPolled == wifi.initial /\ wifi.config /\ wifi.valid

\* The wifi is connected to its network, or could or could not be connected now.
WifiAnswers ==
  /\ Query("wifi") /\ IsPolled
  /\ \E s \in Status : wifi' = [wifi EXCEPT !.err_cnt = 0, !.status = s]
  /\ Answer("wifi") /\ UNCHANGED gsm

WifiSilent ==
  /\ Query("wifi") /\ IsPolled
  /\ QueryFails(wifi, "wifi") /\ UNCHANGED gsm

WifiNotPolled ==
  /\ Query("wifi") /\ ~IsPolled
  /\ Answer("wifi") /\ UNCHANGED <<wifi, gsm>>

GsmAnswers ==
  /\ Query("gsm") /\ gsm.sim
  /\ gsm' = [gsm EXCEPT !.err_cnt = 0]
  /\ Answer("gsm") /\ UNCHANGED wifi

GsmSilent ==
  /\ Query("gsm") /\ gsm.sim
  /\ QueryFails(gsm, "gsm") /\ UNCHANGED wifi

GsmNotPolled ==
  /\ Query("gsm") /\ ~gsm.sim
  /\ Answer("gsm") /\ UNCHANGED <<wifi, gsm>>

-----------------------------------------------------------------------------
Initialise == WifiWorks \/ WifiFails \/ ConfigWifi \/ GsmWorks \/ GsmFails \/ Tell

Handle ==
  WifiAnswers \/ WifiSilent \/ WifiNotPolled \/ GsmAnswers \/ GsmSilent \/ GsmNotPolled

Next == Initialise \/ Handle \/ \E m \in Modules : Expire(m)

Spec == Init /\ [][Next]_vars

(***************************************************************************)
(* The task goes on, and running timers expire.                            *)
(***************************************************************************)
FairSpec ==
  Spec /\ WF_vars(Initialise) /\ WF_vars(Handle) /\ \A m \in Modules : WF_vars(Expire(m))

-----------------------------------------------------------------------------
\* Both modules are queried for ever, whichever failed: no branch of the loop, and no
\* initialisation, ends without the timer or the query of either, unless the full queue
\* dropped a query.
PollingGoesOn ==
  pc = "query" =>
    \A m \in Modules : m \in running \/ dropped \/ \E i \in 1 .. Len(queue) : queue[i] = m

\* The report task is offered a module only while it is initialised, and the gsm only
\* with a SIM card, the wifi only with a valid configuration.
OnlineIsInitialised ==
  /\ wifi.status = "ONLINE" => IsPolled
  /\ gsm.status = "ONLINE" => gsm.initial /\ gsm.sim

\* Every initialisation ends, however the modules fail, and the report task is told.
InitEnds == pc # "query" ~> pc = "query"

\* A module that was initialised once and is not now will be initialised, or at least
\* tried, again ("需要重新初始化", net_task.c:428).
WifiIsTriedAgain == (pc = "query" /\ wifi.config /\ ~wifi.initial) ~> pc = "wifi"

\* Types.
TypeOK ==
  /\ pc \in {"wifi", "gsm", "tell", "query"}
  /\ wifi \in [initial : BOOLEAN, config : BOOLEAN, valid : BOOLEAN,
               err_cnt : 0 .. ErrMax, status : Status]
  /\ gsm \in [initial : BOOLEAN, sim : BOOLEAN, err_cnt : 0 .. ErrMax, status : Status]
  /\ init_err_cnt \in 0 .. InitErrMax
  /\ queue \in Seq(Modules) /\ Len(queue) <= QueueSize
  /\ running \subseteq Modules /\ dropped \in BOOLEAN
=============================================================================
