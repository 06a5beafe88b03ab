---------------------------- MODULE NetworkProofs ----------------------------
(***************************************************************************)
(* Proofs about the network task, for queues and error counts of any size: *)
(* both modules are queried for ever, and only a module that is            *)
(* initialised is offered to the report task.                              *)
(***************************************************************************)
EXTENDS Network, TLAPS

InQueue(q, m) == \E i \in 1 .. Len(q) : q[i] = m

\* What is behind the head of a queue stays in its tail, and what was appended is in it.
LEMMA InTail ==
  ASSUME NEW q \in Seq(Modules), q # <<>>, NEW m \in Modules, m # Head(q), InQueue(q, m)
  PROVE  InQueue(Tail(q), m)
<1>1. PICK i \in 1 .. Len(q) : q[i] = m
  BY DEF InQueue
<1>2. i # 1
  BY <1>1
<1>3. i - 1 \in 1 .. Len(Tail(q)) /\ Tail(q)[i - 1] = m
  BY <1>1, <1>2
<1> QED
  BY <1>3 DEF InQueue

LEMMA InAppend ==
  ASSUME NEW q \in Seq(Modules), NEW e \in Modules, NEW m \in Modules,
         m = e \/ InQueue(q, m)
  PROVE  InQueue(Append(q, e), m)
<1>1. CASE m = e
  <2>1. Len(q) + 1 \in 1 .. Len(Append(q, e)) /\ Append(q, e)[Len(q) + 1] = m
    BY <1>1
  <2> QED
    BY <2>1 DEF InQueue
<1>2. CASE InQueue(q, m)
  <2>1. PICK i \in 1 .. Len(q) : q[i] = m
    BY <1>2 DEF InQueue
  <2>2. i \in 1 .. Len(Append(q, e)) /\ Append(q, e)[i] = m
    BY <2>1
  <2> QED
    BY <2>2 DEF InQueue
<1> QED
  BY <1>1, <1>2

-----------------------------------------------------------------------------
(* Types. *)

WifiType == [initial : BOOLEAN, config : BOOLEAN, valid : BOOLEAN,
             err_cnt : 0 .. ErrMax, status : Status]
GsmType == [initial : BOOLEAN, sim : BOOLEAN, err_cnt : 0 .. ErrMax, status : Status]

\* Taking a query leaves a shorter queue.
LEMMA QueryTypes ==
  ASSUME TypeOK, NEW m \in Modules, Query(m)
  PROVE  /\ queue' \in Seq(Modules) /\ Len(queue') <= QueueSize
         /\ init_err_cnt' \in 0 .. InitErrMax /\ dropped' \in BOOLEAN
  BY NetworkAssumption DEF NetworkAssumption, TypeOK, Query

\* An answer starts a timer.
LEMMA AnswerTypes ==
  ASSUME TypeOK, NEW m \in Modules, Answer(m)
  PROVE  pc' \in {"wifi", "gsm", "tell", "query"} /\ running' \subseteq Modules
  BY DEF TypeOK, Answer

LEMMA StepTypes ==
  ASSUME TypeOK, [Next]_vars
  PROVE  TypeOK'
<1> USE NetworkAssumption DEF NetworkAssumption, TypeOK, WifiType, GsmType, Modules, Status
<1>0. 0 \in 0 .. ErrMax /\ wifi \in WifiType /\ gsm \in GsmType
  OBVIOUS
<1>1. CASE WifiWorks
  <2>1. wifi' \in WifiType
    BY <1>1 DEF WifiWorks
  <2> QED
    BY <1>1, <2>1 DEF WifiWorks, Idle
<1>2. CASE WifiFails
  BY <1>2 DEF WifiFails, Idle
<1>3. CASE ConfigWifi
  <2>1. wifi' \in WifiType
    BY <1>3 DEF ConfigWifi
  <2> QED
    BY <1>3, <2>1 DEF ConfigWifi, Idle
<1>4. CASE GsmWorks
  <2>1. gsm' \in GsmType
    BY <1>4 DEF GsmWorks
  <2> QED
    BY <1>4, <2>1 DEF GsmWorks, AfterGsm, Idle
<1>5. CASE GsmFails
  <2>1. gsm' \in GsmType
    BY <1>5 DEF GsmFails
  <2> QED
    BY <1>5, <2>1 DEF GsmFails, AfterGsm, Idle
<1>6. CASE Tell
  BY <1>6 DEF Tell
<1>7. CASE WifiAnswers
  <2>1. wifi' \in WifiType
    <3>1. PICK s \in Status : wifi' = [wifi EXCEPT !.err_cnt = 0, !.status = s]
      BY <1>7 DEF WifiAnswers
    <3> QED
      BY <1>0, <3>1
  <2>2. Query("wifi")
    BY <1>7 DEF WifiAnswers
  <2>3. Answer("wifi")
    BY <1>7 DEF WifiAnswers
  <2> QED
    BY <1>7, <2>1, <2>2, <2>3, QueryTypes, AnswerTypes DEF WifiAnswers
<1>8. CASE WifiSilent
  <2>1. wifi' \in WifiType
    <3>1. CASE TooMany(wifi.err_cnt + 1)
      <4>1. wifi' = [wifi EXCEPT !.err_cnt = 0, !.status = "OFFLINE", !.initial = FALSE]
        BY <1>8, <3>1 DEF WifiSilent, QueryFails, Lost
      <4> QED
        BY <1>0, <4>1
    <3>2. CASE ~TooMany(wifi.err_cnt + 1)
      <4>1. wifi' = [wifi EXCEPT !.err_cnt = @ + 1]
        BY <1>8, <3>2 DEF WifiSilent, QueryFails
      <4>2. wifi.err_cnt + 1 \in 0 .. ErrMax
        BY <3>2 DEF TooMany
      <4> QED
        BY <4>1, <4>2
    <3> QED
      BY <3>1, <3>2
  <2>2. Query("wifi")
    BY <1>8 DEF WifiSilent
  <2>3. CASE Answer("wifi")
    BY <1>8, <2>1, <2>2, <2>3, QueryTypes, AnswerTypes DEF WifiSilent
  <2>4. CASE ~Answer("wifi")
    BY <1>8, <2>1, <2>2, <2>4, QueryTypes DEF WifiSilent, QueryFails, Lost
  <2> QED
    BY <2>3, <2>4
<1>9. CASE WifiNotPolled
  BY <1>9 DEF WifiNotPolled, Query, Answer
<1>10. CASE GsmAnswers
  <2>1. gsm' \in GsmType
    BY <1>10 DEF GsmAnswers
  <2>2. Query("gsm")
    BY <1>10 DEF GsmAnswers
  <2>3. Answer("gsm")
    BY <1>10 DEF GsmAnswers
  <2> QED
    BY <1>10, <2>1, <2>2, <2>3, QueryTypes, AnswerTypes DEF GsmAnswers
<1>11. CASE GsmSilent
  <2>1. gsm' \in GsmType
    <3>1. CASE TooMany(gsm.err_cnt + 1)
      <4>1. gsm' = [gsm EXCEPT !.err_cnt = 0, !.status = "OFFLINE", !.initial = FALSE]
        BY <1>11, <3>1 DEF GsmSilent, QueryFails, Lost
      <4> QED
        BY <1>0, <4>1
    <3>2. CASE ~TooMany(gsm.err_cnt + 1)
      <4>1. gsm' = [gsm EXCEPT !.err_cnt = @ + 1]
        BY <1>11, <3>2 DEF GsmSilent, QueryFails
      <4>2. gsm.err_cnt + 1 \in 0 .. ErrMax
        BY <3>2 DEF TooMany
      <4> QED
        BY <4>1, <4>2
    <3> QED
      BY <3>1, <3>2
  <2>2. Query("gsm")
    BY <1>11 DEF GsmSilent
  <2>3. CASE Answer("gsm")
    BY <1>11, <2>1, <2>2, <2>3, QueryTypes, AnswerTypes DEF GsmSilent
  <2>4. CASE ~Answer("gsm")
    BY <1>11, <2>1, <2>2, <2>4, QueryTypes DEF GsmSilent, QueryFails, Lost
  <2> QED
    BY <2>3, <2>4
<1>12. CASE GsmNotPolled
  BY <1>12 DEF GsmNotPolled, Query, Answer
<1>13. ASSUME NEW m \in Modules, Expire(m)
       PROVE  TypeOK'
  <2>1. CASE Len(queue) < QueueSize
    BY <1>13, <2>1 DEF Expire
  <2>2. CASE ~(Len(queue) < QueueSize)
    BY <1>13, <2>2 DEF Expire
  <2> QED
    BY <2>1, <2>2
<1>14. CASE UNCHANGED vars
  BY <1>14 DEF vars
<1> QED
  BY <1>1, <1>2, <1>3, <1>4, <1>5, <1>6, <1>7, <1>8, <1>9, <1>10, <1>11, <1>12,
     <1>13, <1>14 DEF Next, Initialise, Handle

-----------------------------------------------------------------------------
(* Queries. *)

Polled(m) == m \in running \/ dropped \/ InQueue(queue, m)

\* A query that does not lose its module starts its timer again and leaves the other
\* module's query where it was.
LEMMA AnswerKeepsPolling ==
  ASSUME TypeOK, PollingGoesOn, NEW e \in Modules, Query(e), Answer(e)
  PROVE  PollingGoesOn'
<1> SUFFICES ASSUME NEW m \in Modules
             PROVE  Polled(m)'
  BY DEF PollingGoesOn, Polled, InQueue
<1>1. Polled(m)
  BY DEF Query, PollingGoesOn, Polled, InQueue
<1>2. CASE m = e
  BY <1>2 DEF Answer, Polled
<1>3. CASE m # e /\ InQueue(queue, m)
  BY <1>3, InTail DEF TypeOK, Query, Polled
<1>4. CASE m # e /\ ~InQueue(queue, m)
  BY <1>1, <1>4 DEF Answer, Query, Polled
<1> QED
  BY <1>2, <1>3, <1>4

\* A timer that expires hands its query to the queue, or the queue drops it.
LEMMA ExpireKeepsPolling ==
  ASSUME TypeOK, PollingGoesOn, NEW e \in Modules, Expire(e)
  PROVE  PollingGoesOn'
<1> SUFFICES ASSUME pc = "query", NEW m \in Modules
             PROVE  Polled(m)'
  BY DEF Expire, PollingGoesOn, Polled, InQueue
<1>1. Polled(m)
  BY DEF PollingGoesOn, Polled, InQueue
<1>2. CASE Len(queue) < QueueSize
  <2>1. queue' = Append(queue, e) /\ dropped' = dropped /\ running' = running \ {e}
    BY <1>2 DEF Expire
  <2>2. CASE m = e \/ InQueue(queue, m)
    BY <2>1, <2>2, InAppend DEF TypeOK, Polled
  <2>3. CASE m # e /\ ~InQueue(queue, m)
    BY <1>1, <2>1, <2>3 DEF Polled
  <2> QED
    BY <2>2, <2>3
<1>3. CASE ~(Len(queue) < QueueSize)
  BY <1>3 DEF Expire, Polled
<1> QED
  BY <1>2, <1>3

LEMMA PollingNext ==
  ASSUME TypeOK, PollingGoesOn, [Next]_vars
  PROVE  PollingGoesOn'
<1>1. CASE WifiWorks \/ WifiFails \/ ConfigWifi \/ GsmWorks \/ GsmFails
  <2>1. pc' # "query"
    BY <1>1 DEF TypeOK, WifiWorks, WifiFails, ConfigWifi, GsmWorks, GsmFails, AfterGsm
  <2> QED
    BY <2>1 DEF PollingGoesOn
<1>2. CASE Tell
  BY <1>2 DEF Tell, PollingGoesOn
<1>3. CASE Handle
  <2>1. (\E m \in Modules : Query(m) /\ Answer(m)) \/ pc' = "wifi"
    BY <1>3 DEF Handle, WifiAnswers, WifiSilent, WifiNotPolled, GsmAnswers, GsmSilent,
                GsmNotPolled, QueryFails, Lost, Modules
  <2> QED
    BY <2>1, AnswerKeepsPolling DEF PollingGoesOn
<1>4. ASSUME NEW m \in Modules, Expire(m)
      PROVE  PollingGoesOn'
  BY <1>4, ExpireKeepsPolling
<1>5. CASE UNCHANGED vars
  BY <1>5 DEF vars, PollingGoesOn
<1> QED
  BY <1>1, <1>2, <1>3, <1>4, <1>5 DEF Next, Initialise

-----------------------------------------------------------------------------
(* What is offered to the report task. *)

\* OnlineIsInitialised alone is not inductive: a gsm module that is initialised is
\* offered without another look at its SIM card.
OnlineInv == OnlineIsInitialised /\ (gsm.initial => gsm.sim)

LEMMA OnlineNext ==
  ASSUME TypeOK, OnlineInv, [Next]_vars
  PROVE  OnlineInv'
<1> USE DEF TypeOK, OnlineInv, OnlineIsInitialised, IsPolled, Status
<1>1. CASE WifiWorks
  BY <1>1 DEF WifiWorks
<1>2. CASE WifiFails
  BY <1>2 DEF WifiFails
<1>3. CASE ConfigWifi
  BY <1>3 DEF ConfigWifi
<1>4. CASE GsmWorks
  BY <1>4 DEF GsmWorks
<1>5. CASE GsmFails
  BY <1>5 DEF GsmFails
<1>6. CASE Tell
  BY <1>6 DEF Tell
<1>7. CASE WifiAnswers
  BY <1>7 DEF WifiAnswers
<1>8. CASE WifiSilent
  BY <1>8 DEF WifiSilent, QueryFails, Lost
<1>9. CASE WifiNotPolled
  BY <1>9 DEF WifiNotPolled
<1>10. CASE GsmAnswers
  BY <1>10 DEF GsmAnswers
<1>11. CASE GsmSilent
  BY <1>11 DEF GsmSilent, QueryFails, Lost
<1>12. CASE GsmNotPolled
  BY <1>12 DEF GsmNotPolled
<1>13. ASSUME NEW m \in Modules, Expire(m)
       PROVE  OnlineInv'
  BY <1>13 DEF Expire
<1>14. CASE UNCHANGED vars
  BY <1>14 DEF vars
<1> QED
  BY <1>1, <1>2, <1>3, <1>4, <1>5, <1>6, <1>7, <1>8, <1>9, <1>10, <1>11, <1>12,
     <1>13, <1>14 DEF Next, Initialise, Handle

-----------------------------------------------------------------------------
LEMMA Initially == Init => TypeOK /\ PollingGoesOn /\ OnlineInv
<1> SUFFICES ASSUME Init
             PROVE  TypeOK /\ PollingGoesOn /\ OnlineInv
  OBVIOUS
<1>1. wifi \in WifiType /\ gsm \in GsmType
  BY NetworkAssumption DEF NetworkAssumption, Init, WifiType, GsmType, Status
<1>2. TypeOK
  <2>1. queue \in Seq(Modules) /\ Len(queue) = 0
    BY DEF Init
  <2>2. 0 <= QueueSize /\ 0 \in 0 .. InitErrMax
    BY NetworkAssumption DEF NetworkAssumption
  <2> QED
    BY <1>1, <2>1, <2>2 DEF Init, TypeOK, WifiType, GsmType
<1>3. PollingGoesOn /\ OnlineInv
  BY DEF Init, PollingGoesOn, OnlineInv, OnlineIsInitialised
<1> QED
  BY <1>2, <1>3

\* Whatever fails and however often the task starts over, both modules are queried for
\* ever: the timer or the query of each is there, unless the full queue dropped a query.
THEOREM PollingNeverStops == Spec => []PollingGoesOn
<1>1. Init => TypeOK /\ PollingGoesOn
  BY Initially
<1>2. (TypeOK /\ PollingGoesOn) /\ [Next]_vars => (TypeOK /\ PollingGoesOn)'
  BY StepTypes, PollingNext
<1> QED
  BY <1>1, <1>2, PTL DEF Spec

\* The report task is offered only modules that are initialised, the gsm module only
\* with a SIM card and the wifi module only with a valid configuration.
THEOREM OfferedIsInitialised == Spec => []OnlineIsInitialised
<1>1. Init => TypeOK /\ OnlineInv
  BY Initially
<1>2. (TypeOK /\ OnlineInv) /\ [Next]_vars => (TypeOK /\ OnlineInv)'
  BY StepTypes, OnlineNext
<1>3. OnlineInv => OnlineIsInitialised
  BY DEF OnlineInv
<1> QED
  BY <1>1, <1>2, <1>3, PTL DEF Spec
=============================================================================
