----------------------------- MODULE HttpProofs -----------------------------
(***************************************************************************)
(* Proofs about Http, for any number of handles, connections and servers.  *)
(***************************************************************************)
EXTENDS Http, TLAPS

\* Every http_buffer belongs to the request under way or to a leak.
HeapInv == heap = leaks + (IF pc # "idle" /\ host # Ntp THEN 1 ELSE 0)

PcInv ==
  /\ pc \in {"data", "head", "content", "chunk", "exit"} => host # Ntp
  /\ pc = "ntp" => host = Ntp
  /\ Talking => context.connected

\* Without a leak a request has the buffer and exactly its own handle, and the
\* error handler finds either that or, when the connect failed, nothing to free.
Nothing == alive = {} /\ ~buffer.valid /\ buffer.from = None
Held ==
  /\ context.connected /\ HasBuffer(context.handle)
  /\ alive = {h \in Handles : HandleBase + h = context.handle}
PoolInv ==
  leaks = 0 =>
    /\ pc \in {"idle", "connect"} => Nothing
    /\ Talking => Held
    /\ pc = "exit" => Held \/ Nothing

\* While the modules answer in time, what the gsm module holds open has a
\* handle, so that a free handle is never connected already.
PeerInv ==
  ~late =>
    /\ \A h \in Handles : peer[HandleBase + h] # None => h \in alive
    /\ Talking => peer[context.handle] \in {None, host}
FromInv == leaks = 0 /\ ~late /\ Talking => buffer.from \in {None, host}

PartInv ==
  /\ pc \in {"connect", "send", "data", "head", "content", "ntp"} => rsp = "old"
  /\ pc \in {"idle", "exit"} /\ rc = "zero" => rsp # "part"

-----------------------------------------------------------------------------
(***************************************************************************)
(* Types, and what the operations on the buffer and the pool do.           *)
(***************************************************************************)
PoolOK ==
  /\ alive \subseteq Handles
  /\ buffer \in [valid : BOOLEAN, socket : Sockets \cup {0}, from : Servers \cup {None}]
  /\ peer \in [Sockets -> Servers \cup {None}] /\ late \in BOOLEAN
RequestOK ==
  /\ pc \in {"idle", "connect", "send", "data", "head", "content", "chunk", "exit", "ntp"}
  /\ host \in Servers /\ context \in Contexts /\ content \in 0 .. RspSize - 1
  /\ heap \in Nat /\ rc \in Results \cup {"none"} /\ rsp \in {"old", "own", "part"}
  /\ leaks \in 0 .. MaxLeaks

LEMMA TypeParts == TypeOK <=> PoolOK /\ RequestOK
  BY DEF TypeOK, PoolOK, RequestOK

LEMMA ContextFields ==
  ASSUME context \in Contexts
  PROVE  context.connected \in BOOLEAN /\ (context.connected => context.handle \in Sockets)
  <1>1. CASE context = Closed
    BY <1>1 DEF Closed
  <1>2. CASE context \in [connected : {TRUE}, handle : Sockets]
    BY <1>2
  <1>3. QED
    BY <1>1, <1>2 DEF Contexts

LEMMA ClosedIsContext == Closed \in Contexts
  BY DEF Contexts

LEMMA OpenContext ==
  ASSUME NEW s \in Sockets
  PROVE  [connected |-> TRUE, handle |-> s] \in Contexts
  BY DEF Contexts

LEMMA MallocBufferOK ==
  ASSUME PoolOK, NEW s \in Sockets, MallocBuffer(s)
  PROVE  /\ buffer' \in [valid : BOOLEAN, socket : Sockets \cup {0}, from : Servers \cup {None}]
         /\ ~buffer.valid => buffer'.valid /\ buffer'.socket = s
         /\ buffer'.from = buffer.from
  <1>1. CASE buffer.valid
    BY <1>1 DEF PoolOK, MallocBuffer
  <1>2. CASE ~buffer.valid
    <2>1. buffer' = [valid |-> TRUE, socket |-> s, from |-> buffer.from]
      BY <1>2 DEF PoolOK, MallocBuffer
    <2>2. QED
      BY <1>2, <2>1 DEF PoolOK
  <1>3. QED
    BY <1>1, <1>2

LEMMA ReadOK ==
  ASSUME PoolOK, RequestOK, context.connected, Read
  PROVE  /\ buffer' \in [valid : BOOLEAN, socket : Sockets \cup {0}, from : Servers \cup {None}]
         /\ buffer'.valid = buffer.valid /\ buffer'.socket = buffer.socket
         /\ buffer'.from \in {None, buffer.from, peer[context.handle]}
  <1>1. context.handle \in Sockets
    BY ContextFields DEF RequestOK
  <1>2. CASE HasBuffer(context.handle)
    <2>1. PICK f \in {None, buffer.from, peer[context.handle]} : buffer' = [buffer EXCEPT !.from = f]
      BY <1>2 DEF Read
    <2>2. f \in Servers \cup {None}
      BY <1>1 DEF PoolOK
    <2>3. buffer' = [valid |-> buffer.valid, socket |-> buffer.socket, from |-> f]
      BY <2>1 DEF PoolOK
    <2>4. QED
      BY <2>1, <2>2, <2>3 DEF PoolOK
  <1>3. CASE ~HasBuffer(context.handle)
    BY <1>3 DEF Read, PoolOK
  <1>4. QED
    BY <1>2, <1>3

LEMMA DisconnectOK ==
  ASSUME PoolOK, NEW s \in Sockets, Disconnect(s)
  PROVE  /\ PoolOK'
         /\ ~late' => ~late /\ peer' = [peer EXCEPT ![s] = None]
         /\ alive' = IF IsGsm(s) THEN alive \ {s - HandleBase} ELSE alive
         /\ HasBuffer(s) => ~buffer'.valid /\ buffer'.from = None
         /\ ~HasBuffer(s) => buffer' = buffer
  <1> USE HttpAssumption
  <1>1. peer' \in [Sockets -> Servers \cup {None}] /\ late' \in BOOLEAN
    BY DEF Disconnect, Close, PoolOK
  <1>2. ~late' => ~late /\ peer' = [peer EXCEPT ![s] = None]
    BY DEF Disconnect, Close, PoolOK
  <1>3. /\ buffer' \in [valid : BOOLEAN, socket : Sockets \cup {0}, from : Servers \cup {None}]
        /\ HasBuffer(s) => ~buffer'.valid /\ buffer'.from = None
        /\ ~HasBuffer(s) => buffer' = buffer
    BY DEF Disconnect, FreeBuffer, PoolOK
  <1>4. alive' = IF IsGsm(s) THEN alive \ {s - HandleBase} ELSE alive
    BY DEF Disconnect
  <1>5. QED
    BY <1>1, <1>2, <1>3, <1>4 DEF PoolOK

LEMMA AfterWifiOK ==
  ASSUME PoolOK, RequestOK, NEW p \in AfterWifi
  PROVE  p \in [Sockets -> Servers \cup {None}]
  BY DEF PoolOK, RequestOK, AfterWifi, Opened

LEMMA SocketsAreNumbers == \A s \in Sockets : s \in Int
  BY HttpAssumption DEF Sockets, Handles

LEMMA HandleOfSocket ==
  \A s \in Sockets, h \in Handles : h = s - HandleBase => HandleBase + h = s
  <1>1. SUFFICES ASSUME NEW s \in Int, NEW h \in Int, h = s - HandleBase
                 PROVE  HandleBase + h = s
    BY SocketsAreNumbers DEF Handles
  <1>2. QED
    BY <1>1, HttpAssumption

\* Whatever its socket, the one handle of a request is freed with it.
LEMMA HandleFreed ==
  ASSUME NEW s \in Sockets, alive = {h \in Handles : HandleBase + h = s},
         alive' = IF IsGsm(s) THEN alive \ {s - HandleBase} ELSE alive
  PROVE  alive' = {}
  <1> USE HttpAssumption
  <1>1. s \in Int /\ \A h \in Handles : h \in Int
    BY SocketsAreNumbers DEF Handles
  <1>2. \A h \in Handles : HandleBase + h = s => h = s - HandleBase /\ IsGsm(s)
    BY <1>1 DEF IsGsm, Handles
  <1>3. QED
    BY <1>2

-----------------------------------------------------------------------------
(***************************************************************************)
(* Every step keeps the parts of the invariant.                            *)
(***************************************************************************)

\* The pool, the buffer and the connections keep their types.
LEMMA PoolTypes ==
  ASSUME PoolOK, RequestOK, PcInv, [Next]_vars
  PROVE  PoolOK'
  <1> USE HttpAssumption DEF PcInv, Talking
  <1>1. CASE UNCHANGED vars
    BY <1>1 DEF vars, poolVars, PoolOK
  <1>2. ASSUME NEW h \in Servers, Begin(h) PROVE PoolOK'
    BY <1>2 DEF Begin, vars, poolVars, Contexts, PoolOK, RequestOK
  <1>3. CASE NoMemory
    BY <1>3 DEF NoMemory, vars, poolVars, PoolOK, RequestOK
  <1>4. CASE ConnectWifi
    BY <1>4, MallocBufferOK, OpenContext DEF ConnectWifi, Connected, PoolOK, Sockets,
       Handles, RequestOK
  <1>5. CASE ConnectGsm
    <2>1. PICK h \in Handles, p \in AfterWifi :
            /\ Malloced(h) /\ alive' = alive \cup {h}
            /\ peer' = IF p[HandleBase + h] = None THEN [p EXCEPT ![HandleBase + h] = host] ELSE p
            /\ late' = (late \/ p # peer)
            /\ Connected(HandleBase + h)
      BY <1>5 DEF ConnectGsm
    <2>2. HandleBase + h \in Sockets
      BY DEF Sockets

    <2>3. buffer' \in [valid : BOOLEAN, socket : Sockets \cup {0}, from : Servers \cup {None}]
      BY <2>1, <2>2, MallocBufferOK DEF Connected
    <2>4. peer' \in [Sockets -> Servers \cup {None}]
      BY <2>1, AfterWifiOK DEF RequestOK
    <2>5. QED
      BY <2>1, <2>3, <2>4 DEF PoolOK
  <1>6. CASE ConnectFails
    <2>1. PICK p \in AfterWifi :
            \/ peer' = p
            \/ \E h \in Handles : Malloced(h) /\ p[HandleBase + h] = None
                                   /\ peer' = [p EXCEPT ![HandleBase + h] = host]
      BY <1>6 DEF ConnectFails
    <2>2. peer' \in [Sockets -> Servers \cup {None}]
      BY <2>1, AfterWifiOK DEF RequestOK
    <2>3. QED
      BY <1>6, <2>2 DEF ConnectFails, PoolOK
  <1>7. CASE SendHead
    BY <1>7 DEF SendHead, vars, poolVars, Fails, Keep, Results, PoolOK, RequestOK
  <1>8. CASE SendData
    BY <1>8 DEF SendData, vars, poolVars, Fails, Keep, Results, PoolOK, RequestOK
  <1>9. CASE RecvHead
    BY <1>9, ReadOK, ContextFields DEF RecvHead, KeepRead, Fails, vars, PoolOK,
       RequestOK
  <1>10. CASE RecvContent
    BY <1>10, ReadOK, ContextFields DEF RecvContent, KeepRead, Fails, Partly, PoolOK,
       RequestOK
  <1>11. CASE RecvTooLarge
    BY <1>11 DEF RecvTooLarge, vars, poolVars, PoolOK, RequestOK
  <1>12. CASE RecvChunk
    BY <1>12, ReadOK, ContextFields DEF RecvChunk, KeepRead, Fits, Add, PoolOK,
       RequestOK
  <1>13. CASE LastChunk
    BY <1>13, ReadOK, ContextFields DEF LastChunk, KeepRead, Fails, PoolOK, RequestOK
  <1>14. CASE ChunkFails
    BY <1>14, ReadOK, ContextFields DEF ChunkFails, KeepRead, Fails, PoolOK, RequestOK
  <1>15. CASE Exit
    BY <1>15, DisconnectOK, ContextFields, OpenContext DEF Exit, poolVars, PoolOK,
       RequestOK
  <1>16. CASE NtpSend
    BY <1>16 DEF NtpSend, vars, poolVars, Keep, PoolOK, RequestOK
  <1>17. CASE NtpSendFails
    BY <1>17, DisconnectOK, ContextFields DEF NtpSendFails, PoolOK, RequestOK
  <1>18. CASE NtpRecv
    BY <1>18, DisconnectOK, ContextFields DEF NtpRecv, PoolOK, RequestOK
  <1>19. ASSUME NEW s \in Sockets, ServerCloses(s) PROVE PoolOK'
    BY <1>19 DEF ServerCloses, vars, poolVars, PoolOK, Sockets, Handles, RequestOK,
       Servers
  <1>20. QED
    BY <1>1, <1>2, <1>3, <1>4, <1>5, <1>6, <1>7, <1>8, <1>9, <1>10, <1>11, <1>12,
       <1>13, <1>14, <1>15, <1>16, <1>17, <1>18, <1>19 DEF Next, Request

\* So does the request; the content leaves room for one more byte.
LEMMA RequestTypes ==
  ASSUME RequestOK, HeapInv, PcInv, [Next]_vars
  PROVE  RequestOK'
  <1> USE HttpAssumption DEF PcInv, Talking
  <1>1. CASE UNCHANGED vars
    BY <1>1 DEF vars, RequestOK
  <1>2. ASSUME NEW h \in Servers, Begin(h) PROVE RequestOK'
    <2>1. context' \in Contexts /\ heap' \in Nat
      BY <1>2, ClosedIsContext DEF Begin, RequestOK
    <2>2. QED
      BY <1>2, <2>1 DEF Begin, RequestOK, poolVars
  <1>3. CASE NoMemory
    BY <1>3 DEF NoMemory, vars, poolVars, RequestOK, HeapInv, Results
  <1>4. CASE ConnectWifi
    BY <1>4, OpenContext DEF ConnectWifi, Connected, RequestOK, HeapInv, Sockets
  <1>5. CASE ConnectGsm
    BY <1>5, OpenContext DEF ConnectGsm, Connected, RequestOK, HeapInv, Sockets
  <1>6. CASE ConnectFails
    BY <1>6 DEF ConnectFails, RequestOK, Results
  <1>7. CASE SendHead
    BY <1>7 DEF SendHead, vars, poolVars, RequestOK, HeapInv, Results, Fails, Keep
  <1>8. CASE SendData
    BY <1>8 DEF SendData, vars, poolVars, RequestOK, HeapInv, Results, Fails, Keep
  <1>9. CASE RecvHead
    BY <1>9 DEF RecvHead, KeepRead, Fails, Partly, RequestOK, Results
  <1>10. CASE RecvContent
    BY <1>10 DEF RecvContent, KeepRead, Fails, Partly, RequestOK, Results
  <1>11. CASE RecvTooLarge
    BY <1>11, ClosedIsContext DEF RecvTooLarge, RequestOK, HeapInv, Results
  <1>12. CASE RecvChunk
    BY <1>12 DEF RecvChunk, KeepRead, Fits, Add, RequestOK, Results
  <1>13. CASE LastChunk
    BY <1>13 DEF LastChunk, KeepRead, Fails, Partly, RequestOK, Results
  <1>14. CASE ChunkFails
    BY <1>14 DEF ChunkFails, KeepRead, Fails, Partly, RequestOK, Results
  <1>15. CASE Exit
    BY <1>15, ClosedIsContext DEF Exit, RequestOK, HeapInv, Results
  <1>16. CASE NtpSend
    BY <1>16 DEF NtpSend, vars, poolVars, RequestOK, HeapInv, Results, Keep
  <1>17. CASE NtpSendFails
    BY <1>17, ClosedIsContext DEF NtpSendFails, RequestOK, HeapInv, Results
  <1>18. CASE NtpRecv
    BY <1>18, ClosedIsContext DEF NtpRecv, RequestOK, HeapInv, Results
  <1>19. ASSUME NEW s \in Sockets, ServerCloses(s) PROVE RequestOK'
    BY <1>19 DEF ServerCloses, vars, poolVars, RequestOK, HeapInv, Results
  <1>20. QED
    BY <1>1, <1>2, <1>3, <1>4, <1>5, <1>6, <1>7, <1>8, <1>9, <1>10, <1>11, <1>12,
       <1>13, <1>14, <1>15, <1>16, <1>17, <1>18, <1>19 DEF Next, Request

\* One http_buffer per request of HTTP, freed where it ends or leaked.
LEMMA PcStep ==
  ASSUME RequestOK, HeapInv, PcInv, [Next]_vars
  PROVE  HeapInv' /\ PcInv'
  <1> USE HttpAssumption DEF RequestOK, Results, HeapInv, PcInv, Talking
  <1>1. CASE UNCHANGED vars
    BY <1>1 DEF vars, poolVars
  <1>2. ASSUME NEW h \in Servers, Begin(h) PROVE HeapInv' /\ PcInv'
    <2>1. pc' = "connect" /\ pc = "idle" /\ host' = h /\ leaks' = leaks
      BY <1>2 DEF Begin
    <2>2. heap' = heap + (IF h = Ntp THEN 0 ELSE 1)
      BY <1>2 DEF Begin
    <2>3. QED
      BY <2>1, <2>2
  <1>3. CASE NoMemory
    BY <1>3 DEF NoMemory, vars, poolVars
  <1>4. CASE ConnectWifi
    BY <1>4 DEF ConnectWifi, vars, poolVars, Connected, MallocBuffer
  <1>5. CASE ConnectGsm
    BY <1>5 DEF ConnectGsm, vars, poolVars, Connected, MallocBuffer, Malloced,
       FreeHandles, AfterWifi, Opened
  <1>6. CASE ConnectFails
    BY <1>6 DEF ConnectFails, vars, poolVars, Malloced, FreeHandles, AfterWifi, Opened
  <1>7. CASE SendHead
    BY <1>7 DEF SendHead, vars, poolVars, Fails, Keep, Results
  <1>8. CASE SendData
    BY <1>8 DEF SendData, vars, poolVars, Fails, Keep, Results
  <1>9. CASE RecvHead
    BY <1>9 DEF RecvHead, vars, poolVars, Fails, Read, KeepRead, HasBuffer, CanRead
  <1>10. CASE RecvContent
    BY <1>10 DEF RecvContent, vars, poolVars, Fails, Partly, Read, KeepRead,
       HasBuffer, CanRead
  <1>11. CASE RecvTooLarge
    BY <1>11 DEF RecvTooLarge, vars, poolVars
  <1>12. CASE RecvChunk
    BY <1>12 DEF RecvChunk, vars, poolVars, Fits, Add, Read, KeepRead, HasBuffer,
       CanRead
  <1>13. CASE LastChunk
    BY <1>13 DEF LastChunk, vars, poolVars, Fails, Read, KeepRead, HasBuffer, CanRead
  <1>14. CASE ChunkFails
    BY <1>14 DEF ChunkFails, vars, poolVars, Fails, Read, KeepRead, HasBuffer, CanRead
  <1>15. CASE Exit
    BY <1>15 DEF Exit, vars, poolVars, Disconnect, Close, FreeBuffer, HasBuffer, IsGsm
  <1>16. CASE NtpSend
    BY <1>16 DEF NtpSend, vars, poolVars, Keep
  <1>17. CASE NtpSendFails
    BY <1>17 DEF NtpSendFails, vars, poolVars, Disconnect, Close, FreeBuffer,
       HasBuffer, IsGsm
  <1>18. CASE NtpRecv
    BY <1>18 DEF NtpRecv, vars, poolVars, Disconnect, Close, FreeBuffer, HasBuffer,
       IsGsm, CanRead
  <1>19. ASSUME NEW s \in Sockets, ServerCloses(s) PROVE HeapInv' /\ PcInv'
    BY <1>19 DEF ServerCloses, vars, poolVars
  <1>20. QED
    BY <1>1, <1>2, <1>3, <1>4, <1>5, <1>6, <1>7, <1>8, <1>9, <1>10, <1>11, <1>12,
       <1>13, <1>14, <1>15, <1>16, <1>17, <1>18, <1>19 DEF Next, Request

\* A connect takes the handle and the buffer, a disconnect gives both back.
LEMMA PoolStep ==
  ASSUME PoolOK, RequestOK, PcInv, PoolInv, [Next]_vars
  PROVE  PoolInv'
  <1> USE HttpAssumption DEF PoolOK, RequestOK, PcInv, PoolInv, Talking, Held,
     Nothing, HasBuffer
  <1>1. CASE UNCHANGED vars
    BY <1>1 DEF vars, poolVars
  <1>2. ASSUME NEW h \in Servers, Begin(h) PROVE PoolInv'
    BY <1>2 DEF Begin, vars, poolVars, Contexts
  <1>3. CASE NoMemory
    BY <1>3 DEF NoMemory, vars, poolVars
  <1>4. CASE ConnectWifi
    <2>1. PICK s \in WifiIds : Connected(s)
      BY <1>4 DEF ConnectWifi
    <2>2. s \in Sockets /\ ~\E h \in Handles : HandleBase + h = s
      BY DEF Sockets, Handles
    <2>3. leaks' = leaks /\ pc' = "send" /\ context'.connected /\ context'.handle = s
      BY <2>1 DEF Connected
    <2>4. leaks = 0 => buffer'.valid /\ buffer'.socket = s
      BY <1>4, <2>1, <2>2, MallocBufferOK DEF ConnectWifi, Connected
    <2>5. leaks = 0 => alive' = {}
      BY <1>4 DEF ConnectWifi
    <2>6. QED
      BY <2>2, <2>3, <2>4, <2>5
  <1>5. CASE ConnectGsm
    <2>1. PICK h \in Handles, p \in AfterWifi :
            /\ Malloced(h) /\ alive' = alive \cup {h}
            /\ peer' = IF p[HandleBase + h] = None THEN [p EXCEPT ![HandleBase + h] = host] ELSE p
            /\ late' = (late \/ p # peer)
            /\ Connected(HandleBase + h)
      BY <1>5 DEF ConnectGsm
    <2>2. HandleBase + h \in Sockets
      BY DEF Sockets

    <2>3. leaks' = leaks /\ pc' = "send" /\ context'.connected /\ context'.handle = HandleBase + h
      BY <2>1 DEF Connected
    <2>4. leaks = 0 => buffer'.valid /\ buffer'.socket = HandleBase + h
      BY <1>5, <2>1, <2>2, MallocBufferOK DEF ConnectGsm, Connected
    <2>5. leaks = 0 => alive' = {h}
      BY <1>5, <2>1 DEF ConnectGsm
    <2>6. {h} = {k \in Handles : HandleBase + k = HandleBase + h}
      BY DEF Handles
    <2>7. QED
      BY <2>3, <2>4, <2>5, <2>6
  <1>6. CASE ConnectFails
    BY <1>6 DEF ConnectFails, vars, poolVars, Malloced, FreeHandles, AfterWifi, Opened
  <1>7. CASE SendHead
    BY <1>7 DEF SendHead, vars, poolVars, Fails, Keep, Results
  <1>8. CASE SendData
    BY <1>8 DEF SendData, vars, poolVars, Fails, Keep, Results
  <1>9. CASE RecvHead
    BY <1>9, ReadOK DEF RecvHead, KeepRead, Fails, Partly
  <1>10. CASE RecvContent
    BY <1>10, ReadOK DEF RecvContent, KeepRead, Fails, Partly
  <1>11. CASE RecvTooLarge
    BY <1>11 DEF RecvTooLarge, vars, poolVars
  <1>12. CASE RecvChunk
    BY <1>12, ReadOK DEF RecvChunk, KeepRead, Fails, Partly
  <1>13. CASE LastChunk
    BY <1>13, ReadOK DEF LastChunk, KeepRead, Fails, Partly
  <1>14. CASE ChunkFails
    BY <1>14, ReadOK DEF ChunkFails, KeepRead, Fails, Partly
  <1>15. CASE Exit
    <2>1. CASE ~context.connected
      BY <1>15, <2>1 DEF Exit, poolVars
    <2>2. CASE context.connected
      <3>1. context.handle \in Sockets
        BY <1>15, <2>2, ContextFields DEF Exit
      <3>2. Disconnect(context.handle) /\ leaks' = leaks /\ pc' = "idle"
        BY <1>15, <2>2 DEF Exit
      <3>3. leaks = 0 => Held \/ Nothing
        BY <1>15 DEF Exit
      <3>4. leaks = 0 /\ Held => alive' = {}
        BY <3>1, <3>2, DisconnectOK, HandleFreed
      <3>5. leaks = 0 /\ Nothing => alive' = {}
        BY <3>1, <3>2, DisconnectOK
      <3>6. leaks = 0 => ~buffer'.valid /\ buffer'.from = None
        BY <3>1, <3>2, <3>3, DisconnectOK
      <3>7. QED
        BY <3>2, <3>3, <3>4, <3>5, <3>6
    <2>3. QED
      BY <2>1, <2>2
  <1>16. CASE NtpSend
    BY <1>16 DEF NtpSend, vars, poolVars, Keep
  <1>17. CASE NtpSendFails
    <2>1. context.handle \in Sockets
      BY <1>17, ContextFields DEF NtpSendFails
    <2>2. Disconnect(context.handle) /\ leaks' = leaks /\ pc' = "idle"
      BY <1>17 DEF NtpSendFails
    <2>3. leaks = 0 => Held
      BY <1>17 DEF NtpSendFails
    <2>4. leaks = 0 => alive' = {}
      BY <2>1, <2>2, <2>3, DisconnectOK, HandleFreed
    <2>5. leaks = 0 => ~buffer'.valid /\ buffer'.from = None
      BY <2>1, <2>2, <2>3, DisconnectOK
    <2>6. QED
      BY <2>2, <2>4, <2>5
  <1>18. CASE NtpRecv
    <2>1. context.handle \in Sockets
      BY <1>18, ContextFields DEF NtpRecv
    <2>2. Disconnect(context.handle) /\ leaks' = leaks /\ pc' = "idle"
      BY <1>18 DEF NtpRecv
    <2>3. leaks = 0 => Held
      BY <1>18 DEF NtpRecv
    <2>4. leaks = 0 => alive' = {}
      BY <2>1, <2>2, <2>3, DisconnectOK, HandleFreed
    <2>5. leaks = 0 => ~buffer'.valid /\ buffer'.from = None
      BY <2>1, <2>2, <2>3, DisconnectOK
    <2>6. QED
      BY <2>2, <2>4, <2>5
  <1>19. ASSUME NEW s \in Sockets, ServerCloses(s) PROVE PoolInv'
    BY <1>19 DEF ServerCloses, vars, poolVars
  <1>20. QED
    BY <1>1, <1>2, <1>3, <1>4, <1>5, <1>6, <1>7, <1>8, <1>9, <1>10, <1>11, <1>12,
       <1>13, <1>14, <1>15, <1>16, <1>17, <1>18, <1>19 DEF Next, Request

\* A step that is answered in time keeps the module and the pool in agreement.
LEMMA PeerStep ==
  ASSUME PoolOK, RequestOK, PcInv, PeerInv, [Next]_vars
  PROVE  PeerInv'
  <1> USE HttpAssumption DEF PcInv, PeerInv, Talking, PoolOK, RequestOK, Handles,
     Sockets
  <1>1. CASE UNCHANGED vars
    BY <1>1 DEF vars, poolVars
  <1>2. ASSUME NEW h \in Servers, Begin(h) PROVE PeerInv'
    BY <1>2 DEF Begin, vars, poolVars, Contexts
  <1>3. CASE NoMemory
    BY <1>3 DEF NoMemory, vars, poolVars
  <1>4. CASE ConnectWifi
    BY <1>4 DEF ConnectWifi, vars, poolVars, Connected, MallocBuffer
  <1>5. CASE ConnectGsm
    <2>1. PICK h \in Handles, p \in AfterWifi :
            /\ Malloced(h) /\ alive' = alive \cup {h}
            /\ peer' = IF p[HandleBase + h] = None THEN [p EXCEPT ![HandleBase + h] = host] ELSE p
            /\ late' = (late \/ p # peer)
            /\ Connected(HandleBase + h)
      BY <1>5 DEF ConnectGsm
    <2>2. HandleBase + h \in Sockets
      BY DEF Sockets

    <2>3. SUFFICES ASSUME ~late' PROVE PeerInv'
      OBVIOUS
    <2>4. p = peer /\ ~late
      BY <2>1, <2>3
    <2>5. peer[HandleBase + h] = None
      BY <2>1, <2>4 DEF Malloced, FreeHandles
    <2>6. peer' = [peer EXCEPT ![HandleBase + h] = host]
      BY <2>1, <2>4, <2>5
    <2>7. context'.handle = HandleBase + h /\ host' = host
      BY <2>1 DEF Connected
    <2>8. QED
      BY <2>1, <2>2, <2>4, <2>6, <2>7
  <1>6. CASE ConnectFails
    BY <1>6 DEF ConnectFails, vars, poolVars, Malloced, FreeHandles, AfterWifi, Opened
  <1>7. CASE SendHead
    BY <1>7 DEF SendHead, vars, poolVars, Fails, Keep, Results
  <1>8. CASE SendData
    BY <1>8 DEF SendData, vars, poolVars, Fails, Keep, Results
  <1>9. CASE RecvHead
    BY <1>9 DEF RecvHead, vars, poolVars, Fails, Read, KeepRead, HasBuffer, CanRead
  <1>10. CASE RecvContent
    BY <1>10 DEF RecvContent, vars, poolVars, Fails, Partly, Read, KeepRead,
       HasBuffer, CanRead
  <1>11. CASE RecvTooLarge
    BY <1>11 DEF RecvTooLarge, vars, poolVars
  <1>12. CASE RecvChunk
    BY <1>12 DEF RecvChunk, vars, poolVars, Fits, Add, Read, KeepRead, HasBuffer,
       CanRead
  <1>13. CASE LastChunk
    BY <1>13 DEF LastChunk, vars, poolVars, Fails, Read, KeepRead, HasBuffer, CanRead
  <1>14. CASE ChunkFails
    BY <1>14 DEF ChunkFails, vars, poolVars, Fails, Read, KeepRead, HasBuffer, CanRead
  <1>15. CASE Exit
    <2>1. CASE ~context.connected
      BY <1>15, <2>1 DEF Exit, poolVars
    <2>2. CASE context.connected
      <3>1. context.handle \in Sockets
        BY <1>15, <2>2, ContextFields DEF Exit
      <3>2. Disconnect(context.handle) /\ ~Talking'
        BY <1>15, <2>2 DEF Exit
      <3>3. SUFFICES ASSUME ~late' PROVE \A h \in Handles : peer'[HandleBase + h] # None => h \in alive'
        BY <3>2
      <3>4. /\ ~late /\ peer' = [peer EXCEPT ![context.handle] = None]
            /\ alive' = IF IsGsm(context.handle) THEN alive \ {context.handle - HandleBase} ELSE alive
        BY <3>1, <3>2, <3>3, DisconnectOK
      <3>5. TAKE h \in Handles
      <3>6. h # context.handle - HandleBase => peer'[HandleBase + h] = peer[HandleBase + h]
        BY <3>1, <3>4
      <3>7. h = context.handle - HandleBase => HandleBase + h = context.handle
        BY <3>1, HandleOfSocket
      <3>8. h = context.handle - HandleBase => peer'[HandleBase + h] = None
        BY <3>1, <3>4, <3>7
      <3>9. QED
        BY <3>4, <3>6, <3>8
    <2>3. QED
      BY <2>1, <2>2
  <1>16. CASE NtpSend
    BY <1>16 DEF NtpSend, vars, poolVars, Keep
  <1>17. CASE NtpSendFails
    <2>1. context.handle \in Sockets
      BY <1>17, ContextFields DEF NtpSendFails
    <2>2. Disconnect(context.handle) /\ ~Talking'
      BY <1>17 DEF NtpSendFails
    <2>3. SUFFICES ASSUME ~late' PROVE \A h \in Handles : peer'[HandleBase + h] # None => h \in alive'
      BY <2>2
    <2>4. /\ ~late /\ peer' = [peer EXCEPT ![context.handle] = None]
          /\ alive' = IF IsGsm(context.handle) THEN alive \ {context.handle - HandleBase} ELSE alive
      BY <2>1, <2>2, <2>3, DisconnectOK
    <2>5. TAKE h \in Handles
    <2>6. h # context.handle - HandleBase => peer'[HandleBase + h] = peer[HandleBase + h]
      BY <2>1, <2>4
    <2>7. h = context.handle - HandleBase => HandleBase + h = context.handle
      BY <2>1, HandleOfSocket
    <2>8. h = context.handle - HandleBase => peer'[HandleBase + h] = None
      BY <2>1, <2>4, <2>7
    <2>9. QED
      BY <2>4, <2>6, <2>8
  <1>18. CASE NtpRecv
    <2>1. context.handle \in Sockets
      BY <1>18, ContextFields DEF NtpRecv
    <2>2. Disconnect(context.handle) /\ ~Talking'
      BY <1>18 DEF NtpRecv
    <2>3. SUFFICES ASSUME ~late' PROVE \A h \in Handles : peer'[HandleBase + h] # None => h \in alive'
      BY <2>2
    <2>4. /\ ~late /\ peer' = [peer EXCEPT ![context.handle] = None]
          /\ alive' = IF IsGsm(context.handle) THEN alive \ {context.handle - HandleBase} ELSE alive
      BY <2>1, <2>2, <2>3, DisconnectOK
    <2>5. TAKE h \in Handles
    <2>6. h # context.handle - HandleBase => peer'[HandleBase + h] = peer[HandleBase + h]
      BY <2>1, <2>4
    <2>7. h = context.handle - HandleBase => HandleBase + h = context.handle
      BY <2>1, HandleOfSocket
    <2>8. h = context.handle - HandleBase => peer'[HandleBase + h] = None
      BY <2>1, <2>4, <2>7
    <2>9. QED
      BY <2>4, <2>6, <2>8
  <1>19. ASSUME NEW s \in Sockets, ServerCloses(s) PROVE PeerInv'
    BY <1>19 DEF ServerCloses, vars, poolVars
  <1>20. QED
    BY <1>1, <1>2, <1>3, <1>4, <1>5, <1>6, <1>7, <1>8, <1>9, <1>10, <1>11, <1>12,
       <1>13, <1>14, <1>15, <1>16, <1>17, <1>18, <1>19 DEF Next, Request

\* The buffer starts without bytes and gets them from the server of the request.
LEMMA FromStep ==
  ASSUME PoolOK, RequestOK, PcInv, PoolInv, PeerInv, FromInv, [Next]_vars
  PROVE  FromInv'
  <1> USE HttpAssumption DEF PoolOK, RequestOK, PcInv, PoolInv, PeerInv, FromInv,
     Talking, Nothing, Held, HasBuffer
  <1>1. CASE UNCHANGED vars
    BY <1>1 DEF vars, poolVars
  <1>2. ASSUME NEW h \in Servers, Begin(h) PROVE FromInv'
    BY <1>2 DEF Begin, vars, poolVars, Contexts
  <1>3. CASE NoMemory
    BY <1>3 DEF NoMemory, vars, poolVars
  <1>4. CASE ConnectWifi
    <2>1. PICK s \in WifiIds : Connected(s)
      BY <1>4 DEF ConnectWifi
    <2>2. s \in Sockets
      BY DEF Sockets
    <2>3. leaks' = leaks /\ buffer'.from = buffer.from
      BY <2>1, <2>2, MallocBufferOK DEF Connected
    <2>4. QED
      BY <1>4, <2>3 DEF ConnectWifi
  <1>5. CASE ConnectGsm
    <2>1. PICK h \in Handles, p \in AfterWifi :
            /\ Malloced(h) /\ alive' = alive \cup {h}
            /\ peer' = IF p[HandleBase + h] = None THEN [p EXCEPT ![HandleBase + h] = host] ELSE p
            /\ late' = (late \/ p # peer)
            /\ Connected(HandleBase + h)
      BY <1>5 DEF ConnectGsm
    <2>2. HandleBase + h \in Sockets
      BY DEF Sockets

    <2>3. leaks' = leaks /\ buffer'.from = buffer.from
      BY <2>1, <2>2, MallocBufferOK DEF Connected
    <2>4. QED
      BY <1>5, <2>3 DEF ConnectGsm
  <1>6. CASE ConnectFails
    BY <1>6 DEF ConnectFails, vars, poolVars, Malloced, FreeHandles, AfterWifi, Opened
  <1>7. CASE SendHead
    BY <1>7 DEF SendHead, vars, poolVars, Fails, Keep, Results
  <1>8. CASE SendData
    BY <1>8 DEF SendData, vars, poolVars, Fails, Keep, Results
  <1>9. CASE RecvHead
    BY <1>9, ReadOK DEF RecvHead, KeepRead, Fails, Partly
  <1>10. CASE RecvContent
    BY <1>10, ReadOK DEF RecvContent, KeepRead, Fails, Partly
  <1>11. CASE RecvTooLarge
    BY <1>11 DEF RecvTooLarge, vars, poolVars
  <1>12. CASE RecvChunk
    BY <1>12, ReadOK DEF RecvChunk, KeepRead, Fails, Partly
  <1>13. CASE LastChunk
    BY <1>13, ReadOK DEF LastChunk, KeepRead, Fails, Partly
  <1>14. CASE ChunkFails
    BY <1>14, ReadOK DEF ChunkFails, KeepRead, Fails, Partly
  <1>15. CASE Exit
    BY <1>15 DEF Exit
  <1>16. CASE NtpSend
    BY <1>16 DEF NtpSend, vars, poolVars, Keep
  <1>17. CASE NtpSendFails
    BY <1>17 DEF NtpSendFails
  <1>18. CASE NtpRecv
    BY <1>18 DEF NtpRecv
  <1>19. ASSUME NEW s \in Sockets, ServerCloses(s) PROVE FromInv'
    BY <1>19 DEF ServerCloses, vars, poolVars
  <1>20. QED
    BY <1>1, <1>2, <1>3, <1>4, <1>5, <1>6, <1>7, <1>8, <1>9, <1>10, <1>11, <1>12,
       <1>13, <1>14, <1>15, <1>16, <1>17, <1>18, <1>19 DEF Next, Request

\* What ends with a part of the response ends with an error.
LEMMA PartStep ==
  ASSUME PcInv, PartInv, [Next]_vars
  PROVE  PartInv'
  <1> USE HttpAssumption DEF PcInv, PartInv, Talking
  <1>1. CASE UNCHANGED vars
    BY <1>1 DEF vars
  <1>2. ASSUME NEW h \in Servers, Begin(h) PROVE PartInv'
    BY <1>2 DEF Begin
  <1>3. CASE NoMemory
    BY <1>3 DEF NoMemory
  <1>4. CASE ConnectWifi
    BY <1>4 DEF ConnectWifi, Connected
  <1>5. CASE ConnectGsm
    BY <1>5 DEF ConnectGsm, Connected
  <1>6. CASE ConnectFails
    BY <1>6 DEF ConnectFails
  <1>7. CASE SendHead
    BY <1>7 DEF SendHead, Fails, Results
  <1>8. CASE SendData
    BY <1>8 DEF SendData, Fails, Results
  <1>9. CASE RecvHead
    BY <1>9 DEF RecvHead, Fails
  <1>10. CASE RecvContent
    BY <1>10 DEF RecvContent, Fails, Partly
  <1>11. CASE RecvTooLarge
    BY <1>11 DEF RecvTooLarge
  <1>12. CASE RecvChunk
    BY <1>12 DEF RecvChunk
  <1>13. CASE LastChunk
    BY <1>13 DEF LastChunk, Fails
  <1>14. CASE ChunkFails
    BY <1>14 DEF ChunkFails, Fails
  <1>15. CASE Exit
    BY <1>15 DEF Exit
  <1>16. CASE NtpSend
    BY <1>16 DEF NtpSend
  <1>17. CASE NtpSendFails
    BY <1>17 DEF NtpSendFails
  <1>18. CASE NtpRecv
    BY <1>18 DEF NtpRecv
  <1>19. ASSUME NEW s \in Sockets, ServerCloses(s) PROVE PartInv'
    BY <1>19 DEF ServerCloses
  <1>20. QED
    BY <1>1, <1>2, <1>3, <1>4, <1>5, <1>6, <1>7, <1>8, <1>9, <1>10, <1>11, <1>12,
       <1>13, <1>14, <1>15, <1>16, <1>17, <1>18, <1>19 DEF Next, Request

-----------------------------------------------------------------------------
(***************************************************************************)
(* The invariant, and what follows from it.                                *)
(***************************************************************************)
Inv == TypeOK /\ HeapInv /\ PcInv /\ PoolInv /\ PeerInv /\ FromInv /\ PartInv

LEMMA InvInit == Init => Inv
  <1> SUFFICES ASSUME Init PROVE Inv
    OBVIOUS
  <1> USE HttpAssumption DEF Init
  <1>1. TypeOK
    <2>1. 0 \in 0 .. RspSize - 1 /\ 0 \in 0 .. MaxLeaks
      OBVIOUS
    <2>2. peer \in [Sockets -> Servers \cup {None}]
      OBVIOUS
    <2>3. QED
      BY <2>1, <2>2, ClosedIsContext DEF TypeOK, Servers, Results
  <1>2. HeapInv /\ PcInv /\ PoolInv /\ FromInv /\ PartInv
    BY DEF HeapInv, PcInv, PoolInv, FromInv, PartInv, Talking, Nothing
  <1>3. PeerInv
    BY DEF PeerInv, Talking, Sockets
  <1>4. QED
    BY <1>1, <1>2, <1>3 DEF Inv

LEMMA InvNext == Inv /\ [Next]_vars => Inv'
  <1> SUFFICES ASSUME Inv, [Next]_vars PROVE Inv'
    OBVIOUS
  <1>1. PoolOK /\ RequestOK
    BY TypeParts DEF Inv
  <1>2. PoolOK' /\ RequestOK'
    BY <1>1, PoolTypes, RequestTypes DEF Inv
  <1>3. TypeOK'
    BY <1>2 DEF TypeOK, PoolOK, RequestOK
  <1>4. HeapInv' /\ PcInv'
    BY <1>1, PcStep DEF Inv
  <1>5. PoolInv'
    BY <1>1, PoolStep DEF Inv
  <1>6. PeerInv'
    BY <1>1, PeerStep DEF Inv
  <1>7. FromInv'
    BY <1>1, FromStep DEF Inv
  <1>8. PartInv'
    BY PartStep DEF Inv
  <1>9. QED
    BY <1>3, <1>4, <1>5, <1>6, <1>7, <1>8 DEF Inv

LEMMA Invariant == Spec => []Inv
  BY InvInit, InvNext, PTL DEF Spec

\* Every variable keeps its type, whatever the server answers: in particular a
\* chunked response never fills the buffer of the caller to its last byte.
THEOREM TypeCorrect == Spec => []TypeOK
  <1>1. Inv => TypeOK
    BY DEF Inv
  <1>2. QED
    BY <1>1, Invariant, PTL

\* Every path through a request, with any command failing or answered late,
\* gives back what it took, unless a response was larger than its buffer.
THEOREM EverythingIsGivenBack == Spec => []GivenBack
  <1>1. Inv => GivenBack
    BY HttpAssumption DEF Inv, TypeOK, HeapInv, PoolInv, GivenBack, Nothing
  <1>2. QED
    BY <1>1, Invariant, PTL

\* A request has the one buffer and its handle, without bytes of an earlier
\* response, as long as nothing leaked and the modules answer in time.
THEOREM RequestsReceiveTheirOwn == Spec => []ReceivesItsOwn
  <1>1. Inv => ReceivesItsOwn
    BY DEF Inv, PoolInv, FromInv, ReceivesItsOwn, Held
  <1>2. QED
    BY <1>1, Invariant, PTL

\* A request talks to its own server as long as the modules answer in time, even
\* after leaks: what a module holds open has a handle that is not free.
THEOREM RequestsTalkToTheirServer == Spec => []OwnServer
  <1>1. Inv => OwnServer
    BY DEF Inv, PeerInv, OwnServer
  <1>2. QED
    BY <1>1, Invariant, PTL

\* A response received in part is never returned as a success.
THEOREM PartsAreNoSuccess == Spec => []NoPartIsSuccess
  <1>1. Inv => NoPartIsSuccess
    BY DEF Inv, PartInv, NoPartIsSuccess
  <1>2. QED
    BY <1>1, Invariant, PTL
=============================================================================
