-------------------------------- MODULE Http --------------------------------
(***************************************************************************)
(* The HTTP client (Src/http/http_client.c), the time client               *)
(* (Src/ntp/ntp.c) and the sockets below them (Src/socket/socket.c).  Only *)
(* the report task calls them, one request after the other.                *)
(*                                                                         *)
(* A call of a socket is one step: it may do all, a part or nothing of     *)
(* what was asked before its timeout, or fail.  The two modules appear by  *)
(* the connections they hold: a command that is not answered in time may   *)
(* still have its effect, and a server may close a connection at any time. *)
(* Bytes are told apart only by the server they come from.                 *)
(***************************************************************************)
EXTENDS Integers

CONSTANTS
  HandleMax,  \* SOCKET_GSM_HANDLE_MAX
  HandleBase, \* SOCKET_GSM_HANDLE_BASE
  WifiIds,    \* con_id of the wifi module, which numbers its connections from 1
  Hosts,      \* the servers of HTTP requests
  RspSize,    \* rsp_buffer_size, in chunks
  None,
  MaxLeaks    \* bound: responses larger than their buffer

Ntp == "ntp.ntsc.ac.cn"

ASSUME HttpAssumption ==
  /\ HandleMax \in Nat \ {0} /\ HandleBase \in Nat
  /\ WifiIds \subseteq 1 .. HandleBase - 1
  /\ RspSize \in Nat \ {0} /\ MaxLeaks \in Nat
  /\ Ntp \notin Hosts /\ None \notin Hosts \cup {Ntp}

VARIABLES
  alive,   \* the gsm handles whose alive is set
  buffer,  \* socket_buffer[0]; from: the server of its unread bytes, or None
  peer,    \* external: whom the modules hold a connection to, on each socket
  pc,      \* where the request is
  host,    \* whom the request is for
  context, \* handle and connected of http_client_context_t; sockfd of ntp.c
  content, \* content_size of a chunked response
  heap,    \* how many http_buffer are not freed
  rc,      \* "none", or of a result: "error" < 0, "zero", "positive"
  rsp,     \* what rsp_buffer holds: "old" or its "own" response, or a "part"
  leaks,   \* history: how many responses were larger than their buffer
  late     \* history: a module refused a close or did not answer in time

poolVars == <<alive, buffer, peer, late>>
vars == <<poolVars, pc, host, context, content, heap, rc, rsp, leaks>>

Handles == 0 .. HandleMax - 1
Servers == Hosts \cup {Ntp}
Sockets == WifiIds \cup {HandleBase + h : h \in Handles}
IsGsm(s) == s >= HandleBase

-----------------------------------------------------------------------------
(***************************************************************************)
(* The pool of handles and the buffer.                                     *)
(***************************************************************************)
FreeHandles == Handles \ alive
Malloced(h) == h \in FreeHandles /\ \A k \in FreeHandles : h <= k

HasBuffer(s) == buffer.valid /\ buffer.socket = s

\* Its result is not looked at: a connection may be left without a buffer.
MallocBuffer(s) ==
  buffer' = IF buffer.valid THEN buffer ELSE [buffer EXCEPT !.valid = TRUE, !.socket = s]

FreeBufferKeepsBytes(s) ==
  buffer' = IF HasBuffer(s) THEN [buffer EXCEPT !.valid = FALSE, !.socket = 0] ELSE buffer
FreeBuffer(s) ==
  buffer' = IF HasBuffer(s) THEN [valid |-> FALSE, socket |-> 0, from |-> None] ELSE buffer

(***************************************************************************)
(* The modules: a close is done, or is not answered and done or not.       *)
(***************************************************************************)
Close(s) ==
  \/ peer' = [peer EXCEPT ![s] = None] /\ UNCHANGED late
  \/ peer' = [peer EXCEPT ![s] = None] /\ late' = TRUE
  \/ UNCHANGED peer /\ late' = TRUE

DisconnectIfClosed(s) ==
  /\ Close(s)
  /\ alive' = IF IsGsm(s) /\ peer'[s] = None THEN alive \ {s - HandleBase} ELSE alive
  /\ FreeBuffer(s)
DisconnectQuietly(s) ==
  /\ UNCHANGED <<peer, late>>
  /\ alive' = IF IsGsm(s) THEN alive \ {s - HandleBase} ELSE alive
  /\ FreeBuffer(s)
Disconnect(s) ==
  /\ Close(s)
  /\ alive' = IF IsGsm(s) THEN alive \ {s - HandleBase} ELSE alive
  /\ FreeBuffer(s)

ServerCloses(s) ==
  /\ peer[s] # None
  /\ peer' = [peer EXCEPT ![s] = None]
  /\ UNCHANGED <<alive, buffer, late, pc, host, context, content, heap, rc, rsp, leaks>>

-----------------------------------------------------------------------------
(***************************************************************************)
(* A request.  context is a local variable: until connect succeeds its     *)
(* connected and handle have any value.                                    *)
(***************************************************************************)
Closed == [connected |-> FALSE, handle |-> 0]
Contexts == {Closed} \cup [connected : {TRUE}, handle : Sockets]

Begin(h) ==
  /\ pc = "idle"
  /\ pc' = "connect" /\ host' = h /\ rc' = "none" /\ rsp' = "old" /\ content' = 0
  /\ IF h = Ntp THEN context' = Closed /\ UNCHANGED heap
                ELSE context' \in Contexts /\ heap' = heap + 1
  /\ UNCHANGED <<poolVars, leaks>>

\* malloc of the buffer fails.
NoMemory ==
  /\ pc = "idle"
  /\ rc' = "error" /\ rsp' = "old"
  /\ UNCHANGED <<poolVars, pc, host, context, content, heap, leaks>>

Connected(s) ==
  /\ context' = [connected |-> TRUE, handle |-> s]
  /\ pc' = "send"
  /\ MallocBuffer(s)
  /\ UNCHANGED <<host, content, heap, rc, rsp, leaks>>

ConnectWifi ==
  /\ pc = "connect"
  /\ \E s \in WifiIds :
       /\ peer[s] = None
       /\ peer' = [peer EXCEPT ![s] = host]
       /\ Connected(s)
  /\ UNCHANGED <<alive, late>>

\* The wifi is not there or fails: what it may have opened nevertheless.
Opened(s) == IF peer[s] = None THEN [peer EXCEPT ![s] = host] ELSE peer
AfterWifi == {peer} \cup {Opened(s) : s \in WifiIds}

\* "ALREADY CONNECT" is as good as "CONNECT OK".
ConnectGsm ==
  /\ pc = "connect"
  /\ \E h \in Handles, p \in AfterWifi :
       LET s == HandleBase + h
       IN /\ Malloced(h) /\ alive' = alive \cup {h}
          /\ peer' = IF p[s] = None THEN [p EXCEPT ![s] = host] ELSE p
          /\ late' = (late \/ p # peer)
          /\ Connected(s)

\* Neither connects, or there is no handle: a connect that is not answered in
\* time may have been made.
ConnectFails ==
  /\ pc = "connect"
  /\ \E p \in AfterWifi :
       \/ peer' = p
       \/ \E h \in Handles : Malloced(h) /\ p[HandleBase + h] = None
                              /\ peer' = [p EXCEPT ![HandleBase + h] = host]
  /\ late' = (late \/ peer' # peer)
  /\ rc' = "error"
  /\ pc' = IF host = Ntp THEN "idle" ELSE "exit"
  /\ UNCHANGED <<alive, buffer, host, context, content, heap, rsp, leaks>>

-----------------------------------------------------------------------------
(***************************************************************************)
(* Sending and receiving.  socket_send returns the bytes it sent before    *)
(* its timeout, socket_recv what it read; without a buffer it can only     *)
(* fail, or time out before its first look.                                *)
(***************************************************************************)
Results == {"error", "zero", "positive"}

Fails(r) == rc' = r /\ pc' = "exit"
Keep == UNCHANGED <<poolVars, host, context, heap, leaks>>

CanRead == HasBuffer(context.handle) /\ {peer[context.handle], buffer.from} # {None}

\* A read leaves unread bytes of an earlier one, new ones, or none.
Read ==
  IF HasBuffer(context.handle)
    THEN \E f \in {None, buffer.from, peer[context.handle]} : buffer' = [buffer EXCEPT !.from = f]
    ELSE UNCHANGED buffer
KeepRead == UNCHANGED <<alive, peer, late, host, context, heap>>

SendHead ==
  /\ pc = "send" /\ host # Ntp
  /\ \/ pc' \in {"data", "head"} /\ UNCHANGED rc
     \/ \E r \in Results : Fails(r)
  /\ UNCHANGED <<content, rsp>> /\ Keep

SendData ==
  /\ pc = "data"
  /\ \/ pc' = "head" /\ UNCHANGED rc
     \/ \E r \in Results : Fails(r)
  /\ UNCHANGED <<content, rsp>> /\ Keep

\* Read byte by byte; a timeout, a head too long and one with neither a length
\* nor chunks are errors.
RecvHead ==
  /\ pc = "head"
  /\ \/ CanRead /\ pc' \in {"content", "chunk"} /\ UNCHANGED rc
     \/ Fails("error")
  /\ Read /\ KeepRead
  /\ UNCHANGED <<content, rsp, leaks>>

PartlyIsDone == Fails("zero")
Partly == Fails("positive")

\* All of it, which may be nothing, and nothing in time end alike.
RecvContent ==
  /\ pc = "content"
  /\ \/ Fails("zero") /\ rsp' \in {rsp, "own"}
     \/ CanRead /\ Partly /\ rsp' = "part"
     \/ Fails("error") /\ rsp' \in IF CanRead THEN {rsp, "part"} ELSE {rsp}
  /\ Read /\ KeepRead
  /\ UNCHANGED <<content, leaks>>

\* A response larger than its buffer: return -1, past the error handler.
RecvTooLarge ==
  /\ pc = "content" /\ leaks < MaxLeaks
  /\ pc' = "idle" /\ rc' = "error" /\ leaks' = leaks + 1
  /\ context' = Closed
  /\ UNCHANGED <<poolVars, host, content, heap, rsp>>

FitsExactly(n) == n <= RspSize - content
Fits(n) == n <= RspSize - content - 1

AddReplaces(n) == n  \* mutant: the size of a chunk is assigned, not added
Add(n) == content + n

RecvChunk ==
  /\ pc = "chunk" /\ CanRead
  /\ \E n \in 1 .. RspSize :
       /\ Fits(n)
       /\ content' = Add(n)
  /\ rsp' = "part"
  /\ Read /\ KeepRead
  /\ UNCHANGED <<pc, rc, leaks>>

LastChunk ==
  /\ pc = "chunk" /\ CanRead
  /\ Fails("zero") /\ rsp' = "own"
  /\ Read /\ KeepRead
  /\ UNCHANGED <<content, leaks>>

\* A bad or late chunk, or one that does not fit.
ChunkFails ==
  /\ pc = "chunk"
  /\ Fails("error")
  /\ rsp' \in IF CanRead THEN {rsp, "part"} ELSE {rsp}
  /\ Read /\ KeepRead
  /\ UNCHANGED <<content, leaks>>

\* err_handler, also the end of a request that succeeds.
Exit ==
  /\ pc = "exit"
  /\ heap' = heap - 1
  /\ IF context.connected THEN Disconnect(context.handle) ELSE UNCHANGED poolVars
  /\ pc' = "idle" /\ context' = Closed
  /\ UNCHANGED <<host, content, rc, rsp, leaks>>

-----------------------------------------------------------------------------
(***************************************************************************)
(* ntp_sync_time: every way out disconnects.                               *)
(***************************************************************************)
NtpSend ==
  /\ pc = "send" /\ host = Ntp
  /\ pc' = "ntp" /\ UNCHANGED <<content, rc, rsp>> /\ Keep

NtpSendFails ==
  /\ pc = "send" /\ host = Ntp
  /\ Disconnect(context.handle)
  /\ pc' = "idle" /\ rc' = "error" /\ context' = Closed
  /\ UNCHANGED <<host, content, heap, rsp, leaks>>

NtpRecv ==
  /\ pc = "ntp"
  /\ \/ CanRead /\ rc' = "zero" /\ rsp' = "own"
     \/ rc' = "error" /\ rsp' \in IF CanRead THEN {rsp, "part"} ELSE {rsp}
  /\ Disconnect(context.handle)
  /\ pc' = "idle" /\ context' = Closed
  /\ UNCHANGED <<host, content, heap, leaks>>

-----------------------------------------------------------------------------
Init ==
  /\ alive = {} /\ buffer = [valid |-> FALSE, socket |-> 0, from |-> None]
  /\ peer = [s \in Sockets |-> None] /\ late = FALSE
  /\ pc = "idle" /\ host = Ntp /\ context = Closed /\ content = 0
  /\ heap = 0 /\ rc = "none" /\ rsp = "old" /\ leaks = 0

Request ==
  \/ ConnectWifi \/ ConnectGsm \/ ConnectFails
  \/ SendHead \/ SendData \/ RecvHead \/ RecvContent \/ RecvTooLarge
  \/ RecvChunk \/ LastChunk \/ ChunkFails \/ Exit
  \/ NtpSend \/ NtpSendFails \/ NtpRecv

Next ==
  \/ \E h \in Servers : Begin(h)
  \/ NoMemory
  \/ Request
  \/ \E s \in Sockets : ServerCloses(s)

Spec == Init /\ [][Next]_vars
FairSpec == Spec /\ WF_vars(Request)

-----------------------------------------------------------------------------
(***************************************************************************)
(* Properties.                                                             *)
(***************************************************************************)

\* Types, in particular: a chunked response leaves room for the '\0' behind it.
TypeOK ==
  /\ alive \subseteq Handles
  /\ buffer \in [valid : BOOLEAN, socket : Sockets \cup {0}, from : Servers \cup {None}]
  /\ peer \in [Sockets -> Servers \cup {None}] /\ late \in BOOLEAN
  /\ pc \in {"idle", "connect", "send", "data", "head", "content", "chunk", "exit", "ntp"}
  /\ host \in Servers /\ context \in Contexts /\ content \in 0 .. RspSize - 1
  /\ heap \in Nat /\ rc \in Results \cup {"none"} /\ rsp \in {"old", "own", "part"}
  /\ leaks \in 0 .. MaxLeaks

\* Between two requests nothing is taken: every error path gives back the
\* handle, the buffer and the memory, also when the module does not answer.
\* The one way out that does not is a response larger than its buffer.
GivenBack ==
  pc = "idle" => heap = leaks /\ (leaks = 0 => alive = {} /\ ~buffer.valid)

Talking == pc \in {"send", "data", "head", "content", "chunk", "ntp"}

\* A request has the only buffer, its handle if it goes over gsm, and never
\* finds bytes of an earlier response in front of its own.
ReceivesItsOwn ==
  Talking /\ leaks = 0 /\ ~late =>
    /\ HasBuffer(context.handle) /\ buffer.from \in {None, host}
    /\ alive = {h \in Handles : HandleBase + h = context.handle}

\* As long as the modules answer in time a request talks to its own server,
\* although an open of a socket that is connected already counts as success.
OwnServer ==
  Talking /\ ~late => peer[context.handle] \in {None, host}

\* A response that was received in part is never returned as a success.
NoPartIsSuccess == pc = "idle" /\ rc = "zero" => rsp # "part"

\* A request that is told to have succeeded has received its response.  It does
\* not hold: section 3 of the README has the reason.
SuccessIsComplete == pc = "idle" /\ rc = "zero" => rsp = "own"

\* Every request ends, with any chunks the server sends: the full buffer ends it, without
\* the help of the timer of the whole request.
RequestEnds == pc # "idle" ~> pc = "idle"
=============================================================================
