------------------------------ MODULE WSClient ------------------------------
(***************************************************************************)
(* SwitchBeeWSClient (custom_components/ha_switchbee/switchbee_ws.py): one *)
(* WebSocket to the Central Unit (CU), a supervisor task that connects,    *)
(* logs in and backs off, a reader task that hands replies to the futures  *)
(* in _pending, stop(), and any number of concurrent commands, each with   *)
(* the INVALID_TOKEN -> re-LOGIN -> retry path of _request.                *)
(*                                                                         *)
(* The client runs on one event loop: a step below is the code between two *)
(* awaits.  Time is not modelled; a timer may fire once no answer can      *)
(* arrive any more, or earlier at the price of a fault (a late answer).    *)
(* Everything the environment does wrong costs one of MaxFaults.           *)
(***************************************************************************)
EXTENDS Naturals, FiniteSets

CONSTANTS Requests,      \* concurrent callers of _request, one command each
          Sup,           \* the supervisor, which also sends LOGIN
          MaxFaults,     \* bound: how often the environment misbehaves
          BackoffInit,   \* _backoff_initial
          BackoffCap,    \* _backoff_cap
          Backpressure   \* can send_str suspend in the transport's drain?

ASSUME SupAssumption == Sup \notin Requests
ASSUME FaultsAssumption == MaxFaults \in Nat
ASSUME BackoffAssumption == /\ BackoffInit \in Nat \ {0}
                            /\ BackoffCap \in Nat
                            /\ BackoffInit <= BackoffCap
ASSUME BackpressureAssumption == Backpressure \in BOOLEAN

VARIABLES
  starter,   \* start(): not called, waiting for _connected_event, over
  stopPc,    \* where stop() is; any value but "none" is _stop_requested
  sup,       \* the await at which _supervisor_loop is
  backoff,   \* its local delay
  ws,        \* _ws: NoConn or the number of its connection
  open,      \* connections whose client side is not closed
  conns,     \* connections made so far
  reader,    \* _reader_task
  token,     \* _token
  nextId,    \* _command_id_counter
  pending,   \* the keys of _pending
  pc,        \* per task: the await inside _send_and_wait or _request
  frame,     \* per task: the command it sent last
  fut,       \* per task: its future
  outcome,   \* per request: how _request ended
  up,        \* external: the CU's side of connection ws
  toCU,      \* external: frames in transit to the CU
  toClient,  \* external: replies in transit on connection ws
  valid,     \* external: does the CU still accept the last token issued?
  issued,    \* external: tokens issued so far
  executed,  \* external: how often the CU executed each request
  faults     \* faults used up

callVars == <<pc, frame, fut, pending, nextId, outcome>>
sockVars == <<ws, open, conns, reader, up>>
netVars  == <<toCU, toClient>>
cuVars   == <<valid, issued, executed>>
lifeVars == <<starter, stopPc, sup, backoff>>
vars == <<callVars, sockVars, netVars, cuVars, lifeVars, token, faults>>

Tasks   == Requests \cup {Sup}
NoConn  == 0
NoToken == 0

Kinds    == {"CMD", "RETRY", "LOGIN"}
Replies  == {"ok", "bad_token", "rejected"}
\* What _send_and_wait raises without waiting for a reply.
Raised   == {"closed", "no_token", "send_error"}
Futures  == {"none", "pending", "lost"} \cup Replies \cup Raised
Outcomes == (Futures \ {"pending"}) \cup {"timeout", "login_timeout", "cancelled"}
PcValues == {"idle", "sendq", "drain", "await", "lockq", "done"}
SupStates == {"off", "connect", "login", "fail_reader", "fail_close",
              "run", "exit_close", "sleep"}

NoFrame == [id |-> 0, kind |-> "CMD", tok |-> NoToken]
Future(st) == [st |-> st, tok |-> NoToken]

Minimum(a, b) == IF a <= b THEN a ELSE b

Frames == [id : Nat, kind : Kinds, tok : Nat]
Wires  == [conn : Nat, by : Tasks, id : Nat, kind : Kinds, tok : Nat]

CallsType ==
  /\ nextId \in Nat /\ pending \in SUBSET Nat
  /\ pc \in [Tasks -> PcValues]
  /\ frame \in [Tasks -> Frames]
  /\ fut \in [Tasks -> [st : Futures, tok : Nat]]
  /\ outcome \in [Requests -> Outcomes]

SocketType ==
  /\ ws \in Nat /\ conns \in Nat /\ open \in SUBSET Nat
  /\ reader \in {"none", "running", "cancelling", "done"}
  /\ up \in BOOLEAN

NetType ==
  /\ toCU \in SUBSET Wires
  /\ toClient \in SUBSET [id : Nat, st : Replies, tok : Nat]

CuType ==
  /\ valid \in BOOLEAN /\ issued \in Nat
  /\ executed \in [Requests -> Nat]

LifeType ==
  /\ starter \in {"idle", "waiting", "returned"}
  /\ stopPc \in {"none", "await_sup", "td_reader", "td_close", "stopped"}
  /\ sup \in SupStates
  /\ backoff \in BackoffInit .. BackoffCap

\* Every variable has its type; in particular the delay never leaves
\* _backoff_initial .. _backoff_cap.
TypeOK ==
  /\ CallsType /\ SocketType /\ NetType /\ CuType /\ LifeType
  /\ token \in Nat
  /\ faults \in 0 .. MaxFaults

Init ==
  /\ starter = "idle" /\ stopPc = "none" /\ sup = "off" /\ backoff = BackoffInit
  /\ ws = NoConn /\ open = {} /\ conns = 0 /\ reader = "none" /\ up = FALSE
  /\ token = NoToken /\ nextId = 1 /\ pending = {}
  /\ pc = [t \in Tasks |-> "idle"]
  /\ frame = [t \in Tasks |-> NoFrame]
  /\ fut = [t \in Tasks |-> Future("none")]
  /\ outcome = [r \in Requests |-> "none"]
  /\ toCU = {} /\ toClient = {}
  /\ valid = FALSE /\ issued = 0
  /\ executed = [r \in Requests |-> 0]
  /\ faults = 0

Fault == faults < MaxFaults /\ faults' = faults + 1

-----------------------------------------------------------------------------
(* Derived state *)

SocketOpen == ws \in open
StopRequested == stopPc # "none"
Waiting(t) == pc[t] \in {"sendq", "drain", "await"}

\* _send_lock is held across send_str only, and asyncio.Lock lets nobody pass
\* those who wait: a task that finds either kind has to queue.
SendLockHeld == \E t \in Tasks : pc[t] = "drain"
SendLockBusy == \E t \in Tasks : pc[t] \in {"sendq", "drain"}

\* _login_lock is held while a request waits for its own LOGIN.
LoginLockHeld == \E r \in Requests : Waiting(r) /\ frame[r].kind = "LOGIN"

\* SwitchBeeWSClient.connected
connected == SocketOpen /\ token # NoToken

-----------------------------------------------------------------------------
(* _send_and_wait *)

\* The write of a task's frame on connection c, alive iff isUp; the task then
\* waits for its reply, or first for the transport to drain.  A connection the
\* CU dropped swallows the frame or, seen by the transport, makes the send raise.
Transmit(t, f, c, isUp) ==
  /\ toCU' = IF isUp
               THEN toCU \cup {[conn |-> c, by |-> t, id |-> f.id,
                                kind |-> f.kind, tok |-> f.tok]}
               ELSE toCU
  /\ \/ pc' = [pc EXCEPT ![t] = "await"] /\ UNCHANGED faults
     \/ /\ (Backpressure /\ Fault) \/ (~isUp /\ UNCHANGED faults)
        /\ pc' = [pc EXCEPT ![t] = "drain"]

\* From the allocation of the id to the first await.
Register(t, kind, tok, c, isUp) ==
  LET f == [id |-> nextId, kind |-> kind, tok |-> tok] IN
  /\ nextId' = nextId + 1
  /\ pending' = pending \cup {nextId}
  /\ frame' = [frame EXCEPT ![t] = f]
  /\ fut' = [fut EXCEPT ![t] = Future("pending")]
  /\ IF SendLockBusy
       THEN pc' = [pc EXCEPT ![t] = "sendq"] /\ UNCHANGED <<toCU, faults>>
       ELSE Transmit(t, f, c, isUp)

\* An exception raised at once is a future that is already rejected.
RaiseAtOnce(t, kind, st) ==
  /\ frame' = [frame EXCEPT ![t] = [id |-> 0, kind |-> kind, tok |-> NoToken]]
  /\ fut' = [fut EXCEPT ![t] = Future(st)]
  /\ pc' = [pc EXCEPT ![t] = "await"]
  /\ UNCHANGED <<pending, toCU, faults>>

Issue(t, kind, tok) ==
  IF ~SocketOpen
    THEN RaiseAtOnce(t, kind, "closed") /\ UNCHANGED nextId
    ELSE IF kind # "LOGIN" /\ tok = NoToken
           THEN RaiseAtOnce(t, kind, "no_token") /\ nextId' = nextId + 1
           ELSE Register(t, kind, tok, ws, up)

\* The send lock comes free.  _ws is read only now: it may be None or closed
\* by then (the send raises) or a newer connection than the one checked.
SendQueued(t) ==
  /\ pc[t] = "sendq" /\ ~SendLockHeld
  /\ IF SocketOpen
       THEN Transmit(t, frame[t], ws, up) /\ UNCHANGED <<fut, pending>>
       ELSE /\ fut' = [fut EXCEPT ![t] = Future("send_error")]
            /\ pending' = pending \ {frame[t].id}
            /\ pc' = [pc EXCEPT ![t] = "await"]
            /\ UNCHANGED <<toCU, faults>>
  /\ UNCHANGED <<frame, nextId, outcome, sockVars, toClient, cuVars, lifeVars, token>>

Drained(t) ==
  /\ pc[t] = "drain"
  /\ pc' = [pc EXCEPT ![t] = "await"]
  /\ UNCHANGED <<frame, fut, pending, nextId, outcome, sockVars, netVars,
                 cuVars, lifeVars, token, faults>>

\* The connection dies while the transport drains: send_str raises.
DrainFails(t) ==
  /\ pc[t] = "drain" /\ ~(SocketOpen /\ up)
  /\ pc' = [pc EXCEPT ![t] = "await"]
  /\ fut' = [fut EXCEPT ![t] = Future("send_error")]
  /\ pending' = pending \ {frame[t].id}
  /\ UNCHANGED <<frame, nextId, outcome, sockVars, netVars, cuVars, lifeVars,
                 token, faults>>

-----------------------------------------------------------------------------
(* _teardown_connection, in three steps: reject and cancel; close the socket *)
(* once the reader has ended; forget it once close() has returned.           *)

RejectPending_DictOnly == pending' = {} /\ UNCHANGED fut

RejectPending ==
  /\ pending' = {}
  /\ fut' = [t \in Tasks |->
               IF Waiting(t) /\ frame[t].id \in pending /\ fut[t].st = "pending"
                 THEN Future("lost") ELSE fut[t]]

CloseSocket ==
  /\ reader' = "none"
  /\ open' = open \ {ws}
  /\ up' = FALSE
  /\ toClient' = {}
  /\ UNCHANGED <<ws, conns, toCU>>

\* A reader that still runs is cancelled and awaited, with the socket open.
CancelReader ==
  /\ reader' = "cancelling"
  /\ UNCHANGED <<ws, open, conns, up, netVars>>

-----------------------------------------------------------------------------
(* start() and _supervisor_loop *)

Start ==
  /\ starter = "idle"
  /\ starter' = "waiting" /\ sup' = "connect"
  /\ UNCHANGED <<stopPc, backoff, callVars, sockVars, netVars, cuVars, token, faults>>

Connect ==
  /\ sup = "connect"
  /\ conns' = conns + 1 /\ ws' = conns + 1
  /\ open' = open \cup {conns + 1}
  /\ up' = TRUE /\ reader' = "running" /\ toClient' = {}
  /\ Register(Sup, "LOGIN", NoToken, conns + 1, TRUE)
  /\ sup' = "login"
  /\ UNCHANGED <<starter, stopPc, backoff, outcome, cuVars, token>>

\* ws_connect raises; the teardown has no reader and no socket to wait for.
ConnectFails ==
  /\ sup = "connect" /\ Fault
  /\ RejectPending
  /\ sup' = "sleep"
  /\ UNCHANGED <<starter, stopPc, backoff, pc, frame, nextId, outcome, sockVars,
                 netVars, cuVars, token>>

SupLoginOk ==
  /\ sup = "login" /\ pc[Sup] = "await" /\ fut[Sup].st = "ok"
  /\ token' = fut[Sup].tok
  /\ starter' = IF starter = "waiting" THEN "returned" ELSE starter
  /\ backoff' = BackoffInit
  /\ sup' = "run"
  /\ pc' = [pc EXCEPT ![Sup] = "idle"]
  /\ UNCHANGED <<stopPc, frame, fut, pending, nextId, outcome, sockVars, netVars,
                 cuVars, faults>>

GiveUpLogin_NoTeardown ==
  /\ RejectPending
  /\ pc' = [pc EXCEPT ![Sup] = "idle"]
  /\ sup' = "sleep"
  /\ UNCHANGED <<starter, stopPc, backoff, frame, nextId, outcome, cuVars, token,
                 sockVars, netVars>>

GiveUpLogin ==
  /\ RejectPending
  /\ pc' = [pc EXCEPT ![Sup] = "idle"]
  /\ IF reader = "running"
       THEN CancelReader /\ sup' = "fail_reader"
       ELSE CloseSocket /\ sup' = "fail_close"
  /\ UNCHANGED <<starter, stopPc, backoff, frame, nextId, outcome, cuVars, token>>

SupLoginFails ==
  /\ sup = "login" /\ pc[Sup] = "await" /\ fut[Sup].st \notin {"pending", "ok"}
  /\ GiveUpLogin
  /\ UNCHANGED faults

\* No frame and no reply with the id of t is left that could still resolve t.
NoAnswerComing(t) ==
  /\ pc[t] = "await" /\ fut[t].st = "pending"
  /\ ~\E f \in toCU : f.id = frame[t].id /\ f.conn = ws /\ up
  /\ ~(reader = "running" /\ \E m \in toClient : m.id = frame[t].id)

\* A timer: for free when no answer can come, else the answer is late.
Expires(t) == IF NoAnswerComing(t) THEN UNCHANGED faults ELSE Fault

SupLoginTimeout_NoTimer == FALSE /\ UNCHANGED vars

\* The timer around LOGIN runs from before the send lock is taken, and wins
\* over a reply that arrived but was not looked at yet.
SupLoginTimeout ==
  /\ sup = "login" /\ Waiting(Sup) /\ fut[Sup].st \notin Raised
  /\ Expires(Sup)
  /\ GiveUpLogin

SupReaderGone ==
  /\ sup = "fail_reader" /\ reader = "done"
  /\ CloseSocket
  /\ sup' = "fail_close"
  /\ UNCHANGED <<starter, stopPc, backoff, callVars, cuVars, token, faults>>

AfterTeardown == IF StopRequested THEN "off" ELSE "sleep"

SupFailClosed_OneDrain ==
  /\ sup = "fail_close"
  /\ ws' = NoConn
  /\ sup' = AfterTeardown
  /\ UNCHANGED <<starter, stopPc, backoff, callVars, open, conns, reader, up,
                 netVars, cuVars, token, faults>>

\* The error then reaches _supervisor_loop, whose own teardown drains again.
SupFailClosed ==
  /\ sup = "fail_close"
  /\ RejectPending
  /\ ws' = NoConn
  /\ sup' = AfterTeardown
  /\ UNCHANGED <<starter, stopPc, backoff, pc, frame, nextId, outcome, open, conns,
                 reader, up, netVars, cuVars, token, faults>>

SupReaderExited ==
  /\ sup = "run" /\ reader = "done"
  /\ RejectPending
  /\ CloseSocket
  /\ sup' = "exit_close"
  /\ UNCHANGED <<starter, stopPc, backoff, pc, frame, nextId, outcome, cuVars,
                 token, faults>>

SupExitClosed ==
  /\ sup = "exit_close"
  /\ ws' = NoConn
  /\ sup' = AfterTeardown
  /\ UNCHANGED <<starter, stopPc, backoff, callVars, open, conns, reader, up,
                 netVars, cuVars, token, faults>>

NextBackoff_NoCap == backoff * 2

NextBackoff == Minimum(backoff * 2, BackoffCap)

SupWakes ==
  /\ sup = "sleep"
  /\ backoff' = NextBackoff
  /\ sup' = "connect"
  /\ UNCHANGED <<starter, stopPc, callVars, sockVars, netVars, cuVars, token, faults>>

-----------------------------------------------------------------------------
(* stop(): what cancelling the supervisor does depends on its await.  In     *)
(* "run" the cancellation goes to the reader first; in "fail_reader" the     *)
(* teardown swallows it; while a socket closes it escapes and leaves ws set. *)

Stop_SupervisorForgotten ==
  /\ stopPc = "none" /\ starter # "idle"
  /\ RejectPending
  /\ IF ws = NoConn
       THEN stopPc' = "stopped" /\ UNCHANGED <<sockVars, netVars>>
       ELSE stopPc' = "td_close" /\ CloseSocket
  /\ UNCHANGED <<starter, sup, backoff, pc, frame, nextId, outcome, cuVars, token,
                 faults>>

\* A start() that still waits for _connected_event goes on waiting.
Stop ==
  /\ stopPc = "none" /\ starter # "idle"
  /\ stopPc' = "await_sup"
  /\ sup' = IF sup \in {"run", "fail_reader"} THEN sup ELSE "off"
  /\ reader' = IF sup = "run" /\ reader = "running" THEN "cancelling" ELSE reader
  /\ pc' = IF sup = "login" THEN [pc EXCEPT ![Sup] = "idle"] ELSE pc
  /\ UNCHANGED <<starter, backoff, frame, fut, pending, nextId, outcome, ws, open,
                 conns, up, netVars, cuVars, token, faults>>

StopTeardown_SupervisorNotAwaited ==
  /\ stopPc = "await_sup"
  /\ RejectPending
  /\ \/ /\ reader = "running"
        /\ CancelReader /\ stopPc' = "td_reader"
     \/ /\ reader # "running" /\ ws # NoConn
        /\ CloseSocket /\ stopPc' = "td_close"
     \/ /\ reader # "running" /\ ws = NoConn
        /\ stopPc' = "stopped" /\ UNCHANGED <<sockVars, netVars>>
  /\ UNCHANGED <<starter, sup, backoff, pc, frame, nextId, outcome, cuVars, token,
                 faults>>

StopTeardown ==
  /\ stopPc = "await_sup" /\ sup = "off"
  /\ RejectPending
  /\ \/ /\ reader = "running"
        /\ CancelReader /\ stopPc' = "td_reader"
     \/ /\ reader # "running" /\ ws # NoConn
        /\ CloseSocket /\ stopPc' = "td_close"
     \/ /\ reader # "running" /\ ws = NoConn
        /\ stopPc' = "stopped" /\ UNCHANGED <<sockVars, netVars>>
  /\ UNCHANGED <<starter, sup, backoff, pc, frame, nextId, outcome, cuVars, token,
                 faults>>

StopReaderGone ==
  /\ stopPc = "td_reader" /\ reader = "done"
  /\ CloseSocket
  /\ stopPc' = "td_close"
  /\ UNCHANGED <<starter, sup, backoff, callVars, cuVars, token, faults>>

StopClosed ==
  /\ stopPc = "td_close"
  /\ ws' = NoConn
  /\ stopPc' = "stopped"
  /\ UNCHANGED <<starter, sup, backoff, callVars, open, conns, reader, up, netVars,
                 cuVars, token, faults>>

-----------------------------------------------------------------------------
(* _reader_loop and _dispatch_text *)

Dispatch_ToAnyWaiter(m) ==
  /\ reader = "running"
  /\ toClient' = toClient \ {m}
  /\ pending' = pending \ {m.id}
  /\ fut' = [t \in Tasks |-> IF Waiting(t) /\ fut[t].st = "pending"
                              THEN [st |-> m.st, tok |-> m.tok] ELSE fut[t]]
  /\ UNCHANGED <<pc, frame, nextId, outcome, sockVars, toCU, cuVars, lifeVars,
                 token, faults>>

\* A reply without a waiter (its id is not in _pending) is dropped.
Dispatch(m) ==
  /\ reader = "running"
  /\ toClient' = toClient \ {m}
  /\ pending' = pending \ {m.id}
  /\ fut' = [t \in Tasks |->
               IF /\ Waiting(t) /\ fut[t].st = "pending"
                  /\ frame[t].id = m.id /\ m.id \in pending
                 THEN [st |-> m.st, tok |-> m.tok] ELSE fut[t]]
  /\ UNCHANGED <<pc, frame, nextId, outcome, sockVars, toCU, cuVars, lifeVars,
                 token, faults>>

\* The CU closed the connection; replies not read by then are lost.
ReaderExits ==
  /\ reader = "running" /\ ~up
  /\ reader' = "done" /\ open' = open \ {ws} /\ toClient' = {}
  /\ UNCHANGED <<ws, conns, up, toCU, callVars, cuVars, lifeVars, token, faults>>

\* A frame the dispatcher raises on ends the reader, the socket stays open.
ReaderDies ==
  /\ reader = "running" /\ Fault
  /\ reader' = "done"
  /\ UNCHANGED <<ws, open, conns, up, netVars, callVars, cuVars, lifeVars, token>>

ReaderCancelled ==
  /\ reader = "cancelling"
  /\ reader' = "done"
  /\ UNCHANGED <<ws, open, conns, up, netVars, callVars, cuVars, lifeVars, token,
                 faults>>

-----------------------------------------------------------------------------
(* _request *)

\* The client is handed out only once start() has returned.
Call(r) ==
  /\ starter = "returned" /\ pc[r] = "idle"
  /\ Issue(r, "CMD", token)
  /\ UNCHANGED <<outcome, sockVars, toClient, cuVars, lifeVars, token>>

\* The call is over; its frame and its future are not looked at any more.
Finish(r, o) ==
  /\ pc' = [pc EXCEPT ![r] = "done"]
  /\ outcome' = [outcome EXCEPT ![r] = o]
  /\ frame' = [frame EXCEPT ![r] = NoFrame]
  /\ fut' = [fut EXCEPT ![r] = Future("none")]
  /\ UNCHANGED <<nextId, sockVars, netVars, cuVars, lifeVars>>

Relogs_AlsoWhenLost(r) == frame[r].kind = "CMD" /\ fut[r].st \in {"bad_token", "lost"}

\* The first INVALID_TOKEN of a call leads to a re-LOGIN.
Relogs(r) == frame[r].kind = "CMD" /\ fut[r].st = "bad_token"

Retries(r) == frame[r].kind = "LOGIN" /\ fut[r].st = "ok"

TokenRefused(r) ==
  /\ pc[r] = "await" /\ Relogs(r)
  /\ pc' = [pc EXCEPT ![r] = "lockq"]
  /\ UNCHANGED <<frame, fut, pending, nextId, outcome, sockVars, netVars, cuVars,
                 lifeVars, token, faults>>

Relogin_KeepsCachedToken(r) ==
  /\ pc[r] = "lockq" /\ ~LoginLockHeld
  /\ UNCHANGED token
  /\ IF token = NoToken THEN Issue(r, "LOGIN", NoToken) ELSE Issue(r, "RETRY", token)
  /\ UNCHANGED <<outcome, sockVars, toClient, cuVars, lifeVars>>

Relogin(r) ==
  /\ pc[r] = "lockq" /\ ~LoginLockHeld
  /\ token' = NoToken
  /\ Issue(r, "LOGIN", NoToken)
  /\ UNCHANGED <<outcome, sockVars, toClient, cuVars, lifeVars>>

Retry_TokenNotCached(r) ==
  /\ pc[r] = "await" /\ Retries(r)
  /\ Issue(r, "RETRY", fut[r].tok)
  /\ UNCHANGED <<token, outcome, sockVars, toClient, cuVars, lifeVars>>

Retry(r) ==
  /\ pc[r] = "await" /\ Retries(r)
  /\ token' = fut[r].tok
  /\ Issue(r, "RETRY", fut[r].tok)
  /\ UNCHANGED <<outcome, sockVars, toClient, cuVars, lifeVars>>

Return(r) ==
  /\ pc[r] = "await" /\ fut[r].st # "pending" /\ ~Relogs(r) /\ ~Retries(r)
  /\ Finish(r, fut[r].st)
  /\ UNCHANGED <<pending, token, faults>>

CommandTimeout_NoTimer(r) == FALSE /\ UNCHANGED vars

CommandTimeout_KeepsEntry(r) ==
  /\ pc[r] = "await" /\ frame[r].kind # "LOGIN" /\ fut[r].st \notin Raised
  /\ Expires(r)
  /\ Finish(r, "timeout")
  /\ UNCHANGED <<pending, token>>

CommandTimeout(r) ==
  /\ pc[r] = "await" /\ frame[r].kind # "LOGIN" /\ fut[r].st \notin Raised
  /\ Expires(r)
  /\ pending' = pending \ {frame[r].id}
  /\ Finish(r, "timeout")
  /\ UNCHANGED token

\* The outer timer of the re-LOGIN cancels _send_and_wait, which then leaves
\* its entry in _pending and releases whatever lock it holds.
ReloginTimeout(r) ==
  /\ Waiting(r) /\ frame[r].kind = "LOGIN" /\ fut[r].st \notin Raised
  /\ Expires(r)
  /\ Finish(r, "login_timeout")
  /\ UNCHANGED <<pending, token>>

\* The caller's own task is cancelled (the poll task on shutdown, a service).
Cancel(r) ==
  /\ \/ Waiting(r) /\ fut[r].st \notin Raised
     \/ pc[r] = "lockq"
  /\ Finish(r, "cancelled")
  /\ UNCHANGED <<pending, token, faults>>

-----------------------------------------------------------------------------
(* The Central Unit (external), as the client sees it; tests/fake_cu.py is a *)
(* deterministic one.  Frames of a closed connection may still be processed, *)
(* their replies go nowhere.                                                 *)

Reply(f, st, tok) ==
  toClient' = IF f.conn = ws /\ up
                THEN toClient \cup {[id |-> f.id, st |-> st, tok |-> tok]}
                ELSE toClient

Executes(f) ==
  executed' = [executed EXCEPT ![f.by] = @ + 1]

TokenValid(tok) == valid /\ tok = issued

CuVarsKept == UNCHANGED <<callVars, sockVars, lifeVars, token>>

\* LOGIN: the token in force, or a fresh one.
CuLogsIn(f) ==
  /\ f.kind = "LOGIN"
  /\ toCU' = toCU \ {f}
  /\ valid' = TRUE
  /\ issued' = IF valid THEN issued ELSE issued + 1
  /\ Reply(f, "ok", IF valid THEN issued ELSE issued + 1)
  /\ CuVarsKept /\ UNCHANGED <<executed, faults>>

CuExecutes(f) ==
  /\ f.kind # "LOGIN" /\ TokenValid(f.tok)
  /\ toCU' = toCU \ {f}
  /\ Executes(f)
  /\ Reply(f, "ok", NoToken)
  /\ CuVarsKept /\ UNCHANGED <<valid, issued, faults>>

CuRefusesToken(f) ==
  /\ f.kind # "LOGIN" /\ ~TokenValid(f.tok)
  /\ toCU' = toCU \ {f}
  /\ Reply(f, "bad_token", NoToken)
  /\ CuVarsKept /\ UNCHANGED <<valid, issued, executed, faults>>

CuRejects(f) ==
  /\ Fault
  /\ toCU' = toCU \ {f}
  /\ Reply(f, "rejected", NoToken)
  /\ CuVarsKept /\ UNCHANGED <<valid, issued, executed>>

\* No reply at all, whether or not the command was executed.
CuSilent(f) ==
  /\ Fault
  /\ toCU' = toCU \ {f}
  /\ \/ f.kind # "LOGIN" /\ TokenValid(f.tok) /\ Executes(f)
     \/ UNCHANGED executed
  /\ CuVarsKept /\ UNCHANGED <<toClient, valid, issued>>

\* The token expires, or somebody else's LOGIN replaces it.
CuForgetsToken ==
  /\ valid /\ Fault
  /\ valid' = FALSE
  /\ CuVarsKept /\ UNCHANGED <<netVars, issued, executed>>

\* The connection drops; what the CU has not processed it never will.
CuDrops ==
  /\ up /\ Fault
  /\ up' = FALSE
  /\ toCU' = {f \in toCU : f.conn # ws}
  /\ UNCHANGED <<ws, open, conns, reader, toClient, callVars, lifeVars, token, cuVars>>

-----------------------------------------------------------------------------
SupStep == \/ Connect \/ SupLoginOk \/ SupLoginFails
           \/ SupReaderGone \/ SupFailClosed \/ SupReaderExited \/ SupExitClosed
           \/ SupWakes

StopStep == StopTeardown \/ StopReaderGone \/ StopClosed

ReaderStep == (\E m \in toClient : Dispatch(m)) \/ ReaderExits \/ ReaderCancelled

SendStep(t) == SendQueued(t) \/ Drained(t) \/ DrainFails(t)

RequestStep(r) == TokenRefused(r) \/ Relogin(r) \/ Retry(r) \/ Return(r)

TimeoutStep(r) == CommandTimeout(r) \/ ReloginTimeout(r)

CuAnswers == \E f \in toCU : CuLogsIn(f) \/ CuExecutes(f) \/ CuRefusesToken(f)

CuFaults == \/ \E f \in toCU : CuRejects(f) \/ CuSilent(f)
            \/ CuForgetsToken \/ CuDrops

Next == \/ Start \/ Stop \/ SupStep \/ SupLoginTimeout \/ ConnectFails
        \/ StopStep \/ ReaderStep \/ ReaderDies
        \/ \E t \in Tasks : SendStep(t)
        \/ \E r \in Requests : Call(r) \/ RequestStep(r) \/ TimeoutStep(r) \/ Cancel(r)
        \/ CuAnswers \/ CuFaults

Spec == Init /\ [][Next]_vars

(* Every task of the loop runs on, its timers fire once the answer cannot    *)
(* come, and the CU answers what reaches it unless it spends a fault.        *)
Fairness ==
  /\ WF_vars(SupStep) /\ WF_vars(StopStep) /\ WF_vars(ReaderStep) /\ WF_vars(CuAnswers)
  /\ WF_vars(SupLoginTimeout /\ NoAnswerComing(Sup))
  /\ \A t \in Tasks : WF_vars(SendStep(t))
  /\ \A r \in Requests : /\ WF_vars(RequestStep(r))
                         /\ WF_vars(TimeoutStep(r) /\ NoAnswerComing(r))

FairSpec == Spec /\ WF_vars(Start) /\ Fairness

-----------------------------------------------------------------------------
(* Properties *)

\* A task that waits on an unresolved future still has its id in _pending:
\* a late reply or the next teardown finds it, whatever commands, timeouts,
\* re-LOGINs and reconnects come between (_send_and_wait, _dispatch_text,
\* _teardown_connection).
WaiterResolvable ==
  \A t \in Tasks : Waiting(t) /\ fut[t].st = "pending" => frame[t].id \in pending

\* The client never loses track of an open socket: the only one open is _ws,
\* through reconnects, failing LOGINs and stop() at any await of the
\* supervisor (_connect_and_login, _teardown_connection).
NoLeakedSocket == open \subseteq {ws} /\ NoConn \notin open

\* The tokens the CU has forgotten so far.
Forgotten == IF valid THEN issued - 1 ELSE issued

\* One expiry of the token fails no command that was sent: however many commands
\* are refused at once, wait for the re-LOGIN lock, log in beside the supervisor
\* and overwrite each other's _token, a retry is refused only if the CU has
\* forgotten a second token.  A command turned away without being sent, for want
\* of a token, was called after the CU had forgotten one (_request).
RefusalNeedsExpiry ==
  \A r \in Requests : /\ outcome[r] = "bad_token" => Forgotten >= 2
                      /\ outcome[r] = "no_token" => Forgotten >= 1

\* The retry of _request never executes a command twice, whatever is lost,
\* late or cancelled, and whichever connection its frames went out on.
AtMostOnceExecuted == \A r \in Requests : executed[r] <= 1

\* When stop() has returned, the supervisor has ended, the reader has ended
\* and every socket is closed, whatever they were doing when it was called.
StoppedMeansDown ==
  stopPc = "stopped" => sup = "off" /\ reader = "none" /\ ws = NoConn /\ open = {}

\* _pending holds what is waited for and little else: an entry whose task has
\* gone was left by a cancelled command, a re-LOGIN that timed out or a LOGIN
\* that stop() cut short, at most one by each and none by a command that ended
\* of itself (_send_and_wait, _teardown_connection).
PendingBounded ==
  Cardinality(pending \ {frame[t].id : t \in {u \in Tasks : Waiting(u)}})
    <= Cardinality({r \in Requests : outcome[r] \in {"cancelled", "login_timeout"}})
       + (IF stopPc = "await_sup" THEN 1 ELSE 0)

\* After stop() nothing is sent and no socket is opened any more, by the
\* commands that still wait for the send lock or the re-LOGIN either.
StopIsFinal ==
  [][stopPc = "stopped" =>
       toCU' \subseteq toCU /\ open' = {} /\ stopPc' = "stopped"]_vars

\* A call as its caller sees it: what it reports is true of the CU.
Calls == INSTANCE CommandCalls
           WITH Callers <- Requests,
                phase   <- [r \in Requests |->
                              IF pc[r] \in {"idle", "done"} THEN pc[r] ELSE "pending"],
                effects <- executed,
                result  <- outcome

\* The client implements CommandCalls: "ok" is reported only after the CU has
\* executed the command, and a reported refusal means it never was and never
\* will be executed, even by a frame that is still under way.
ImplementsCalls == Calls!Spec

\* The connection as the users of the client see it.
Connection == INSTANCE Connection
                WITH Callers <- Requests,
                     link    <- IF ~SocketOpen THEN "down"
                                ELSE IF sup = "run" THEN "up" ELSE "login",
                     token   <- token # NoToken,
                     waiting <- {r \in Requests : Waiting(r) /\ fut[r].st = "pending"}

\* The client implements Connection: a new connection is made only when nobody
\* waits for a reply on the last one, and one that was logged in has to go before
\* the supervisor sends another LOGIN.
ImplementsConnection == Connection!Spec

\* Every command ends: by its reply, its timer, the loss of the connection or
\* a failed re-LOGIN, never waiting for a lock or a future for ever.
CallsEnd ==
  \A r \in Requests : Waiting(r) \/ pc[r] = "lockq" ~> pc[r] = "done"

\* Logged in, with a token, on an open socket that the supervisor watches.
Serving == connected /\ sup = "run" /\ ~StopRequested

\* The socket is open and the supervisor content, but there is no token, and no
\* LOGIN is outstanding or about to be sent: every command is turned away until
\* the connection is lost.
Wedged ==
  /\ SocketOpen /\ sup = "run" /\ ~StopRequested
  /\ token = NoToken
  /\ ~\E r \in Requests : pc[r] = "lockq" \/ (Waiting(r) /\ frame[r].kind = "LOGIN")

\* Whatever fails - connects, LOGINs, the reader, teardowns - the client comes
\* back to serving with a token or, what ws_wedge is about, is left wedged; and
\* once stop() is called, from wherever it cancels the supervisor, stop()
\* returns: nothing hangs in between (start, _supervisor_loop,
\* _teardown_connection, stop).
ServesOrStops == []<>(Serving \/ Wedged \/ stopPc = "stopped")

\* A command that was refused ends before its re-LOGIN brought a token.
ReloginGivenUp ==
  \E r \in Requests : /\ pc[r] = "lockq" \/ frame[r].kind = "LOGIN"
                      /\ pc'[r] = "done"

\* There is one way into the wedge: a re-LOGIN that is given up, by its timer, by
\* cancellation or by an error.  No LOGIN of the supervisor, no reconnect and no
\* other command leads there (_request, _connect_and_login).
WedgedByRelogin == [][~Wedged /\ Wedged' => ReloginGivenUp]_vars

-----------------------------------------------------------------------------
(* What the source says and the code does not do; each is refuted by a run. *)

\* "On LOGIN timeout, the WS is closed ... and retries": a token is had again.
LoginTimeoutRecovers ==
  (\E r \in Requests : outcome[r] = "login_timeout")
    ~> token # NoToken \/ StopRequested

=============================================================================
