-------------------------- MODULE WSConnectionProofs --------------------------
(***************************************************************************)
(* WSClient implements Connection, for any number of callers, faults and   *)
(* reconnects.                                                             *)
(***************************************************************************)
EXTENDS WSClientProofs

-----------------------------------------------------------------------------
(* The refinement mapping, as ImplementsConnection has it, and the invariant *)

Waiters == {r \in Requests : Waiting(r) /\ fut[r].st = "pending"}

Link == IF ~SocketOpen THEN "down" ELSE IF sup = "run" THEN "up" ELSE "login"

\* Once a teardown is over, or none was needed yet, nobody waits for a reply:
\* the next connection starts without waiters of the last.
WaitersInv ==
  sup \in {"connect", "sleep", "exit_close"} \/ starter = "idle" => Waiters = {}

\* The answer to the LOGIN of the supervisor brings a token.
LoginInv ==
  /\ valid => issued # 0
  /\ Waiting(Sup) => frame[Sup].kind = "LOGIN"
  /\ Waiting(Sup) /\ fut[Sup].st = "ok" => fut[Sup].tok # NoToken
  /\ \A m \in toClient : Waiting(Sup) /\ m.id = frame[Sup].id /\ m.st = "ok"
                           => m.tok # NoToken

ConnectionInv == InductiveInv /\ WaitersInv /\ LoginInv

-----------------------------------------------------------------------------
(* Who waits *)

LEMMA TaskSets == Requests \subseteq Tasks /\ Sup \in Tasks /\ Sup \notin Requests
BY SupAssumption DEF Tasks

\* A closed socket takes no new waiter.
LEMMA WaitersShrink ==
  ASSUME TypeOK, ~SocketOpen, [Next]_vars
  PROVE  Waiters' \subseteq Waiters
<1> USE TaskSets DEF Waiters, Waiting
<1>0. pc \in [Tasks -> PcValues] /\ DOMAIN fut = Tasks
  BY DEF TypeOK, CallsType
<1>1. ASSUME UNCHANGED <<pc, fut>> PROVE Waiters' \subseteq Waiters
  BY <1>1
<1>2. ASSUME RejectPending, pc' = pc \/ pc' = [pc EXCEPT ![Sup] = "idle"]
      PROVE  Waiters' \subseteq Waiters
  BY <1>0, <1>2 DEF RejectPending, Future
<1>3. ASSUME NEW r \in Requests, NEW kind, NEW tok, Issue(r, kind, tok)
      PROVE  Waiters' \subseteq Waiters
  BY <1>0, <1>3 DEF Issue, RaiseAtOnce, Future
<1>4. ASSUME NEW r \in Requests, NEW o, Finish(r, o) PROVE Waiters' \subseteq Waiters
  BY <1>0, <1>4 DEF Finish
<1>5. CASE Connect
  BY <1>0, <1>5 DEF Connect, Register, Transmit
<1>6. CASE SupLoginOk \/ Stop
  BY <1>0, <1>6 DEF SupLoginOk, Stop
<1>7. CASE ConnectFails \/ SupLoginFails \/ SupLoginTimeout \/ SupFailClosed
           \/ SupReaderExited \/ StopTeardown
  BY <1>2, <1>7 DEF ConnectFails, SupLoginFails, SupLoginTimeout, GiveUpLogin,
     SupFailClosed, SupReaderExited, StopTeardown
<1>8. ASSUME NEW m \in toClient, Dispatch(m) PROVE Waiters' \subseteq Waiters
  BY <1>0, <1>8 DEF Dispatch
<1>9. ASSUME NEW t \in Tasks, SendStep(t) PROVE Waiters' \subseteq Waiters
  BY <1>0, <1>9 DEF SendStep, SendQueued, Drained, DrainFails, Future
<1>10. ASSUME NEW r \in Requests, Call(r) \/ Relogin(r) \/ Retry(r)
       PROVE  Waiters' \subseteq Waiters
  BY <1>3, <1>10 DEF Call, Relogin, Retry
<1>11. ASSUME NEW r \in Requests, TokenRefused(r) PROVE Waiters' \subseteq Waiters
  BY <1>0, <1>11 DEF TokenRefused
<1>12. ASSUME NEW r \in Requests, Return(r) \/ TimeoutStep(r) \/ Cancel(r)
       PROVE  Waiters' \subseteq Waiters
  BY <1>4, <1>12 DEF Return, TimeoutStep, CommandTimeout, ReloginTimeout, Cancel
<1>13. CASE \/ Start \/ SupReaderGone \/ SupExitClosed \/ SupWakes
            \/ StopReaderGone \/ StopClosed \/ ReaderExits \/ ReaderCancelled
            \/ ReaderDies \/ CuAnswers \/ CuFaults \/ UNCHANGED vars
  BY <1>1, <1>13 DEF Start, SupReaderGone, SupExitClosed, SupWakes, StopReaderGone,
     StopClosed, ReaderExits, ReaderCancelled, ReaderDies, CuAnswers, CuFaults, CuLogsIn,
     CuExecutes, CuRefusesToken, CuRejects, CuSilent, CuForgetsToken, CuDrops,
     CuVarsKept, callVars, vars
<1> QED
  BY <1>5, <1>6, <1>7, <1>8, <1>9, <1>10, <1>11, <1>12, <1>13
     DEF Next, SupStep, StopStep, ReaderStep, RequestStep

\* A teardown that rejects leaves nobody waiting, since every waiter is in _pending.
LEMMA WaitersRejected ==
  ASSUME WaiterResolvable, RejectPending, pc \in [Tasks -> PcValues],
         pc' = pc \/ pc' = [pc EXCEPT ![Sup] = "idle"]
  PROVE  Waiters' = {}
BY TaskSets DEF WaiterResolvable, RejectPending, Waiters, Waiting, Future

LEMMA WaitersNext ==
  ASSUME TypeOK, SocketInv, WaiterResolvable, WaitersInv, [Next]_vars
  PROVE  WaitersInv'
<1> DEFINE Quiet == sup \in {"connect", "sleep", "exit_close"} \/ starter = "idle"
<1>1. Quiet => ~SocketOpen /\ Waiters = {}
  BY DEF WaitersInv, SocketInv, SocketOpen
<1>2. ASSUME Quiet PROVE Waiters' = {}
  BY <1>1, <1>2, WaitersShrink
<1>3. ASSUME ~Quiet, Quiet' PROVE Waiters' = {}
  <2>1. CASE ConnectFails \/ SupFailClosed \/ SupReaderExited
    BY <2>1, WaitersRejected DEF ConnectFails, SupFailClosed, SupReaderExited, TypeOK,
       CallsType
  <2>2. CASE Start \/ SupExitClosed \/ SupWakes
    BY <1>3, <2>2 DEF Start, SupExitClosed, SupWakes
  <2>3. CASE Connect \/ SupLoginOk \/ SupLoginFails \/ SupLoginTimeout \/ SupReaderGone
             \/ Stop \/ StopStep
    BY <1>3, <2>3 DEF Connect, SupLoginOk, SupLoginFails, SupLoginTimeout, GiveUpLogin,
       SupReaderGone, Stop, StopStep, StopTeardown, StopReaderGone, StopClosed
  <2>4. CASE UNCHANGED lifeVars
    BY <1>3, <2>4 DEF lifeVars
  <2>5. CASE \/ ReaderStep \/ ReaderDies \/ \E t \in Tasks : SendStep(t)
             \/ \E r \in Requests : Call(r) \/ RequestStep(r) \/ TimeoutStep(r) \/ Cancel(r)
             \/ CuAnswers \/ CuFaults \/ UNCHANGED vars
    BY <2>4, <2>5 DEF ReaderStep, Dispatch, ReaderExits, ReaderCancelled, ReaderDies,
       SendStep, SendQueued, Drained, DrainFails, RequestStep, Call, TokenRefused,
       Relogin, Retry, Return, TimeoutStep, CommandTimeout, ReloginTimeout, Cancel,
       Finish, CuAnswers, CuFaults, CuLogsIn, CuExecutes, CuRefusesToken, CuRejects,
       CuSilent, CuForgetsToken, CuDrops, CuVarsKept, vars
  <2> QED
    BY <2>1, <2>2, <2>3, <2>5 DEF Next, SupStep
<1> QED
  BY <1>2, <1>3 DEF WaitersInv

-----------------------------------------------------------------------------
(* The LOGIN of the supervisor *)

\* Most steps leave that LOGIN alone or end it.
LEMMA LoginKept ==
  ASSUME LoginInv, UNCHANGED <<valid, issued>>, toClient' \subseteq toClient,
         Waiting(Sup)' => /\ Waiting(Sup) /\ frame'[Sup] = frame[Sup]
                          /\ fut'[Sup] = fut[Sup] \/ fut'[Sup].st # "ok"
  PROVE  LoginInv'
BY DEF LoginInv

LEMMA LoginNext == ASSUME TypeOK, IdInv, LoginInv, [Next]_vars PROVE LoginInv'
<1> USE TaskSets
<1>0. /\ pc \in [Tasks -> PcValues] /\ DOMAIN fut = Tasks /\ DOMAIN frame = Tasks
      /\ issued \in Nat
  BY DEF TypeOK, CallsType, CuType
<1>1. CASE Start \/ SupWakes \/ SupExitClosed \/ SupReaderGone \/ StopReaderGone
           \/ StopClosed \/ ReaderExits \/ ReaderCancelled \/ ReaderDies
  <2>1. UNCHANGED <<callVars, valid, issued>> /\ toClient' \subseteq toClient
    BY <1>1 DEF Start, SupWakes, SupExitClosed, SupReaderGone, StopReaderGone, StopClosed,
       ReaderExits, ReaderCancelled, ReaderDies, CloseSocket, netVars, cuVars
  <2> QED
    BY <2>1, LoginKept DEF callVars, Waiting
<1>2. CASE Connect
  <2>1. /\ toClient' = {} /\ frame'[Sup].kind = "LOGIN" /\ fut'[Sup].st = "pending"
        /\ UNCHANGED <<valid, issued>>
    BY <1>0, <1>2 DEF Connect, Register, Future, cuVars
  <2> QED
    BY <2>1 DEF LoginInv
<1>3. CASE ConnectFails \/ SupLoginFails \/ SupLoginTimeout \/ SupFailClosed
           \/ SupReaderExited \/ StopTeardown
  <2>1. /\ RejectPending /\ UNCHANGED <<valid, issued, frame>> /\ toClient' \subseteq toClient
        /\ pc' = pc \/ pc' = [pc EXCEPT ![Sup] = "idle"]
    BY <1>3 DEF ConnectFails, SupLoginFails, SupLoginTimeout, GiveUpLogin, SupFailClosed,
       SupReaderExited, StopTeardown, CloseSocket, CancelReader, netVars, cuVars
  <2>2. fut'[Sup] = fut[Sup] \/ fut'[Sup].st # "ok"
    BY <2>1 DEF RejectPending, Future
  <2> QED
    BY <1>0, <2>1, <2>2, LoginKept DEF Waiting
<1>4. CASE SupLoginOk \/ Stop
  BY <1>0, <1>4, LoginKept DEF SupLoginOk, Stop, netVars, cuVars, Waiting
<1>5. ASSUME NEW m \in toClient, Dispatch(m) PROVE LoginInv'
  <2>1. UNCHANGED <<valid, issued, pc, frame>> /\ toClient' \subseteq toClient
    BY <1>5 DEF Dispatch, cuVars
  <2>2. CASE fut'[Sup] = fut[Sup]
    BY <2>1, <2>2, LoginKept DEF Waiting
  <2>3. CASE fut'[Sup] # fut[Sup]
    <3>1. fut'[Sup].st = m.st /\ fut'[Sup].tok = m.tok /\ m.id = frame[Sup].id
      BY <1>5, <2>3 DEF Dispatch
    <3> QED
      BY <2>1, <3>1 DEF LoginInv, Waiting
  <2> QED
    BY <2>2, <2>3
<1>6. ASSUME NEW t \in Tasks, SendStep(t) PROVE LoginInv'
  <2>1. /\ UNCHANGED <<valid, issued, frame, toClient>>
        /\ Waiting(t)
        /\ fut' = fut \/ fut' = [fut EXCEPT ![t] = Future("send_error")]
        /\ \E p \in {"drain", "await"} : pc' = [pc EXCEPT ![t] = p]
    BY <1>6 DEF SendStep, SendQueued, Drained, DrainFails, Transmit, Waiting, netVars, cuVars
  <2> QED
    BY <1>0, <2>1, LoginKept DEF Waiting, Future
<1>7. ASSUME NEW r \in Requests, Call(r) \/ RequestStep(r) \/ TimeoutStep(r) \/ Cancel(r)
      PROVE  LoginInv'
  <2>1. ASSUME NEW kind, NEW tok, Issue(r, kind, tok)
        PROVE  pc'[Sup] = pc[Sup] /\ frame'[Sup] = frame[Sup] /\ fut'[Sup] = fut[Sup]
    BY <1>0, <2>1 DEF Issue, RaiseAtOnce, Register, Transmit
  <2>2. ASSUME NEW o, Finish(r, o)
        PROVE  pc'[Sup] = pc[Sup] /\ frame'[Sup] = frame[Sup] /\ fut'[Sup] = fut[Sup]
    BY <1>0, <2>2 DEF Finish
  <2>3. pc'[Sup] = pc[Sup] /\ frame'[Sup] = frame[Sup] /\ fut'[Sup] = fut[Sup]
    BY <1>0, <1>7, <2>1, <2>2 DEF Call, RequestStep, TokenRefused, Relogin, Retry, Return,
       TimeoutStep, CommandTimeout, ReloginTimeout, Cancel
  <2>4. UNCHANGED <<valid, issued, toClient>>
    BY <1>7 DEF Call, RequestStep, TokenRefused, Relogin, Retry, Return, TimeoutStep,
       CommandTimeout, ReloginTimeout, Cancel, Finish, netVars, cuVars
  <2> QED
    BY <2>3, <2>4, LoginKept DEF Waiting
<1>8. ASSUME NEW f \in toCU, CuLogsIn(f) PROVE LoginInv'
  <2>1. /\ valid' = TRUE /\ issued' # 0 /\ UNCHANGED <<pc, frame, fut>>
        /\ \A m \in toClient' : m \in toClient \/ m.tok # NoToken
    BY <1>0, <1>8 DEF CuLogsIn, Reply, CuVarsKept, callVars, LoginInv, NoToken
  <2> QED
    BY <2>1 DEF LoginInv, Waiting
<1>9. ASSUME NEW f \in toCU, CuExecutes(f) PROVE LoginInv'
  <2>1. /\ UNCHANGED <<valid, issued, pc, frame, fut>>
        /\ \A m \in toClient' : m \in toClient \/ m.id = f.id
    BY <1>9 DEF CuExecutes, Reply, CuVarsKept, callVars
  <2>2. Waiting(Sup) => f.id # frame[Sup].id
    BY <1>9 DEF CuExecutes, IdInv, LoginInv
  <2> QED
    BY <2>1, <2>2 DEF LoginInv, Waiting
<1>10. CASE \/ \E f \in toCU : CuRefusesToken(f) \/ CuRejects(f) \/ CuSilent(f)
            \/ CuForgetsToken \/ CuDrops
  <2>1. /\ UNCHANGED <<issued, pc, frame, fut>>
        /\ valid' = valid \/ valid' = FALSE
        /\ \A m \in toClient' : m \in toClient \/ m.st # "ok"
    BY <1>10 DEF CuRefusesToken, CuRejects, CuSilent, CuForgetsToken, CuDrops, Reply,
       CuVarsKept, callVars, netVars, cuVars
  <2> QED
    BY <2>1 DEF LoginInv, Waiting
<1>11. CASE UNCHANGED vars
  BY <1>11 DEF vars, callVars, netVars, cuVars, LoginInv, Waiting
<1> QED
  BY <1>1, <1>2, <1>3, <1>4, <1>5, <1>6, <1>7, <1>8, <1>9, <1>10, <1>11
     DEF Next, SupStep, StopStep, ReaderStep, CuAnswers, CuFaults

-----------------------------------------------------------------------------
(* The refinement *)

\* A step that leaves the connection as it is.
LEMMA RefinesUse ==
  ASSUME SocketOpen, SocketOpen', (sup = "run") <=> (sup' = "run")
  PROVE  Connection!Use
<1>1. (token' # NoToken) \in BOOLEAN /\ Waiters' \subseteq Requests
  BY DEF Waiters
<1> QED
  BY <1>1 DEF Connection!Use, Waiters

LEMMA RefinesWindDown ==
  ASSUME ~SocketOpen, ~SocketOpen', Waiters' \subseteq Waiters
  PROVE  Connection!WindDown
BY DEF Connection!WindDown, Waiters

LEMMA RefinesDrop ==
  ASSUME SocketOpen, ~SocketOpen', Waiters' \subseteq Waiters, UNCHANGED token
  PROVE  Connection!Drop
BY DEF Connection!Drop, Waiters

LEMMA ConnectionNext ==
  ASSUME TypeOK, TypeOK', SocketInv, SocketInv', WaiterResolvable, WaitersInv, LoginInv,
         [Next]_vars
  PROVE  [Connection!Next]_(Connection!vars)
<1>0. Waiters' \subseteq Waiters \/ SocketOpen
  BY WaitersShrink
<1>1. ASSUME UNCHANGED <<ws, open>>, sup' = sup \/ (sup # "run" /\ sup' # "run")
      PROVE  Connection!Next
  <2>1. SocketOpen' = SocketOpen
    BY <1>1 DEF SocketOpen
  <2> QED
    BY <1>0, <1>1, <2>1, RefinesUse, RefinesWindDown DEF Connection!Next
<1>2. ASSUME ~SocketOpen, ~SocketOpen' PROVE Connection!Next
  BY <1>0, <1>2, RefinesWindDown DEF Connection!Next
<1>3. ASSUME CloseSocket \/ ReaderExits, Waiters' \subseteq Waiters, UNCHANGED token
      PROVE  Connection!Next
  <2>1. ~SocketOpen'
    BY <1>3 DEF CloseSocket, ReaderExits, SocketOpen
  <2> QED
    BY <1>2, <1>3, <2>1, RefinesDrop DEF Connection!Next
<1>4. ASSUME RejectPending, pc' = pc \/ pc' = [pc EXCEPT ![Sup] = "idle"]
      PROVE  Waiters' \subseteq Waiters
  BY <1>4, WaitersRejected DEF TypeOK, CallsType
<1>5. CASE Connect
  <2>1. ~SocketOpen /\ Waiters = {} /\ Waiters' = {}
    BY <1>0, <1>5 DEF Connect, SocketInv, WaitersInv, SocketOpen
  <2>2. SocketOpen' /\ sup' # "run" /\ UNCHANGED token
    BY <1>5 DEF Connect, SocketOpen
  <2>3. Connection!Reconnect
    BY <2>1, <2>2 DEF Connection!Reconnect, Waiters
  <2> QED
    BY <2>3 DEF Connection!Next
<1>6. CASE SupLoginOk
  <2>1. UNCHANGED <<ws, open, fut>> /\ sup = "login" /\ sup' = "run"
        /\ token' = fut[Sup].tok /\ token' # NoToken
    BY <1>6 DEF SupLoginOk, sockVars, LoginInv, Waiting
  <2>2. SocketOpen' = SocketOpen
    BY <2>1 DEF SocketOpen
  <2>3. Waiters' = Waiters
    BY <1>6, TaskSets DEF SupLoginOk, Waiters, Waiting, TypeOK, CallsType
  <2>4. CASE SocketOpen
    <3>1. Connection!LoginOk
      BY <2>1, <2>2, <2>3, <2>4 DEF Connection!LoginOk, Waiters
    <3> QED
      BY <3>1 DEF Connection!Next
  <2> QED
    BY <1>2, <2>2, <2>4
<1>7. CASE SupLoginFails \/ SupLoginTimeout
  <2>1. GiveUpLogin /\ sup = "login"
    BY <1>7 DEF SupLoginFails, SupLoginTimeout
  <2>2. Waiters' \subseteq Waiters
    BY <1>4, <2>1 DEF GiveUpLogin
  <2> QED
    BY <1>1, <1>3, <2>1, <2>2 DEF GiveUpLogin, CancelReader
<1>8. CASE SupReaderGone \/ StopReaderGone
  <2>1. CloseSocket /\ UNCHANGED token /\ Waiters' = Waiters
    BY <1>8 DEF SupReaderGone, StopReaderGone, callVars, Waiters, Waiting
  <2> QED
    BY <1>3, <2>1
<1>9. CASE SupReaderExited \/ StopTeardown
  <2>1. Waiters' \subseteq Waiters
    BY <1>4, <1>9 DEF SupReaderExited, StopTeardown
  <2> QED
    BY <1>1, <1>3, <1>9, <2>1 DEF SupReaderExited, StopTeardown, CancelReader, sockVars
<1>10. CASE SupFailClosed \/ SupExitClosed \/ StopClosed
  <2>1. open = {} /\ open' = {}
    BY <1>10 DEF SupFailClosed, SupExitClosed, StopClosed, SocketInv
  <2> QED
    BY <1>2, <2>1 DEF SocketOpen
<1>11. CASE Start \/ ConnectFails \/ SupWakes \/ Stop
  <2>1. UNCHANGED <<ws, open>> /\ (sup' = sup \/ (sup # "run" /\ sup' # "run"))
    BY <1>11 DEF Start, ConnectFails, SupWakes, Stop, sockVars, SocketInv
  <2> QED
    BY <1>1, <2>1
<1>12. CASE ReaderStep \/ ReaderDies
  <2>1. CASE ReaderExits
    BY <1>3, <2>1 DEF ReaderExits, callVars, Waiters, Waiting
  <2> QED
    BY <1>1, <1>12, <2>1 DEF ReaderStep, ReaderDies, Dispatch, ReaderCancelled, sockVars,
       lifeVars
<1>13. CASE \/ \E t \in Tasks : SendStep(t)
            \/ \E r \in Requests : Call(r) \/ RequestStep(r) \/ TimeoutStep(r) \/ Cancel(r)
            \/ CuAnswers \/ CuFaults \/ UNCHANGED vars
  <2>1. UNCHANGED <<ws, open, sup>>
    BY <1>13 DEF SendStep, SendQueued, Drained, DrainFails, RequestStep, Call,
       TokenRefused, Relogin, Retry, Return, TimeoutStep, CommandTimeout,
       ReloginTimeout, Cancel, Finish, CuAnswers, CuFaults, CuLogsIn, CuExecutes,
       CuRefusesToken, CuRejects, CuSilent, CuForgetsToken, CuDrops, CuVarsKept,
       vars, sockVars, lifeVars
  <2> QED
    BY <1>1, <2>1
<1> QED
  BY <1>5, <1>6, <1>7, <1>8, <1>9, <1>10, <1>11, <1>12, <1>13
     DEF Next, SupStep, StopStep

\* The client implements Connection: a new connection is made when nobody waits
\* for a reply on the last one, and each LOGIN is followed by a drop before the
\* next.
THEOREM ConnectionImplemented == Spec => ImplementsConnection
<1>1. Init => WaitersInv /\ LoginInv /\ Connection!Init
  BY DEF Init, WaitersInv, LoginInv, Waiters, Waiting, Connection!Init, SocketOpen,
     Tasks, NoToken
<1>2. TypeOK /\ IdInv /\ SocketInv /\ WaiterResolvable /\ WaitersInv /\ LoginInv
        /\ [Next]_vars => WaitersInv' /\ LoginInv'
  BY WaitersNext, LoginNext
<1>3. TypeOK /\ TypeOK' /\ SocketInv /\ SocketInv' /\ WaiterResolvable /\ WaitersInv
        /\ LoginInv /\ [Next]_vars => [Connection!Next]_(Connection!vars)
  BY ConnectionNext
<1> QED
  BY <1>1, <1>2, <1>3, TypeCorrect, InitType, NextType, SocketInit, SocketNext, IdInit,
     IdNext, NoWaiterForgotten, PTL DEF Spec, ImplementsConnection, Connection!Spec

==============================================================================
