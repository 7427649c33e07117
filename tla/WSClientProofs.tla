--------------------------- MODULE WSClientProofs ---------------------------
(***************************************************************************)
(* Proofs about WSClient for any set of requests, any number of faults and *)
(* any backoff.                                                            *)
(***************************************************************************)
EXTENDS WSClientInv, FiniteSetTheorems, TLAPS

-----------------------------------------------------------------------------
(* Type correctness: what the shared fragments of the actions do. *)

LEMMA FaultType == ASSUME TypeOK, Fault PROVE faults' \in 0 .. MaxFaults
BY FaultsAssumption DEF TypeOK, Fault

LEMMA TransmitType ==
  ASSUME TypeOK, NEW t \in Tasks, NEW f \in Frames, NEW c \in Nat,
         NEW isUp \in BOOLEAN, Transmit(t, f, c, isUp)
  PROVE  /\ toCU' \in SUBSET Wires
         /\ pc' \in [Tasks -> PcValues]
         /\ faults' \in 0 .. MaxFaults
<1>1. toCU' \in SUBSET Wires
  <2> DEFINE w == [conn |-> c, by |-> t, id |-> f.id, kind |-> f.kind, tok |-> f.tok]
  <2>1. w \in Wires
    BY DEF Frames, Wires
  <2>2. toCU' = toCU \/ toCU' = toCU \cup {w}
    BY DEF Transmit
  <2> QED
    BY <2>1, <2>2 DEF TypeOK, NetType
<1>2. pc' \in [Tasks -> PcValues]
  BY DEF TypeOK, CallsType, Transmit, PcValues
<1>3. faults' \in 0 .. MaxFaults
  BY FaultType DEF TypeOK, Transmit
<1> QED
  BY <1>1, <1>2, <1>3

LEMMA RegisterType ==
  ASSUME TypeOK, NEW t \in Tasks, NEW kind \in Kinds, NEW tok \in Nat,
         NEW c \in Nat, NEW isUp \in BOOLEAN, Register(t, kind, tok, c, isUp),
         UNCHANGED outcome
  PROVE  CallsType' /\ toCU' \in SUBSET Wires /\ faults' \in 0 .. MaxFaults
<1> DEFINE f == [id |-> nextId, kind |-> kind, tok |-> tok]
<1>1. f \in Frames
  BY DEF TypeOK, CallsType, Frames
<1>2. /\ nextId' \in Nat /\ pending' \in SUBSET Nat
      /\ frame' \in [Tasks -> Frames]
      /\ fut' \in [Tasks -> [st : Futures, tok : Nat]]
      /\ outcome' \in [Requests -> Outcomes]
  BY <1>1 DEF TypeOK, CallsType, Register, Future, Futures, NoToken
<1>3. CASE SendLockBusy
  BY <1>2, <1>3 DEF TypeOK, CallsType, NetType, Register, PcValues
<1>4. CASE ~SendLockBusy
  <2>1. Transmit(t, f, c, isUp)
    BY <1>4 DEF Register
  <2> QED
    BY <1>1, <1>2, <2>1, TransmitType DEF CallsType
<1> QED
  BY <1>3, <1>4

LEMMA IssueType ==
  ASSUME TypeOK, NEW t \in Tasks, NEW kind \in Kinds, NEW tok \in Nat,
         Issue(t, kind, tok), UNCHANGED outcome
  PROVE  CallsType' /\ toCU' \in SUBSET Wires /\ faults' \in 0 .. MaxFaults
<1>1. CASE RaiseAtOnce(t, kind, "closed") /\ UNCHANGED nextId
  BY <1>1 DEF RaiseAtOnce, TypeOK, CallsType, NetType, Frames, NoFrame, NoToken,
     Future, Futures, Raised, PcValues
<1>2. CASE RaiseAtOnce(t, kind, "no_token") /\ nextId' = nextId + 1
  BY <1>2 DEF RaiseAtOnce, TypeOK, CallsType, NetType, Frames, NoFrame, NoToken,
     Future, Futures, Raised, PcValues
<1>3. CASE Register(t, kind, tok, ws, up)
  BY <1>3, RegisterType DEF TypeOK, SocketType
<1> QED
  BY <1>1, <1>2, <1>3 DEF Issue

LEMMA RejectPendingType ==
  ASSUME TypeOK, RejectPending
  PROVE  pending' \in SUBSET Nat /\ fut' \in [Tasks -> [st : Futures, tok : Nat]]
BY DEF TypeOK, CallsType, RejectPending, Future, Futures, NoToken

LEMMA SocketStepType ==
  ASSUME TypeOK, CloseSocket \/ CancelReader
  PROVE  SocketType' /\ NetType'
BY DEF TypeOK, SocketType, NetType, CloseSocket, CancelReader, netVars

LEMMA FinishType ==
  ASSUME TypeOK, NEW r \in Requests, NEW o \in Outcomes, Finish(r, o),
         pending' \in SUBSET Nat
  PROVE  CallsType' /\ SocketType' /\ NetType' /\ CuType' /\ LifeType'
<1>1. r \in Tasks
  BY DEF Tasks
<1>2. CallsType'
  BY <1>1 DEF Finish, TypeOK, CallsType, PcValues, Frames, NoFrame, NoToken, Kinds,
     Future, Futures
<1> QED
  BY <1>2 DEF Finish, TypeOK, SocketType, NetType, CuType, LifeType, sockVars,
     netVars, cuVars, lifeVars



-----------------------------------------------------------------------------
LEMMA InitType == Init => TypeOK
<1> SUFFICES ASSUME Init PROVE TypeOK
  OBVIOUS
<1>1. NoFrame \in Frames
  BY DEF NoFrame, Frames, Kinds, NoToken
<1>2. Future("none") \in [st : Futures, tok : Nat]
  BY DEF Future, Futures, NoToken
<1>3. CallsType
  BY <1>1, <1>2 DEF Init, CallsType, PcValues, Outcomes, Futures
<1>4. SocketType /\ NetType /\ CuType
  BY DEF Init, SocketType, NetType, CuType, NoConn
<1>5. LifeType /\ token \in Nat /\ faults \in 0 .. MaxFaults
  BY FaultsAssumption, BackoffAssumption DEF Init, LifeType, SupStates, NoToken
<1> QED
  BY <1>3, <1>4, <1>5 DEF TypeOK

LEMMA SupType == ASSUME TypeOK, SupStep \/ SupLoginTimeout \/ ConnectFails \/ Start
                 PROVE  TypeOK'
<1> USE DEF TypeOK
<1> Sup \in Tasks
  BY DEF Tasks
<1>1. CASE Start
  BY <1>1 DEF Start, CallsType, SocketType, NetType, CuType, LifeType, SupStates, callVars, sockVars, netVars, cuVars, lifeVars
<1>2. CASE Connect
  <2>1. CallsType' /\ toCU' \in SUBSET Wires /\ faults' \in 0 .. MaxFaults
    <3>1. "LOGIN" \in Kinds /\ NoToken \in Nat /\ conns + 1 \in Nat
      BY DEF Kinds, NoToken, SocketType
    <3>2. Register(Sup, "LOGIN", NoToken, conns + 1, TRUE) /\ UNCHANGED outcome
      BY <1>2 DEF Connect
    <3> HIDE DEF TypeOK
    <3> QED
      BY <3>1, <3>2, RegisterType
  <2> QED
    BY <1>2, <2>1 DEF Connect, SocketType, NetType, CuType, LifeType, SupStates, cuVars
<1>3. CASE ConnectFails
  <2>1. CallsType'
    BY <1>3, RejectPendingType DEF ConnectFails, CallsType
  <2> QED
    BY <1>3, <2>1, FaultType DEF ConnectFails, SocketType, NetType, CuType, LifeType,
       SupStates, sockVars, netVars, cuVars
<1>4. CASE SupLoginOk
  BY <1>4, BackoffAssumption
     DEF SupLoginOk, CallsType, SocketType, NetType, CuType, LifeType, SupStates,
         PcValues, sockVars, netVars, cuVars
<1>5. ASSUME GiveUpLogin, faults' \in 0 .. MaxFaults PROVE TypeOK'
  <2>1. CallsType'
    BY <1>5, RejectPendingType DEF GiveUpLogin, CallsType, PcValues
  <2>2. SocketType' /\ NetType'
    BY <1>5, SocketStepType DEF GiveUpLogin
  <2> QED
    BY <1>5, <2>1, <2>2 DEF GiveUpLogin, CuType, LifeType, SupStates, cuVars
<1>6. CASE SupLoginFails
  BY <1>6, <1>5 DEF SupLoginFails
<1>7. CASE SupLoginTimeout
  BY <1>7, <1>5, FaultType DEF SupLoginTimeout, Expires
<1>8. CASE SupReaderGone
  BY <1>8, SocketStepType
     DEF SupReaderGone, CallsType, CuType, LifeType, SupStates, callVars, cuVars
<1>9. CASE SupFailClosed
  <2>1. CallsType'
    BY <1>9, RejectPendingType DEF SupFailClosed, CallsType
  <2> QED
    BY <1>9, <2>1 DEF SupFailClosed, AfterTeardown, SocketType, NetType, CuType,
       LifeType, SupStates, NoConn, netVars, cuVars
<1>10. CASE SupReaderExited
  <2>1. CallsType'
    BY <1>10, RejectPendingType DEF SupReaderExited, CallsType
  <2> QED
    BY <1>10, <2>1, SocketStepType
       DEF SupReaderExited, CuType, LifeType, SupStates, cuVars
<1>11. CASE SupExitClosed
  BY <1>11 DEF SupExitClosed, AfterTeardown, CallsType, SocketType, NetType, CuType,
     LifeType, SupStates, NoConn, callVars, netVars, cuVars
<1>12. CASE SupWakes
  <2>1. backoff' \in BackoffInit .. BackoffCap
    BY <1>12, BackoffAssumption DEF SupWakes, NextBackoff, Minimum, LifeType
  <2> QED
    BY <1>12, <2>1 DEF SupWakes, CallsType, SocketType, NetType, CuType, LifeType,
       SupStates, callVars, sockVars, netVars, cuVars
<1> QED
  BY <1>1, <1>2, <1>3, <1>4, <1>6, <1>7, <1>8, <1>9, <1>10, <1>11, <1>12 DEF SupStep

LEMMA StopType == ASSUME TypeOK, Stop \/ StopStep PROVE TypeOK'
<1> USE DEF TypeOK
<1>1. CASE Stop
  BY <1>1 DEF Stop, CallsType, SocketType, NetType, CuType, LifeType, SupStates,
     PcValues, netVars, cuVars
<1>2. CASE StopTeardown
  <2>1. CallsType'
    BY <1>2, RejectPendingType DEF StopTeardown, CallsType
  <2>2. SocketType' /\ NetType'
    BY <1>2, SocketStepType DEF StopTeardown, SocketType, NetType, sockVars, netVars
  <2> QED
    BY <1>2, <2>1, <2>2 DEF StopTeardown, CuType, LifeType, cuVars
<1>3. CASE StopReaderGone
  BY <1>3, SocketStepType DEF StopReaderGone, CallsType, CuType, LifeType, callVars, cuVars
<1>4. CASE StopClosed
  BY <1>4 DEF StopClosed, CallsType, SocketType, NetType, CuType, LifeType, NoConn,
     callVars, netVars, cuVars
<1> QED
  BY <1>1, <1>2, <1>3, <1>4 DEF StopStep

LEMMA ReaderType == ASSUME TypeOK, ReaderStep \/ ReaderDies PROVE TypeOK'
<1> USE DEF TypeOK
<1>1. ASSUME NEW m \in toClient, Dispatch(m) PROVE TypeOK'
  <2>1. m \in [id : Nat, st : Replies, tok : Nat]
    BY DEF NetType
  <2>2. fut' \in [Tasks -> [st : Futures, tok : Nat]]
    BY <1>1, <2>1 DEF Dispatch, CallsType, Futures
  <2> QED
    BY <1>1, <2>2 DEF Dispatch, CallsType, SocketType, NetType, CuType, LifeType,
       sockVars, cuVars, lifeVars
<1>2. CASE ReaderExits
  BY <1>2 DEF ReaderExits, CallsType, SocketType, NetType, CuType, LifeType,
     callVars, cuVars, lifeVars
<1>3. CASE ReaderDies
  BY <1>3, FaultType DEF ReaderDies, CallsType, SocketType, NetType, CuType, LifeType,
     callVars, netVars, cuVars, lifeVars
<1>4. CASE ReaderCancelled
  BY <1>4 DEF ReaderCancelled, CallsType, SocketType, NetType, CuType, LifeType,
     callVars, netVars, cuVars, lifeVars
<1> QED
  BY <1>1, <1>2, <1>3, <1>4 DEF ReaderStep
LEMMA SendType == ASSUME TypeOK, NEW t \in Tasks, SendStep(t) PROVE TypeOK'
<1> USE DEF TypeOK
<1>1. CASE SendQueued(t)
  <2>1. CASE Transmit(t, frame[t], ws, up) /\ UNCHANGED <<fut, pending>>
    <3>1. frame[t] \in Frames /\ ws \in Nat /\ up \in BOOLEAN
      BY DEF CallsType, SocketType
    <3>2. /\ toCU' \in SUBSET Wires /\ pc' \in [Tasks -> PcValues]
          /\ faults' \in 0 .. MaxFaults
      <4> HIDE DEF TypeOK
      <4> QED
        BY <2>1, <3>1, TransmitType
    <3> QED
      BY <1>1, <2>1, <3>2 DEF SendQueued, CallsType, SocketType, NetType, CuType,
         LifeType, sockVars, cuVars, lifeVars
  <2>2. CASE /\ fut' = [fut EXCEPT ![t] = Future("send_error")]
             /\ pending' = pending \ {frame[t].id}
             /\ pc' = [pc EXCEPT ![t] = "await"]
             /\ UNCHANGED <<toCU, faults>>
    <3>1. CallsType'
      BY <1>1, <2>2 DEF SendQueued, CallsType, PcValues, Future, Futures, Raised, NoToken
    <3> QED
      BY <1>1, <2>2, <3>1 DEF SendQueued, SocketType, NetType, CuType, LifeType,
         sockVars, cuVars, lifeVars
  <2> QED
    BY <1>1, <2>1, <2>2 DEF SendQueued
<1>2. CASE Drained(t)
  BY <1>2 DEF Drained, CallsType, PcValues, SocketType, NetType, CuType, LifeType,
     sockVars, netVars, cuVars, lifeVars
<1>3. CASE DrainFails(t)
  <2>1. CallsType'
    BY <1>3 DEF DrainFails, CallsType, PcValues, Future, Futures, Raised, NoToken
  <2> QED
    BY <1>3, <2>1 DEF DrainFails, SocketType, NetType, CuType, LifeType,
       sockVars, netVars, cuVars, lifeVars
<1> QED
  BY <1>1, <1>2, <1>3 DEF SendStep

LEMMA RequestType ==
  ASSUME TypeOK, NEW r \in Requests,
         Call(r) \/ RequestStep(r) \/ TimeoutStep(r) \/ Cancel(r)
  PROVE  TypeOK'
<1>1. /\ r \in Tasks /\ token \in Nat /\ NoToken \in Nat /\ pending \in SUBSET Nat
      /\ fut[r].st \in Futures /\ fut[r].tok \in Nat
      /\ {"CMD", "RETRY", "LOGIN"} \subseteq Kinds
  BY DEF Tasks, TypeOK, CallsType, NoToken, Kinds
\* Steps that go through _send_and_wait again.
<1>2. ASSUME NEW kind \in Kinds, NEW tok \in Nat, Issue(r, kind, tok), token' \in Nat,
             UNCHANGED <<outcome, sockVars, toClient, cuVars, lifeVars>>
      PROVE  TypeOK'
  <2>1. CallsType' /\ toCU' \in SUBSET Wires /\ faults' \in 0 .. MaxFaults
    BY <1>1, <1>2, IssueType
  <2> QED
    BY <1>2, <2>1 DEF TypeOK, SocketType, NetType, CuType, LifeType, sockVars, cuVars,
       lifeVars
\* Steps that end the call.
<1>3. ASSUME NEW o \in Outcomes, Finish(r, o), pending' \in SUBSET Nat,
             UNCHANGED token, faults' \in 0 .. MaxFaults
      PROVE  TypeOK'
  BY <1>3, FinishType DEF TypeOK
<1>4. CASE Call(r)
  BY <1>1, <1>2, <1>4 DEF Call
<1>5. CASE TokenRefused(r)
  BY <1>1, <1>5 DEF TokenRefused, TypeOK, CallsType, PcValues, SocketType, NetType,
     CuType, LifeType, sockVars, netVars, cuVars, lifeVars
<1>6. CASE Relogin(r)
  BY <1>1, <1>2, <1>6 DEF Relogin
<1>7. CASE Retry(r)
  BY <1>1, <1>2, <1>7 DEF Retry
<1>8. CASE Return(r)
  <2>1. fut[r].st \in Outcomes
    BY <1>1, <1>8 DEF Return, Outcomes
  <2> QED
    BY <1>1, <1>3, <1>8, <2>1 DEF Return, TypeOK
<1>9. CASE CommandTimeout(r)
  <2>1. "timeout" \in Outcomes /\ pending' \in SUBSET Nat /\ faults' \in 0 .. MaxFaults
    BY <1>1, <1>9, FaultType DEF CommandTimeout, Outcomes, Expires, TypeOK
  <2> QED
    BY <1>3, <1>9, <2>1 DEF CommandTimeout
<1>10. CASE ReloginTimeout(r)
  <2>1. "login_timeout" \in Outcomes /\ faults' \in 0 .. MaxFaults
    BY <1>10, FaultType DEF ReloginTimeout, Outcomes, Expires, TypeOK
  <2> QED
    BY <1>1, <1>3, <1>10, <2>1 DEF ReloginTimeout
<1>11. CASE Cancel(r)
  <2>1. "cancelled" \in Outcomes
    BY DEF Outcomes
  <2> QED
    BY <1>1, <1>3, <1>11, <2>1 DEF Cancel, TypeOK
<1> QED
  BY <1>4, <1>5, <1>6, <1>7, <1>8, <1>9, <1>10, <1>11 DEF RequestStep, TimeoutStep

LEMMA UnitType == ASSUME TypeOK, CuAnswers \/ CuFaults PROVE TypeOK'
<1> USE DEF TypeOK
<1>1. ASSUME NEW f \in toCU, NEW st \in Replies, NEW tok \in Nat, Reply(f, st, tok)
      PROVE  toClient' \in SUBSET [id : Nat, st : Replies, tok : Nat]
  BY <1>1 DEF Reply, NetType, Wires
<1>2. NoToken \in Nat /\ {"ok", "bad_token", "rejected"} \subseteq Replies
  BY DEF NoToken, Replies
<1>3. ASSUME NEW f \in toCU, Executes(f) PROVE executed' \in [Requests -> Nat]
  <2>1. executed' = [r \in Requests |-> IF r = f.by THEN executed[r] + 1 ELSE executed[r]]
    BY <1>3 DEF Executes, CuType
  <2> QED
    BY <2>1 DEF CuType
<1>4. ASSUME NEW f \in toCU,
             CuLogsIn(f) \/ CuExecutes(f) \/ CuRefusesToken(f) \/ CuRejects(f) \/ CuSilent(f)
      PROVE  TypeOK'
  <2>1. NetType'
    <3>1. toCU' \in SUBSET Wires
      BY <1>4 DEF NetType, CuLogsIn, CuExecutes, CuRefusesToken, CuRejects, CuSilent
    <3>2. CASE CuLogsIn(f)
      <4>1. (IF valid THEN issued ELSE issued + 1) \in Nat
        BY DEF CuType
      <4>2. Reply(f, "ok", IF valid THEN issued ELSE issued + 1)
        BY <3>2 DEF CuLogsIn
      <4>3. toClient' \in SUBSET [id : Nat, st : Replies, tok : Nat]
        BY ONLY <1>1, <1>2, <4>1, <4>2
      <4> QED
        BY <3>1, <4>3 DEF NetType
    <3>3. CASE CuExecutes(f) \/ CuRefusesToken(f) \/ CuRejects(f)
      BY <1>1, <1>2, <3>1, <3>3 DEF CuExecutes, CuRefusesToken, CuRejects, NetType
    <3>4. CASE CuSilent(f)
      BY <3>1, <3>4 DEF CuSilent, NetType
    <3> QED
      BY <1>4, <3>2, <3>3, <3>4
  <2>2. CuType'
    <3>1. executed' \in [Requests -> Nat]
      <4>1. Executes(f) \/ UNCHANGED executed
        BY <1>4 DEF CuLogsIn, CuExecutes, CuRefusesToken, CuRejects, CuSilent
      <4> QED
        BY <1>3, <4>1 DEF CuType
    <3>2. valid' \in BOOLEAN /\ issued' \in Nat
      <4>1. \/ valid' = TRUE /\ (issued' = issued \/ issued' = issued + 1)
            \/ UNCHANGED <<valid, issued>>
        BY <1>4 DEF CuLogsIn, CuExecutes, CuRefusesToken, CuRejects, CuSilent
      <4>2. valid' \in BOOLEAN
        BY <4>1, Zenon DEF CuType
      <4>3. issued' \in Nat
        BY <4>1 DEF CuType
      <4> QED
        BY <4>2, <4>3
    <3> QED
      BY <3>1, <3>2 DEF CuType
  <2>3. faults' \in 0 .. MaxFaults
    BY <1>4, FaultType DEF CuLogsIn, CuExecutes, CuRefusesToken, CuRejects, CuSilent
  <2>4. CuVarsKept
    BY <1>4 DEF CuLogsIn, CuExecutes, CuRefusesToken, CuRejects, CuSilent
  <2> QED
    BY <2>1, <2>2, <2>3, <2>4 DEF CuVarsKept, CallsType, SocketType, LifeType, callVars,
       sockVars, lifeVars
<1>5. CASE CuForgetsToken
  BY <1>5, FaultType DEF CuForgetsToken, CuVarsKept, CallsType, SocketType, NetType,
     CuType, LifeType, callVars, sockVars, netVars, lifeVars
<1>6. CASE CuDrops
  BY <1>6, FaultType DEF CuDrops, CallsType, SocketType, NetType, CuType, LifeType,
     callVars, cuVars, lifeVars
<1> QED
  BY <1>4, <1>5, <1>6 DEF CuAnswers, CuFaults

LEMMA NextType == ASSUME TypeOK, [Next]_vars PROVE TypeOK'
<1>1. CASE Next
  BY <1>1, SupType, StopType, ReaderType, SendType, RequestType, UnitType DEF Next
<1>2. CASE UNCHANGED vars
  BY <1>2 DEF vars, TypeOK, CallsType, SocketType, NetType, CuType, LifeType,
     callVars, sockVars, netVars, cuVars, lifeVars
<1> QED
  BY <1>1, <1>2

\* Every step keeps every variable in its type: no interleaving of commands,
\* reconnects and stop() can make the delay leave its range, resolve a future
\* to something _request does not expect, or send a malformed frame.
THEOREM TypeCorrect == Spec => []TypeOK
BY InitType, NextType, PTL DEF Spec

-----------------------------------------------------------------------------
(* Sockets, readers and stop() *)

\* Most actions touch neither the sockets nor the two tasks that own them.
LEMMA SocketKept ==
  ASSUME SocketInv, UNCHANGED <<ws, open, starter, stopPc, sup>>,
         reader' = reader \/ (reader = "running" /\ reader' # "none" /\ ws # NoConn
                              /\ sup \notin {"fail_close", "exit_close"}
                              /\ stopPc # "td_close")
  PROVE  SocketInv'
BY DEF SocketInv

LEMMA SocketNext == ASSUME TypeOK, SocketInv, [Next]_vars PROVE SocketInv'
<1>1. CASE Start
  BY <1>1 DEF Start, SocketInv, sockVars
<1>2. CASE Connect
  BY <1>2 DEF Connect, SocketInv, NoConn, TypeOK, SocketType
<1>3. CASE ConnectFails
  BY <1>3 DEF ConnectFails, SocketInv, sockVars
<1>4. CASE SupLoginOk
  BY <1>4 DEF SupLoginOk, SocketInv, sockVars
<1>5. CASE GiveUpLogin /\ sup = "login"
  BY <1>5 DEF GiveUpLogin, CloseSocket, CancelReader, SocketInv
<1>6. CASE SupReaderGone \/ SupReaderExited
  BY <1>6 DEF SupReaderGone, SupReaderExited, CloseSocket, SocketInv
<1>7. CASE SupFailClosed \/ SupExitClosed
  BY <1>7 DEF SupFailClosed, SupExitClosed, AfterTeardown, SocketInv
<1>8. CASE SupWakes
  BY <1>8 DEF SupWakes, SocketInv, sockVars
<1>9. CASE Stop
  BY <1>9 DEF Stop, SocketInv
<1>10. CASE StopTeardown
  BY <1>10 DEF StopTeardown, CloseSocket, CancelReader, SocketInv, sockVars
<1>11. CASE StopReaderGone \/ StopClosed
  BY <1>11 DEF StopReaderGone, StopClosed, CloseSocket, SocketInv
<1>12. CASE ReaderStep \/ ReaderDies
  BY <1>12 DEF ReaderStep, Dispatch, ReaderExits, ReaderCancelled, ReaderDies, SocketInv,
     sockVars, lifeVars
<1>13. CASE \/ \E t \in Tasks : SendStep(t)
            \/ \E r \in Requests : Call(r) \/ RequestStep(r) \/ TimeoutStep(r) \/ Cancel(r)
            \/ CuAnswers \/ CuFaults \/ UNCHANGED vars
  <2>1. UNCHANGED <<ws, open, reader, starter, stopPc, sup>>
    BY <1>13 DEF SendStep, SendQueued, Drained, DrainFails, RequestStep, Call,
       TokenRefused, Relogin, Retry, Return, TimeoutStep, CommandTimeout,
       ReloginTimeout, Cancel, Finish, CuAnswers, CuFaults, CuLogsIn, CuExecutes,
       CuRefusesToken, CuRejects, CuSilent, CuForgetsToken, CuDrops, CuVarsKept,
       vars, sockVars, lifeVars
  <2> QED
    BY <2>1, SocketKept
<1> QED
  BY <1>1, <1>2, <1>3, <1>4, <1>5, <1>6, <1>7, <1>8, <1>9, <1>10, <1>11, <1>12, <1>13
     DEF Next, SupStep, StopStep, SupLoginFails, SupLoginTimeout

LEMMA SocketInit == Init => SocketInv
BY DEF Init, SocketInv

\* The socket in _ws is the only one open: no reconnect, failing LOGIN or
\* stop() leaves another behind.
THEOREM SocketNeverLeaked == Spec => []NoLeakedSocket
<1>1. SocketInv => NoLeakedSocket
  BY DEF SocketInv, NoLeakedSocket
<1> QED
  BY <1>1, InitType, NextType, SocketInit, SocketNext, PTL DEF Spec

\* stop() leaves nothing running and nothing open, wherever the supervisor
\* was when it was cancelled.
THEOREM StopTakesDown == Spec => []StoppedMeansDown
<1>1. SocketInv => StoppedMeansDown
  BY DEF SocketInv, StoppedMeansDown, NoConn
<1> QED
  BY <1>1, InitType, NextType, SocketInit, SocketNext, PTL DEF Spec

-----------------------------------------------------------------------------
(* Command ids *)

LEMMA IdInit == Init => IdInv
BY DEF Init, IdInv, NoFrame, Waiting

\* Steps that send nothing: a task goes on, stops waiting, or waits without an
\* id; frames and entries go; a reply carries the id of a frame.
LEMMA IdKept ==
  ASSUME TypeOK, IdInv, TypeOK',
         nextId' >= nextId, pending' \subseteq pending, toCU' \subseteq toCU,
         \A m \in toClient' : m \in toClient \/ \E f \in toCU : m.id = f.id,
         \A t \in Tasks :
           \/ frame'[t].id = 0 /\ pc'[t] # "sendq"
           \/ /\ frame'[t] = frame[t]
              /\ Waiting(t)' => Waiting(t)
              /\ pc'[t] = "sendq" =>
                   pc[t] = "sendq" /\ (fut'[t] = fut[t] \/ fut'[t].st = "lost")
  PROVE  IdInv'
<1>1. /\ nextId' >= 1
      /\ \A id \in pending' : 1 <= id /\ id < nextId'
      /\ \A t \in Tasks : frame'[t].id < nextId'
      /\ \A f \in toCU' : 1 <= f.id /\ f.id < nextId'
      /\ \A m \in toClient' : 1 <= m.id /\ m.id < nextId'
  BY DEF IdInv, TypeOK, CallsType, NetType, Wires, Frames
<1>2. \A t, u \in Tasks :
        Waiting(t)' /\ Waiting(u)' /\ frame'[t].id = frame'[u].id =>
          t = u \/ frame'[t].id = 0
  BY DEF IdInv
<1>3. \A t \in Tasks, f \in toCU' : Waiting(t)' /\ f.id = frame'[t].id =>
        f.by = t /\ f.kind = frame'[t].kind
  BY <1>1 DEF IdInv
<1>4. ASSUME NEW t \in Tasks, pc'[t] = "sendq"
      PROVE  /\ 1 <= frame'[t].id /\ fut'[t].st \in {"pending", "lost"}
             /\ \A f \in toCU' : f.id # frame'[t].id
             /\ \A m \in toClient' : m.id # frame'[t].id
  BY <1>4 DEF IdInv
<1> QED
  BY <1>1, <1>2, <1>3, <1>4 DEF IdInv

\* A new id is larger than any id in use.
LEMMA IdRegister ==
  ASSUME TypeOK, IdInv, TypeOK', NEW t \in Tasks, NEW kind \in Kinds, NEW tok \in Nat,
         NEW c \in Nat, NEW isUp \in BOOLEAN, Register(t, kind, tok, c, isUp),
         toClient' \subseteq toClient
  PROVE  IdInv'
<1> DEFINE w == [conn |-> c, by |-> t, id |-> nextId, kind |-> kind, tok |-> tok]
<1>1. /\ nextId' = nextId + 1 /\ nextId \in Nat
      /\ pending' = pending \cup {nextId}
      /\ frame'[t].id = nextId /\ frame'[t].kind = kind /\ fut'[t].st = "pending"
      /\ \A u \in Tasks \ {t} : frame'[u] = frame[u] /\ fut'[u] = fut[u]
  BY DEF Register, Future, TypeOK, CallsType
<1>2. /\ toCU' = toCU \/ (toCU' = toCU \cup {w} /\ pc'[t] # "sendq")
      /\ \A u \in Tasks \ {t} : pc'[u] = pc[u]
  BY DEF Register, Transmit, TypeOK, CallsType
<1>3. /\ nextId' >= 1
      /\ \A id \in pending' : 1 <= id /\ id < nextId'
      /\ \A u \in Tasks : frame'[u].id < nextId'
      /\ \A f \in toCU' : 1 <= f.id /\ f.id < nextId'
      /\ \A m \in toClient' : 1 <= m.id /\ m.id < nextId'
  BY <1>1, <1>2 DEF IdInv, TypeOK, CallsType, NetType, Wires, Frames
<1>4. \A u \in Tasks : frame[u].id < nextId
  BY DEF IdInv
<1>5. ASSUME NEW u \in Tasks, NEW v \in Tasks, Waiting(u)', Waiting(v)',
             frame'[u].id = frame'[v].id
      PROVE  u = v \/ frame'[u].id = 0
  <2>1. \A x \in Tasks \ {t} : frame'[x].id # nextId /\ (Waiting(x)' => Waiting(x))
    BY <1>1, <1>2, <1>4 DEF Waiting, TypeOK, CallsType, Frames
  <2>2. CASE u = t \/ v = t
    BY <1>1, <1>5, <2>1, <2>2
  <2>3. CASE u # t /\ v # t
    BY <1>1, <1>5, <2>1, <2>3 DEF IdInv
  <2> QED
    BY <2>2, <2>3
<1>6. ASSUME NEW u \in Tasks, NEW f \in toCU', Waiting(u)', f.id = frame'[u].id
      PROVE  f.by = u /\ f.kind = frame'[u].kind
  <2>1. CASE u = t
    BY <1>1, <1>2, <1>6, <2>1 DEF IdInv
  <2>2. CASE u # t
    <3>1. /\ Waiting(u) /\ frame'[u] = frame[u] /\ f.id = frame[u].id
          /\ frame[u].id # nextId
      BY <1>1, <1>2, <1>4, <1>6, <2>2 DEF Waiting, TypeOK, CallsType, Frames
    <3>2. f \in toCU
      BY <1>2, <3>1
    <3> QED
      BY <3>1, <3>2 DEF IdInv
  <2> QED
    BY <2>1, <2>2
<1>7. ASSUME NEW u \in Tasks, pc'[u] = "sendq"
      PROVE  /\ 1 <= frame'[u].id /\ fut'[u].st \in {"pending", "lost"}
             /\ \A f \in toCU' : f.id # frame'[u].id
             /\ \A m \in toClient' : m.id # frame'[u].id
  BY <1>1, <1>2, <1>4, <1>7 DEF IdInv, TypeOK, CallsType, NetType, Wires, Frames
<1> QED
  BY <1>3, <1>5, <1>6, <1>7 DEF IdInv

\* A queued frame is sent: nothing else carries its id.
LEMMA IdTransmit ==
  ASSUME TypeOK, IdInv, TypeOK', NEW t \in Tasks, pc[t] = "sendq",
         Transmit(t, frame[t], ws, up), UNCHANGED <<frame, fut, pending, nextId, toClient>>
  PROVE  IdInv'
<1> DEFINE w == [conn |-> ws, by |-> t, id |-> frame[t].id, kind |-> frame[t].kind,
                 tok |-> frame[t].tok]
<1>1. /\ toCU' = toCU \/ toCU' = toCU \cup {w}
      /\ pc'[t] \in {"await", "drain"}
      /\ \A u \in Tasks \ {t} : pc'[u] = pc[u]
  BY DEF Transmit, TypeOK, CallsType
<1>2. \A u \in Tasks : Waiting(u)' => Waiting(u)
  BY <1>1 DEF Waiting
<1>3. 1 <= frame[t].id /\ frame[t].id < nextId /\ Waiting(t)
  BY DEF IdInv, Waiting
<1>4. \A u \in Tasks, f \in toCU' : Waiting(u)' /\ f.id = frame'[u].id =>
        f.by = u /\ f.kind = frame'[u].kind
  BY <1>1, <1>2, <1>3 DEF IdInv
<1>5. ASSUME NEW u \in Tasks, pc'[u] = "sendq"
      PROVE  \A f \in toCU' : f.id # frame'[u].id
  BY <1>1, <1>3, <1>5 DEF IdInv, Waiting
<1> QED
  BY <1>1, <1>2, <1>3, <1>4, <1>5 DEF IdInv
LEMMA IdIssue ==
  ASSUME TypeOK, IdInv, TypeOK', NEW t \in Tasks, NEW kind \in Kinds, NEW tok \in Nat,
         Issue(t, kind, tok), UNCHANGED toClient
  PROVE  IdInv'
<1>1. CASE Register(t, kind, tok, ws, up)
  BY <1>1, IdRegister DEF TypeOK, SocketType
<1>2. CASE /\ RaiseAtOnce(t, kind, "closed") \/ RaiseAtOnce(t, kind, "no_token")
           /\ nextId' = nextId \/ nextId' = nextId + 1
  <2>1. /\ nextId' >= nextId /\ pending' = pending /\ toCU' = toCU /\ toClient' = toClient
        /\ frame'[t].id = 0 /\ pc'[t] # "sendq"
        /\ \A u \in Tasks \ {t} : frame'[u] = frame[u] /\ fut'[u] = fut[u] /\ pc'[u] = pc[u]
    BY <1>2 DEF RaiseAtOnce, TypeOK, CallsType
  <2> QED
    BY <2>1, IdKept DEF Waiting
<1> QED
  BY <1>1, <1>2 DEF Issue

LEMMA IdNext == ASSUME TypeOK, IdInv, [Next]_vars PROVE IdInv'
<1> USE DEF Waiting
<1>0. TypeOK'
  BY NextType
<1> nextId \in Nat
  BY DEF TypeOK, CallsType
<1>1. CASE Connect
  <2>1. Register(Sup, "LOGIN", NoToken, conns + 1, TRUE) /\ toClient' \subseteq toClient
    BY <1>1 DEF Connect
  <2>2. "LOGIN" \in Kinds /\ NoToken \in Nat /\ conns + 1 \in Nat /\ Sup \in Tasks
    BY DEF Kinds, NoToken, Tasks, TypeOK, SocketType
  <2> QED
    BY <1>0, <2>1, <2>2, IdRegister
<1>2. ASSUME NEW r \in Requests, Call(r) \/ Relogin(r) \/ Retry(r) PROVE IdInv'
  <2>1. /\ r \in Tasks /\ {"CMD", "RETRY", "LOGIN"} \subseteq Kinds
        /\ token \in Nat /\ NoToken \in Nat /\ fut[r].tok \in Nat
    BY DEF Tasks, Kinds, TypeOK, CallsType, NoToken
  <2>2. UNCHANGED toClient
    BY <1>2 DEF Call, Relogin, Retry
  <2>3. CASE Call(r)
    BY <1>0, <2>1, <2>2, <2>3, IdIssue DEF Call
  <2>4. CASE Relogin(r)
    BY <1>0, <2>1, <2>2, <2>4, IdIssue DEF Relogin
  <2>5. CASE Retry(r)
    BY <1>0, <2>1, <2>2, <2>5, IdIssue DEF Retry
  <2> QED
    BY <1>2, <2>3, <2>4, <2>5
<1>3. ASSUME NEW t \in Tasks, SendStep(t) PROVE IdInv'
  <2>1. CASE pc[t] = "sendq" /\ Transmit(t, frame[t], ws, up)
             /\ UNCHANGED <<frame, fut, pending, nextId, toClient>>
    BY <1>0, <2>1, IdTransmit
  <2>2. CASE /\ pc[t] \in {"sendq", "drain"} /\ pc' = [pc EXCEPT ![t] = "await"]
             /\ pending' \subseteq pending
             /\ UNCHANGED <<frame, nextId, toCU, toClient>>
             /\ fut' = fut \/ fut' = [fut EXCEPT ![t] = Future("send_error")]
    BY <1>0, <2>2, IdKept DEF TypeOK, CallsType
  <2> QED
    BY <1>3, <2>1, <2>2 DEF SendStep, SendQueued, Drained, DrainFails, netVars
<1>4. CASE \E r \in Requests : TokenRefused(r) \/ Return(r) \/ TimeoutStep(r) \/ Cancel(r)
  BY <1>0, <1>4, IdKept DEF TokenRefused, Return, TimeoutStep, CommandTimeout,
     ReloginTimeout, Cancel, Finish, NoFrame, netVars, TypeOK, CallsType, Tasks
<1>5. CASE RejectPending /\ UNCHANGED <<pc, frame, nextId>> /\ toCU' = toCU
           /\ toClient' \subseteq toClient
  BY <1>0, <1>5, IdKept DEF RejectPending, TypeOK, CallsType, Future
<1>6. CASE ConnectFails \/ SupFailClosed \/ SupReaderExited \/ StopTeardown
  BY <1>5, <1>6 DEF ConnectFails, SupFailClosed, SupReaderExited, StopTeardown,
     CloseSocket, CancelReader, netVars
<1>7. CASE GiveUpLogin
  BY <1>0, <1>7, IdKept DEF GiveUpLogin, RejectPending, CloseSocket, CancelReader, TypeOK,
     CallsType, Future, netVars
<1>8. CASE SupLoginOk \/ Stop
  BY <1>0, <1>8, IdKept DEF SupLoginOk, Stop, TypeOK, CallsType, netVars
<1>9. ASSUME NEW m \in toClient, Dispatch(m) PROVE IdInv'
  <2>1. \A t \in Tasks : pc[t] = "sendq" => fut'[t] = fut[t]
    BY <1>9 DEF Dispatch, IdInv
  <2> QED
    BY <1>0, <1>9, <2>1, IdKept DEF Dispatch
<1>10. CASE \/ Start \/ SupReaderGone \/ SupExitClosed \/ SupWakes \/ StopReaderGone
            \/ StopClosed \/ ReaderExits \/ ReaderCancelled \/ ReaderDies
            \/ CuForgetsToken \/ CuDrops \/ UNCHANGED vars
  <2>1. UNCHANGED callVars /\ toCU' \subseteq toCU /\ toClient' \subseteq toClient
    BY <1>10 DEF Start, SupReaderGone, SupExitClosed, SupWakes, StopReaderGone,
       StopClosed, ReaderExits, ReaderCancelled, ReaderDies, CuForgetsToken, CuDrops,
       CuVarsKept, CloseSocket, netVars, vars
  <2> QED
    BY <1>0, <2>1, IdKept DEF callVars
<1>11. ASSUME NEW f \in toCU,
              CuLogsIn(f) \/ CuExecutes(f) \/ CuRefusesToken(f) \/ CuRejects(f) \/ CuSilent(f)
       PROVE  IdInv'
  <2>1. /\ UNCHANGED callVars /\ toCU' \subseteq toCU
        /\ \A m \in toClient' : m \in toClient \/ m.id = f.id
    BY <1>11 DEF CuLogsIn, CuExecutes, CuRefusesToken, CuRejects, CuSilent, Reply, CuVarsKept
  <2> QED
    BY <1>0, <2>1, IdKept DEF callVars
<1> QED
  BY <1>1, <1>2, <1>3, <1>4, <1>6, <1>7, <1>8, <1>9, <1>10, <1>11
     DEF Next, SupStep, SupLoginFails, SupLoginTimeout, StopStep, ReaderStep,
         RequestStep, CuAnswers, CuFaults
-----------------------------------------------------------------------------
(* Futures and _pending *)

\* Whoever waits after the step waited before it, and its entry is not popped.
LEMMA ResolvableKept ==
  ASSUME WaiterResolvable,
         \A t \in Tasks : Waiting(t)' /\ fut'[t].st = "pending" =>
           /\ Waiting(t) /\ fut[t].st = "pending" /\ frame'[t].id = frame[t].id
           /\ frame[t].id \in pending => frame[t].id \in pending'
  PROVE  WaiterResolvable'
BY DEF WaiterResolvable

LEMMA ResolvableRegister ==
  ASSUME TypeOK, WaiterResolvable, NEW t \in Tasks, NEW kind \in Kinds, NEW tok \in Nat,
         NEW c \in Nat, NEW isUp \in BOOLEAN, Register(t, kind, tok, c, isUp)
  PROVE  WaiterResolvable'
<1>1. pending' = pending \cup {nextId} /\ frame'[t].id = nextId
  BY DEF Register, TypeOK, CallsType
<1>2. \A u \in Tasks \ {t} : frame'[u] = frame[u] /\ fut'[u] = fut[u] /\ pc'[u] = pc[u]
  BY DEF Register, Transmit, TypeOK, CallsType
<1> QED
  BY <1>1, <1>2 DEF WaiterResolvable, Waiting

LEMMA ResolvableIssue ==
  ASSUME TypeOK, WaiterResolvable, NEW t \in Tasks, NEW kind \in Kinds, NEW tok \in Nat,
         Issue(t, kind, tok)
  PROVE  WaiterResolvable'
<1>1. CASE Register(t, kind, tok, ws, up)
  BY <1>1, ResolvableRegister DEF TypeOK, SocketType
<1>2. CASE RaiseAtOnce(t, kind, "closed") \/ RaiseAtOnce(t, kind, "no_token")
  BY <1>2, ResolvableKept DEF RaiseAtOnce, TypeOK, CallsType, Future, Waiting
<1> QED
  BY <1>1, <1>2 DEF Issue

\* A task that pops its own id pops nobody else's.
LEMMA ResolvablePop ==
  ASSUME TypeOK, IdInv, WaiterResolvable, NEW t \in Tasks, Waiting(t),
         pending' = pending \ {frame[t].id},
         ~(Waiting(t)' /\ fut'[t].st = "pending"),
         \A u \in Tasks \ {t} : frame'[u] = frame[u] /\ fut'[u] = fut[u] /\ pc'[u] = pc[u]
  PROVE  WaiterResolvable'
<1>1. ASSUME NEW u \in Tasks \ {t}, Waiting(u), fut[u].st = "pending"
      PROVE  frame[u].id \in pending'
  <2>1. frame[u].id \in pending /\ frame[u].id # 0
    BY <1>1 DEF WaiterResolvable, IdInv
  <2> QED
    BY <1>1, <2>1 DEF IdInv
<1> QED
  BY <1>1 DEF WaiterResolvable, Waiting

LEMMA ResolvableNext ==
  ASSUME TypeOK, IdInv, WaiterResolvable, [Next]_vars PROVE WaiterResolvable'
<1>1. CASE Connect
  <2>1. Register(Sup, "LOGIN", NoToken, conns + 1, TRUE)
    BY <1>1 DEF Connect
  <2>2. "LOGIN" \in Kinds /\ NoToken \in Nat /\ conns + 1 \in Nat /\ Sup \in Tasks
    BY DEF Kinds, NoToken, Tasks, TypeOK, SocketType
  <2> QED
    BY <2>1, <2>2, ResolvableRegister
<1>2. ASSUME NEW r \in Requests, Call(r) \/ Relogin(r) \/ Retry(r) PROVE WaiterResolvable'
  <2>1. /\ r \in Tasks /\ {"CMD", "RETRY", "LOGIN"} \subseteq Kinds
        /\ token \in Nat /\ NoToken \in Nat /\ fut[r].tok \in Nat
    BY DEF Tasks, Kinds, TypeOK, CallsType, NoToken
  <2>2. CASE Call(r)
    BY <2>1, <2>2, ResolvableIssue DEF Call
  <2>3. CASE Relogin(r)
    BY <2>1, <2>3, ResolvableIssue DEF Relogin
  <2>4. CASE Retry(r)
    BY <2>1, <2>4, ResolvableIssue DEF Retry
  <2> QED
    BY <1>2, <2>2, <2>3, <2>4
<1>3. ASSUME NEW t \in Tasks, SendStep(t) PROVE WaiterResolvable'
  <2> USE DEF Waiting
  <2>1. CASE pc[t] = "sendq" /\ Transmit(t, frame[t], ws, up)
             /\ UNCHANGED <<frame, fut, pending>>
    BY <2>1, ResolvableKept DEF Transmit, TypeOK, CallsType
  <2>2. CASE Drained(t)
    BY <2>2, ResolvableKept DEF Drained, TypeOK, CallsType
  <2>3. CASE /\ pc[t] \in {"sendq", "drain"} /\ pc' = [pc EXCEPT ![t] = "await"]
             /\ pending' = pending \ {frame[t].id}
             /\ UNCHANGED frame
             /\ fut' = [fut EXCEPT ![t] = Future("send_error")]
    BY <2>3, ResolvablePop DEF Future, TypeOK, CallsType
  <2> QED
    BY <1>3, <2>1, <2>2, <2>3 DEF SendStep, SendQueued, DrainFails
<1>4. ASSUME NEW r \in Requests, TokenRefused(r) \/ Return(r) \/ ReloginTimeout(r) \/ Cancel(r)
      PROVE  WaiterResolvable'
  BY <1>4, ResolvableKept DEF TokenRefused, Return, ReloginTimeout, Cancel, Finish, Waiting,
     TypeOK, CallsType, Tasks
<1>5. ASSUME NEW r \in Requests, CommandTimeout(r) PROVE WaiterResolvable'
  BY <1>5, ResolvablePop DEF CommandTimeout, Finish, Waiting, TypeOK, CallsType, Tasks
<1>6. CASE RejectPending /\ UNCHANGED frame /\ \A t \in Tasks : Waiting(t)' => Waiting(t)
  <2>1. \A t \in Tasks : ~(Waiting(t)' /\ fut'[t].st = "pending")
    BY <1>6 DEF RejectPending, WaiterResolvable, Future
  <2> QED
    BY <2>1 DEF WaiterResolvable
<1>7. CASE \/ ConnectFails \/ SupFailClosed \/ SupReaderExited \/ StopTeardown \/ GiveUpLogin
  BY <1>6, <1>7 DEF ConnectFails, SupFailClosed, SupReaderExited, StopTeardown, GiveUpLogin,
     Waiting, TypeOK, CallsType
<1>8. CASE SupLoginOk \/ Stop
  BY <1>8, ResolvableKept DEF SupLoginOk, Stop, Waiting, TypeOK, CallsType
<1>9. ASSUME NEW m \in toClient, Dispatch(m) PROVE WaiterResolvable'
  <2>1. m.st # "pending"
    BY DEF TypeOK, NetType, Replies
  <2> QED
    BY <1>9, <2>1, ResolvableKept DEF Dispatch, WaiterResolvable, Waiting
<1>10. CASE \/ Start \/ SupReaderGone \/ SupExitClosed \/ SupWakes \/ StopReaderGone
            \/ StopClosed \/ ReaderExits \/ ReaderCancelled \/ ReaderDies
            \/ CuAnswers \/ CuFaults \/ UNCHANGED vars
  <2>1. UNCHANGED callVars
    BY <1>10 DEF Start, SupReaderGone, SupExitClosed, SupWakes, StopReaderGone,
       StopClosed, ReaderExits, ReaderCancelled, ReaderDies, CuAnswers, CuFaults, CuLogsIn,
       CuExecutes, CuRefusesToken, CuRejects, CuSilent, CuForgetsToken, CuDrops,
       CuVarsKept, vars
  <2> QED
    BY <2>1 DEF callVars, WaiterResolvable, Waiting
<1> QED
  BY <1>1, <1>2, <1>3, <1>4, <1>5, <1>7, <1>8, <1>9, <1>10
     DEF Next, SupStep, SupLoginFails, SupLoginTimeout, StopStep, ReaderStep,
         RequestStep, TimeoutStep

\* No waiting command, re-LOGIN or LOGIN is ever forgotten: its id stays in
\* _pending until its future is resolved, for any number of callers.
THEOREM NoWaiterForgotten == Spec => []WaiterResolvable
<1>1. Init => WaiterResolvable
  BY DEF Init, WaiterResolvable, Waiting
<1> QED
  BY <1>1, InitType, NextType, IdInit, IdNext, ResolvableNext, PTL DEF Spec
-----------------------------------------------------------------------------
(* Effects of a command on the Central Unit *)

LEMMA EffectInit == Init => EffectInv
BY DEF Init, EffectInv, EffectOf, Untouched, Waiting, Tasks

\* Steps that send no command of r, execute none and answer none: r may go on
\* to wait for its reply, or see its connection go.
LEMMA EffectKept ==
  ASSUME TypeOK, NEW r \in Requests, EffectOf(r),
         executed'[r] = executed[r], frame'[r] = frame[r], outcome'[r] = outcome[r],
         pc'[r] = pc[r] \/ (Waiting(r) /\ pc'[r] = "await"),
         fut'[r] = fut[r] \/ fut'[r].st \in {"lost", "send_error"},
         \A f \in toCU' : f.by = r /\ f.kind # "LOGIN" => f \in toCU,
         \A m \in toClient' : m \in toClient \/ ~AnswersCommand(m, r)
  PROVE  EffectOf(r)'
<1>1. Untouched(r) => Untouched(r)'
  BY DEF Untouched
<1>2. Waiting(r)' <=> Waiting(r)
  BY DEF Waiting
<1>3. \A m : AnswersCommand(m, r)' => AnswersCommand(m, r)
  BY <1>2 DEF AnswersCommand
<1>4. \A m \in toClient' : AnswersCommand(m, r)' =>
        IF m.st = "ok" THEN executed'[r] = 1 ELSE Untouched(r)'
  BY <1>1, <1>3 DEF EffectOf
<1>5. /\ pc'[r] \in {"idle", "sendq", "lockq"} => pc'[r] = pc[r]
      /\ pc'[r] = "done" <=> pc[r] = "done"
  BY DEF Waiting
<1>6. \A f, g \in toCU' :
        f.by = r /\ g.by = r /\ f.kind # "LOGIN" /\ g.kind # "LOGIN" => f = g
  BY DEF EffectOf
<1> QED
  BY <1>1, <1>2, <1>4, <1>5, <1>6 DEF EffectOf

\* Steps of _send_and_wait for a request that is untouched so far.
LEMMA EffectRegister ==
  ASSUME TypeOK, IdInv, NEW r \in Requests, EffectOf(r), Untouched(r),
         NEW kind \in Kinds, NEW tok \in Nat, Register(r, kind, tok, ws, up),
         pc[r] # "done", UNCHANGED <<outcome, executed, toClient>>
  PROVE  EffectOf(r)'
<1> DEFINE w == [conn |-> ws, by |-> r, id |-> nextId, kind |-> kind, tok |-> tok]
<1>1. /\ fut'[r].st = "pending" /\ frame'[r].id = nextId /\ frame'[r].kind = kind
      /\ pc'[r] \in {"sendq", "drain", "await"}
      /\ toCU' = toCU \/ (toCU' = toCU \cup {w} /\ pc'[r] # "sendq")
  BY DEF Register, Transmit, Future, TypeOK, CallsType, Tasks
<1>2. \A m \in toClient' : ~AnswersCommand(m, r)'
  BY <1>1 DEF AnswersCommand, IdInv, TypeOK, CallsType, NetType
<1>3. pc'[r] = "sendq" \/ kind = "LOGIN" => Untouched(r)'
  BY <1>1 DEF Untouched
<1>4. \A f, g \in toCU' :
        f.by = r /\ g.by = r /\ f.kind # "LOGIN" /\ g.kind # "LOGIN" => f = g
  BY <1>1 DEF Untouched
<1> QED
  BY <1>1, <1>2, <1>3, <1>4 DEF EffectOf, Waiting, Untouched

LEMMA EffectIssue ==
  ASSUME TypeOK, IdInv, NEW r \in Requests, EffectOf(r), Untouched(r),
         NEW kind \in Kinds, NEW tok \in Nat, Issue(r, kind, tok),
         pc[r] # "done", UNCHANGED <<outcome, executed, toClient>>
  PROVE  EffectOf(r)'
<1>1. CASE Register(r, kind, tok, ws, up)
  BY <1>1, EffectRegister
<1>2. CASE RaiseAtOnce(r, kind, "closed") \/ RaiseAtOnce(r, kind, "no_token")
  <2>1. /\ fut'[r].st \in {"closed", "no_token"} /\ pc'[r] = "await" /\ toCU' = toCU
        /\ Untouched(r)'
    BY <1>2 DEF RaiseAtOnce, Future, TypeOK, CallsType, Tasks, Untouched
  <2> QED
    BY <2>1 DEF EffectOf, AnswersCommand
<1> QED
  BY <1>1, <1>2 DEF Issue

LEMMA EffectTransmit ==
  ASSUME TypeOK, IdInv, NEW r \in Requests, EffectOf(r), pc[r] = "sendq",
         Transmit(r, frame[r], ws, up),
         UNCHANGED <<fut, frame, outcome, executed, toClient>>
  PROVE  EffectOf(r)'
<1> DEFINE w == [conn |-> ws, by |-> r, id |-> frame[r].id, kind |-> frame[r].kind,
                 tok |-> frame[r].tok]
<1>1. /\ pc'[r] \in {"drain", "await"}
      /\ toCU' = toCU \/ toCU' = toCU \cup {w}
  BY DEF Transmit, TypeOK, CallsType, Tasks
<1>2. /\ Untouched(r) /\ fut[r].st \in {"pending", "lost"}
      /\ \A m \in toClient : m.id # frame[r].id
  BY DEF EffectOf, IdInv, Tasks
<1>3. frame[r].kind = "LOGIN" => Untouched(r)'
  BY <1>1, <1>2 DEF Untouched
<1>4. \A f, g \in toCU' :
        f.by = r /\ g.by = r /\ f.kind # "LOGIN" /\ g.kind # "LOGIN" => f = g
  BY <1>1, <1>2 DEF Untouched
<1> QED
  BY <1>1, <1>2, <1>3, <1>4 DEF EffectOf, Waiting, Untouched, AnswersCommand

LEMMA EffectFinish ==
  ASSUME TypeOK, NEW r \in Requests, EffectOf(r), NEW o \in Outcomes, Finish(r, o),
         o # "none", o = "ok" => executed[r] = 1, o \in Calls!Refusals => Untouched(r)
  PROVE  EffectOf(r)'
<1>1. pc'[r] = "done" /\ outcome'[r] = o /\ UNCHANGED <<toCU, toClient, executed>>
  BY DEF Finish, TypeOK, CallsType, Tasks, netVars, cuVars
<1>2. Untouched(r) => Untouched(r)'
  BY <1>1 DEF Untouched
<1> QED
  BY <1>1, <1>2 DEF EffectOf, Waiting, AnswersCommand
\* What another task does to r: nothing.
LEMMA EffectOthers ==
  ASSUME TypeOK, NEW r \in Requests, EffectOf(r), NEW t \in Tasks \ {r},
         \/ t \in Requests /\ (Call(t) \/ RequestStep(t) \/ TimeoutStep(t) \/ Cancel(t))
         \/ SendStep(t) \/ (t = Sup /\ Connect)
  PROVE  EffectOf(r)'
<1>1. r \in Tasks /\ t \in Tasks
  BY DEF Tasks
<1>2. /\ frame'[r] = frame[r] /\ fut'[r] = fut[r] /\ pc'[r] = pc[r]
      /\ executed' = executed /\ toClient' \subseteq toClient
      /\ \A f \in toCU' : f \in toCU \/ f.by = t
  <2>1. CASE t \in Requests /\ (Call(t) \/ Relogin(t) \/ Retry(t))
    BY <1>1, <2>1 DEF Call, Relogin, Retry, Issue, RaiseAtOnce, Register, Transmit,
       TypeOK, CallsType, cuVars
  <2>2. CASE t \in Requests /\ (TokenRefused(t) \/ Return(t) \/ TimeoutStep(t) \/ Cancel(t))
    BY <1>1, <2>2 DEF TokenRefused, Return, TimeoutStep, CommandTimeout, ReloginTimeout,
       Cancel, Finish, TypeOK, CallsType, cuVars, netVars
  <2>3. CASE SendStep(t)
    BY <1>1, <2>3 DEF SendStep, SendQueued, Drained, DrainFails, Transmit, TypeOK,
       CallsType, cuVars, netVars
  <2>4. CASE t = Sup /\ Connect
    BY <1>1, <2>4 DEF Connect, Register, Transmit, TypeOK, CallsType, cuVars
  <2> QED
    BY <2>1, <2>2, <2>3, <2>4 DEF RequestStep
<1>3. outcome'[r] = outcome[r]
  BY <1>1 DEF Call, RequestStep, Relogin, Retry, TokenRefused, Return, TimeoutStep,
     CommandTimeout, ReloginTimeout, Cancel, Finish, SendStep, SendQueued, Drained,
     DrainFails, Connect, TypeOK, CallsType
<1> QED
  BY <1>2, <1>3, EffectKept

LEMMA EffectRequest ==
  ASSUME TypeOK, IdInv, NEW r \in Requests, EffectOf(r),
         Call(r) \/ RequestStep(r) \/ TimeoutStep(r) \/ Cancel(r)
  PROVE  EffectOf(r)'
<1> USE DEF Waiting
<1>1. /\ {"CMD", "RETRY", "LOGIN"} \subseteq Kinds
      /\ token \in Nat /\ NoToken \in Nat /\ fut[r].tok \in Nat /\ fut[r].st \in Futures
  BY DEF Tasks, Kinds, TypeOK, CallsType, NoToken
<1>2. CASE Call(r)
  <2>1. Untouched(r) /\ pc[r] # "done" /\ UNCHANGED <<outcome, executed, toClient>>
    BY <1>2 DEF Call, EffectOf, cuVars
  <2> QED
    BY <1>1, <1>2, <2>1, EffectIssue DEF Call
<1>3. CASE Relogin(r)
  <2>1. Untouched(r) /\ pc[r] # "done" /\ UNCHANGED <<outcome, executed, toClient>>
    BY <1>3 DEF Relogin, EffectOf, cuVars
  <2> QED
    BY <1>1, <1>3, <2>1, EffectIssue DEF Relogin
<1>4. CASE Retry(r)
  <2>1. Untouched(r) /\ pc[r] # "done" /\ UNCHANGED <<outcome, executed, toClient>>
    BY <1>4 DEF Retry, Retries, EffectOf, cuVars
  <2> QED
    BY <1>1, <1>4, <2>1, EffectIssue DEF Retry
<1>5. CASE TokenRefused(r)
  <2>1. /\ pc'[r] = "lockq" /\ Untouched(r) /\ UNCHANGED <<outcome, executed, toClient, toCU>>
    BY <1>5 DEF TokenRefused, Relogs, EffectOf, cuVars, netVars, TypeOK, CallsType, Tasks
  <2> QED
    BY <1>5, <2>1 DEF EffectOf, Untouched, AnswersCommand, TokenRefused
<1>6. CASE Return(r)
  <2>1. /\ fut[r].st \in Outcomes /\ fut[r].st # "none"
        /\ fut[r].st = "ok" => executed[r] = 1
        /\ fut[r].st \in Calls!Refusals => Untouched(r)
    BY <1>1, <1>6 DEF Return, Retries, EffectOf, Outcomes, Futures, Raised, Replies,
       Calls!Refusals
  <2> QED
    BY <1>6, <2>1, EffectFinish DEF Return
<1>7. CASE CommandTimeout(r) \/ Cancel(r)
  BY <1>7, EffectFinish DEF CommandTimeout, Cancel, Outcomes, Calls!Refusals
<1>8. CASE ReloginTimeout(r)
  <2>1. Untouched(r)
    BY <1>8 DEF ReloginTimeout, EffectOf
  <2> QED
    BY <1>8, <2>1, EffectFinish DEF ReloginTimeout, Outcomes
<1> QED
  BY <1>2, <1>3, <1>4, <1>5, <1>6, <1>7, <1>8 DEF RequestStep, TimeoutStep

LEMMA EffectSend ==
  ASSUME TypeOK, IdInv, NEW r \in Requests, EffectOf(r), SendStep(r)
  PROVE  EffectOf(r)'
<1>1. CASE pc[r] = "sendq" /\ Transmit(r, frame[r], ws, up)
           /\ UNCHANGED <<fut, frame, outcome, executed, toClient>>
  BY <1>1, EffectTransmit
<1>2. CASE /\ pc[r] \in {"sendq", "drain"} /\ pc'[r] = "await"
           /\ fut'[r] = fut[r] \/ fut'[r].st = "send_error"
           /\ UNCHANGED <<frame, outcome, executed, toCU, toClient>>
  BY <1>2, EffectKept DEF Waiting
<1> QED
  BY <1>1, <1>2 DEF SendStep, SendQueued, Drained, DrainFails, Future, netVars, cuVars,
     TypeOK, CallsType, Tasks

LEMMA EffectDispatch ==
  ASSUME TypeOK, NEW r \in Requests, EffectOf(r), NEW m \in toClient, Dispatch(m)
  PROVE  EffectOf(r)'
<1>1. /\ UNCHANGED <<pc, frame, outcome, executed, toCU>> /\ toClient' \subseteq toClient
      /\ r \in Tasks /\ m.st \in Replies
  BY DEF Dispatch, cuVars, Tasks, TypeOK, NetType
<1>2. CASE fut'[r] = fut[r]
  BY <1>1, <1>2, EffectKept
<1>3. CASE fut'[r] = [st |-> m.st, tok |-> m.tok] /\ Waiting(r) /\ fut[r].st = "pending"
           /\ frame[r].id = m.id
  <2>1. fut'[r].st = m.st /\ m.st \in {"ok", "bad_token", "rejected"}
    BY <1>1, <1>3 DEF Replies
  <2>2. IF m.st = "ok" THEN frame[r].kind = "LOGIN" \/ executed[r] = 1 ELSE Untouched(r)
    BY <1>3, <2>1 DEF EffectOf, AnswersCommand
  <2>3. /\ Untouched(r) => Untouched(r)'
        /\ \A n \in toClient' : ~AnswersCommand(n, r)'
    BY <1>1, <2>1 DEF Untouched, AnswersCommand
  <2> QED
    BY <1>1, <1>3, <2>1, <2>2, <2>3 DEF EffectOf, Waiting
<1> QED
  BY <1>1, <1>2, <1>3 DEF Dispatch
\* The CU takes frame f; it may execute it and answer it.
LEMMA EffectFrame ==
  ASSUME TypeOK, IdInv, NEW r \in Requests, EffectOf(r), NEW f \in toCU,
         CuLogsIn(f) \/ CuExecutes(f) \/ CuRefusesToken(f) \/ CuRejects(f) \/ CuSilent(f)
  PROVE  EffectOf(r)'
<1> DEFINE answer(st, tok) == [id |-> f.id, st |-> st, tok |-> tok]
<1>1. /\ UNCHANGED <<pc, fut, frame, outcome>> /\ toCU' = toCU \ {f} /\ r \in Tasks
  BY DEF CuLogsIn, CuExecutes, CuRefusesToken, CuRejects, CuSilent, CuVarsKept, callVars,
     Tasks
<1>2. \A m \in toClient' \ toClient : m.id = f.id
  BY DEF CuLogsIn, CuExecutes, CuRefusesToken, CuRejects, CuSilent, Reply
<1>3. CASE f.by = r /\ f.kind # "LOGIN"
  <2>1. executed[r] = 0 /\ ~Untouched(r)
    BY <1>3 DEF EffectOf, Untouched
  <2>2. \A g \in toCU' : g.by = r => g.kind = "LOGIN"
    BY <1>1, <1>3 DEF EffectOf
  <2>3. CASE executed'[r] = 0 /\ \A m \in toClient' : m \in toClient \/ m.st # "ok"
    <3>1. Untouched(r)'
      BY <2>2, <2>3 DEF Untouched
    <3>2. \A m \in toClient' : AnswersCommand(m, r)' =>
            IF m.st = "ok" THEN executed'[r] = 1 ELSE Untouched(r)'
      BY <1>1, <2>1, <2>3, <3>1 DEF EffectOf, AnswersCommand, Waiting
    <3> QED
      BY <1>1, <2>1, <2>2, <2>3, <3>1, <3>2 DEF EffectOf, Waiting
  <2>4. CASE executed'[r] = 1 /\ \A m \in toClient' : m \in toClient \/ m.st = "ok"
    <3>1. \A m \in toClient' : AnswersCommand(m, r)' =>
            IF m.st = "ok" THEN executed'[r] = 1 ELSE Untouched(r)'
      BY <1>1, <2>1, <2>4 DEF EffectOf, AnswersCommand, Waiting
    <3> QED
      BY <1>1, <2>1, <2>2, <2>4, <3>1 DEF EffectOf, Waiting
  <2>5. CASE CuExecutes(f)
    <3>1. executed'[r] = 1
      BY <1>3, <2>1, <2>5 DEF CuExecutes, Executes, TypeOK, CuType
    <3>2. \A m \in toClient' : m \in toClient \/ m.st = "ok"
      BY <2>5 DEF CuExecutes, Reply
    <3> QED
      BY <2>4, <3>1, <3>2
  <2>6. CASE CuRefusesToken(f) \/ CuRejects(f)
    <3>1. \A m \in toClient' : m \in toClient \/ m.st # "ok"
      BY <2>6 DEF CuRefusesToken, CuRejects, Reply
    <3>2. executed' = executed
      BY <2>6 DEF CuRefusesToken, CuRejects
    <3> QED
      BY <2>1, <2>3, <3>1, <3>2
  <2>7. CASE CuSilent(f)
    <3>1. executed' = executed \/ executed'[r] = 1
      BY <1>3, <2>1, <2>7 DEF CuSilent, Executes, TypeOK, CuType
    <3>2. toClient' = toClient
      BY <2>7 DEF CuSilent
    <3> QED
      BY <2>1, <2>3, <2>4, <3>1, <3>2
  <2> QED
    BY <1>3, <2>5, <2>6, <2>7 DEF CuLogsIn
<1>4. CASE ~(f.by = r /\ f.kind # "LOGIN")
  <2>1. executed'[r] = executed[r]
    <3>1. CASE f.by = r
      BY <1>4, <3>1 DEF CuLogsIn, CuExecutes, CuRefusesToken, CuRejects, CuSilent
    <3>2. CASE f.by # r
      BY <3>2 DEF CuLogsIn, CuExecutes, CuRefusesToken, CuRejects, CuSilent, Executes,
         TypeOK, CuType
    <3> QED
      BY <3>1, <3>2
  <2>2. CASE f.by # r \/ f.kind = "LOGIN"
    <3>1. \A m \in toClient' : m \in toClient \/ ~AnswersCommand(m, r)
      BY <1>1, <1>2, <2>2 DEF AnswersCommand, IdInv
    <3> QED
      BY <1>1, <2>1, <3>1, EffectKept
  <2> QED
    BY <1>4, <2>2
<1> QED
  BY <1>3, <1>4
LEMMA EffectNext == ASSUME TypeOK, IdInv, EffectInv, [Next]_vars PROVE EffectInv'
<1> SUFFICES ASSUME NEW r \in Requests PROVE EffectOf(r)'
  BY DEF EffectInv
<1>0. EffectOf(r) /\ r \in Tasks /\ r # Sup
  BY SupAssumption DEF EffectInv, Tasks
<1>1. CASE Call(r) \/ RequestStep(r) \/ TimeoutStep(r) \/ Cancel(r)
  BY <1>0, <1>1, EffectRequest
<1>2. CASE SendStep(r)
  BY <1>0, <1>2, EffectSend
<1>3. CASE \/ \E t \in Requests \ {r} : Call(t) \/ RequestStep(t) \/ TimeoutStep(t) \/ Cancel(t)
           \/ \E t \in Tasks \ {r} : SendStep(t)
           \/ Connect
  BY <1>0, <1>3, EffectOthers DEF Tasks
<1>4. CASE \E m \in toClient : Dispatch(m)
  BY <1>0, <1>4, EffectDispatch
<1>5. CASE \E f \in toCU : CuLogsIn(f) \/ CuExecutes(f) \/ CuRefusesToken(f)
                           \/ CuRejects(f) \/ CuSilent(f)
  BY <1>0, <1>5, EffectFrame
<1>6. CASE ConnectFails \/ SupFailClosed \/ SupReaderExited \/ StopTeardown \/ GiveUpLogin
  <2>1. /\ UNCHANGED <<executed, frame, outcome, toCU>> /\ toClient' \subseteq toClient
        /\ pc'[r] = pc[r]
    BY <1>0, <1>6 DEF ConnectFails, SupFailClosed, SupReaderExited, StopTeardown,
       GiveUpLogin, CloseSocket, CancelReader, netVars, cuVars, TypeOK, CallsType
  <2>2. fut'[r] = fut[r] \/ fut'[r].st = "lost"
    BY <1>0, <1>6 DEF ConnectFails, SupFailClosed, SupReaderExited, StopTeardown,
       GiveUpLogin, RejectPending, Future
  <2> QED
    BY <1>0, <2>1, <2>2, EffectKept
<1>7. CASE SupLoginOk \/ Stop
  <2>1. /\ UNCHANGED <<executed, frame, fut, outcome, toCU, toClient>> /\ pc'[r] = pc[r]
    BY <1>0, <1>7 DEF SupLoginOk, Stop, netVars, cuVars, TypeOK, CallsType
  <2> QED
    BY <1>0, <2>1, EffectKept
<1>8. CASE \/ Start \/ SupReaderGone \/ SupExitClosed \/ SupWakes \/ StopReaderGone
           \/ StopClosed \/ ReaderExits \/ ReaderCancelled \/ ReaderDies
           \/ CuForgetsToken \/ CuDrops \/ UNCHANGED vars
  <2>1. /\ UNCHANGED <<executed, frame, fut, outcome, pc>>
        /\ toCU' \subseteq toCU /\ toClient' \subseteq toClient
    BY <1>8 DEF Start, SupReaderGone, SupExitClosed, SupWakes, StopReaderGone, StopClosed,
       ReaderExits, ReaderCancelled, ReaderDies, CuForgetsToken, CuDrops, CuVarsKept,
       CloseSocket, netVars, cuVars, callVars, vars
  <2> QED
    BY <1>0, <2>1, EffectKept
<1> QED
  BY <1>1, <1>2, <1>3, <1>4, <1>5, <1>6, <1>7, <1>8
     DEF Next, SupStep, SupLoginFails, SupLoginTimeout, StopStep, ReaderStep, CuAnswers,
         CuFaults

\* A command is executed at most once by the CU: its retry after INVALID_TOKEN
\* never repeats an effect, over any number of reconnects and lost replies.
THEOREM NeverTwice == Spec => []AtMostOnceExecuted
<1>1. ASSUME EffectInv, NEW r \in Requests PROVE executed[r] \in {0, 1}
  <2>1. EffectOf(r)
    BY <1>1 DEF EffectInv
  <2> QED
    BY <2>1 DEF EffectOf
<1>2. \A n \in {0, 1} : n <= 1
  OBVIOUS
<1>3. EffectInv => AtMostOnceExecuted
  BY <1>1, <1>2, Zenon DEF AtMostOnceExecuted
<1> QED
  BY <1>3, InitType, NextType, IdInit, IdNext, EffectInit, EffectNext, PTL DEF Spec

\* The invariant of the client as a whole: sockets, command ids, effects and waiting
\* tasks agree at every await of every task.
THEOREM Invariant == Spec => []InductiveInv
<1>1. Init => WaiterResolvable
  BY DEF Init, WaiterResolvable, Waiting
<1>2. TypeOK /\ SocketInv /\ IdInv /\ EffectInv /\ WaiterResolvable => InductiveInv
  BY DEF InductiveInv
<1> QED
  BY <1>1, <1>2, InitType, NextType, SocketInit, SocketNext, IdInit, IdNext, EffectInit,
     EffectNext, ResolvableNext, PTL DEF Spec

-----------------------------------------------------------------------------
(* Refinement *)

LEMMA RefinesInit == Init => Calls!Init
BY DEF Init, Calls!Init, Tasks

\* The part of CommandCalls' state that a step leaves alone.
CallsKept == UNCHANGED <<executed, outcome>> /\ \A r \in Requests :
               pc'[r] = pc[r] \/ {pc[r], pc'[r]} \cap {"idle", "done"} = {}

LEMMA RefinesStutter == ASSUME CallsKept PROVE UNCHANGED Calls!vars
<1> DEFINE ph == [r \in Requests |-> IF pc[r] \in {"idle", "done"} THEN pc[r] ELSE "pending"]
<1>1. ph' = ph
  BY DEF CallsKept
<1> QED
  BY <1>1 DEF CallsKept, Calls!vars

LEMMA RefinesBegin ==
  ASSUME TypeOK, NEW r \in Requests, pc[r] = "idle",
         NEW p \in PcValues \ {"idle", "done"}, pc' = [pc EXCEPT ![r] = p],
         UNCHANGED <<executed, outcome>>
  PROVE  Calls!Begin(r)
<1> DEFINE ph == [t \in Requests |-> IF pc[t] \in {"idle", "done"} THEN pc[t] ELSE "pending"]
<1>1. r \in Tasks /\ Requests \subseteq Tasks
  BY DEF Tasks
<1>2. \A t \in Requests : pc'[t] = IF t = r THEN p ELSE pc[t]
  BY <1>1 DEF TypeOK, CallsType
<1>3. ph[r] = "idle"
  OBVIOUS
<1>4. ph' = [ph EXCEPT ![r] = "pending"]
  BY <1>2
<1> QED
  BY <1>3, <1>4 DEF Calls!Begin

LEMMA RefinesEnd ==
  ASSUME TypeOK, EffectInv', NEW r \in Requests, pc[r] \notin {"idle", "done"},
         NEW o \in {"ok"} \cup Calls!Refusals \cup Calls!Doubts, Finish(r, o)
  PROVE  Calls!End(r, o)
<1> DEFINE ph == [t \in Requests |-> IF pc[t] \in {"idle", "done"} THEN pc[t] ELSE "pending"]
<1>1. r \in Tasks /\ Requests \subseteq Tasks
  BY DEF Tasks
<1>2. /\ pc'[r] = "done" /\ outcome'[r] = o /\ UNCHANGED executed
      /\ \A t \in Requests \ {r} : pc'[t] = pc[t]
  BY <1>1 DEF TypeOK, CallsType, Finish, cuVars
<1>3. ph[r] = "pending"
  OBVIOUS
<1>4. ph' = [ph EXCEPT ![r] = "done"]
  BY <1>2
<1>5. EffectOf(r)'
  BY DEF EffectInv
<1>6. /\ o = "ok" => executed[r] = 1
      /\ o \in Calls!Refusals => executed[r] = 0
  BY <1>2, <1>5 DEF EffectOf, Untouched
<1>7. outcome' = [outcome EXCEPT ![r] = o]
  BY DEF Finish
<1> QED
  BY <1>2, <1>3, <1>4, <1>6, <1>7 DEF Calls!End

\* A frame of the supervisor executes nothing; one of a request finds it
\* unexecuted and, were it over, in doubt.
LEMMA RefinesEffect ==
  ASSUME TypeOK, EffectInv, NEW f \in toCU, f.kind # "LOGIN", Executes(f),
         UNCHANGED <<pc, outcome>>
  PROVE  [Calls!Next]_(Calls!vars)
<1>1. CASE f.by \notin Requests
  <2>1. UNCHANGED executed
    BY <1>1 DEF Executes, TypeOK, CuType
  <2> QED
    BY <2>1, RefinesStutter DEF CallsKept
<1>2. CASE f.by \in Requests
  <2> DEFINE r == f.by
  <2> DEFINE ph == [t \in Requests |-> IF pc[t] \in {"idle", "done"} THEN pc[t] ELSE "pending"]
  <2>1. EffectOf(r) /\ outcome[r] \in Outcomes
    BY <1>2 DEF EffectInv, TypeOK, CallsType
  <2>2. executed[r] = 0 /\ ~Untouched(r)
    BY <2>1 DEF EffectOf, Untouched
  <2>3. outcome[r] \in Calls!Doubts \cup {"none"}
    BY <2>1, <2>2 DEF EffectOf, Outcomes, Futures, Raised, Replies, Calls!Doubts,
       Calls!Refusals
  <2>4. ph[r] # "idle"
    BY <1>2, <2>1, <2>2 DEF EffectOf
  <2>5. executed' = [executed EXCEPT ![r] = 1]
    BY <1>2, <2>2 DEF Executes, TypeOK, CuType
  <2>6. UNCHANGED ph
    OBVIOUS
  <2>7. Calls!TakeEffect(r)
    BY <2>2, <2>3, <2>4, <2>5, <2>6 DEF Calls!TakeEffect
  <2> QED
    BY <1>2, <2>7 DEF Calls!Next
<1> QED
  BY <1>1, <1>2

\* The steps of one request.
LEMMA RefinesRequest ==
  ASSUME TypeOK, EffectInv, EffectInv', NEW r \in Requests,
         Call(r) \/ RequestStep(r) \/ TimeoutStep(r) \/ Cancel(r)
  PROVE  [Calls!Next]_(Calls!vars)
<1>0. r \in Tasks /\ EffectOf(r) /\ pc \in [Tasks -> PcValues] /\ fut[r].st \in Futures
  BY DEF Tasks, EffectInv, TypeOK, CallsType
<1>1. ASSUME NEW kind, NEW tok, Issue(r, kind, tok)
      PROVE  \E p \in {"sendq", "drain", "await"} : pc' = [pc EXCEPT ![r] = p]
  BY <1>1 DEF Issue, RaiseAtOnce, Register, Transmit
<1>2. CASE Call(r)
  <2>1. pc[r] = "idle" /\ UNCHANGED <<executed, outcome>>
    BY <1>2 DEF Call, cuVars
  <2>2. \E p \in {"sendq", "drain", "await"} : pc' = [pc EXCEPT ![r] = p]
    BY <1>1, <1>2 DEF Call
  <2>3. Calls!Begin(r)
    BY <2>1, <2>2, RefinesBegin DEF PcValues
  <2> QED
    BY <2>3 DEF Calls!Next
<1>3. CASE TokenRefused(r) \/ Relogin(r) \/ Retry(r)
  <2>1. pc[r] \in {"await", "lockq"} /\ UNCHANGED <<executed, outcome>>
    BY <1>3 DEF TokenRefused, Relogin, Retry, cuVars
  <2>2. \E p \in {"sendq", "drain", "await", "lockq"} : pc' = [pc EXCEPT ![r] = p]
    BY <1>1, <1>3 DEF TokenRefused, Relogin, Retry
  <2>3. CallsKept
    BY <1>0, <2>1, <2>2 DEF CallsKept, Tasks
  <2> QED
    BY <2>3, RefinesStutter
<1>4. CASE Return(r) \/ TimeoutStep(r) \/ Cancel(r)
  <2>1. pc[r] \in {"sendq", "drain", "await", "lockq"}
    BY <1>4 DEF Return, TimeoutStep, CommandTimeout, ReloginTimeout, Cancel, Waiting
  <2>2. \E o \in {"ok"} \cup Calls!Refusals \cup Calls!Doubts : Finish(r, o)
    <3>1. CASE Return(r)
      <4>1. fut[r].st \in {"ok"} \cup Calls!Refusals \cup Calls!Doubts
        BY <1>0, <3>1 DEF Return, EffectOf, Waiting, Futures, Replies, Raised,
           Calls!Refusals, Calls!Doubts
      <4> QED
        BY <3>1, <4>1 DEF Return
    <3>2. CASE TimeoutStep(r) \/ Cancel(r)
      BY <3>2 DEF TimeoutStep, CommandTimeout, ReloginTimeout, Cancel, Calls!Refusals,
         Calls!Doubts
    <3> QED
      BY <1>4, <3>1, <3>2
  <2>3. PICK o \in {"ok"} \cup Calls!Refusals \cup Calls!Doubts : Finish(r, o)
    BY <2>2
  <2>4. Calls!End(r, o)
    BY <2>1, <2>3, RefinesEnd
  <2> QED
    BY <2>4 DEF Calls!Next
<1> QED
  BY <1>2, <1>3, <1>4 DEF RequestStep

\* Every step is a step of one call as CommandCalls has it, or a stutter.
LEMMA RefinesNext ==
  ASSUME TypeOK, EffectInv, EffectInv', [Next]_vars
  PROVE  [Calls!Next]_(Calls!vars)
<1>1. CASE \E r \in Requests : Call(r) \/ RequestStep(r) \/ TimeoutStep(r) \/ Cancel(r)
  BY <1>1, RefinesRequest
<1>2. CASE \E f \in toCU : CuExecutes(f) \/ CuSilent(f)
  <2>1. PICK f \in toCU : CuExecutes(f) \/ CuSilent(f)
    BY <1>2
  <2>2. UNCHANGED <<pc, outcome>>
    BY <2>1 DEF CuExecutes, CuSilent, CuVarsKept, callVars
  <2>3. UNCHANGED executed \/ (f.kind # "LOGIN" /\ Executes(f))
    BY <2>1 DEF CuExecutes, CuSilent
  <2>4. CASE UNCHANGED executed
    BY <2>2, <2>4, RefinesStutter DEF CallsKept
  <2> QED
    BY <2>2, <2>3, <2>4, RefinesEffect
<1>3. CASE Connect \/ (\E t \in Tasks : SendStep(t))
  <2>1. UNCHANGED <<executed, outcome>>
    BY <1>3 DEF Connect, SendStep, SendQueued, Drained, DrainFails, cuVars
  <2>2. \A r \in Requests : r \in Tasks /\ r # Sup
    BY SupAssumption DEF Tasks
  <2>3. ASSUME Connect PROVE CallsKept
    BY <2>1, <2>2, <2>3
       DEF Connect, Register, Transmit, CallsKept, TypeOK, CallsType
  <2>4. ASSUME NEW t \in Tasks, SendStep(t)
        PROVE  /\ pc[t] \in {"sendq", "drain"}
               /\ \E p \in {"drain", "await"} : pc' = [pc EXCEPT ![t] = p]
    BY <2>4 DEF SendStep, SendQueued, Drained, DrainFails, Transmit
  <2>5. ASSUME NEW t \in Tasks, SendStep(t) PROVE CallsKept
    <3>1. \A r \in Requests \ {t} : pc'[r] = pc[r]
      BY <2>2, <2>4, <2>5 DEF TypeOK, CallsType
    <3>2. pc[t] \in {"sendq", "drain"} /\ pc'[t] \in {"drain", "await"}
      BY <2>4, <2>5 DEF TypeOK, CallsType
    <3> QED
      BY <2>1, <3>1, <3>2 DEF CallsKept
  <2> QED
    BY <1>3, <2>3, <2>5, RefinesStutter
<1>4. CASE SupLoginOk \/ SupLoginFails \/ SupLoginTimeout \/ Stop
  <2>1. UNCHANGED <<executed, outcome>>
    BY <1>4 DEF SupLoginOk, SupLoginFails, SupLoginTimeout, Stop, GiveUpLogin, cuVars
  <2>2. pc' = pc \/ pc' = [pc EXCEPT ![Sup] = "idle"]
    BY <1>4 DEF SupLoginOk, SupLoginFails, SupLoginTimeout, Stop, GiveUpLogin
  <2>3. CallsKept
    BY <2>1, <2>2, SupAssumption DEF CallsKept, TypeOK, CallsType
  <2> QED
    BY <2>3, RefinesStutter
<1>5. CASE \/ Start \/ ConnectFails \/ SupReaderGone \/ SupFailClosed \/ SupReaderExited
           \/ SupExitClosed \/ SupWakes \/ StopStep \/ ReaderStep \/ ReaderDies
           \/ (\E f \in toCU : CuLogsIn(f) \/ CuRefusesToken(f) \/ CuRejects(f))
           \/ CuForgetsToken \/ CuDrops \/ UNCHANGED vars
  <2>1. UNCHANGED <<executed, outcome, pc>>
    BY <1>5 DEF Start, ConnectFails, SupReaderGone, SupFailClosed, SupReaderExited,
       SupExitClosed, SupWakes, StopStep, StopTeardown, StopReaderGone, StopClosed,
       ReaderStep, Dispatch, ReaderExits, ReaderCancelled, ReaderDies, CuLogsIn,
       CuRefusesToken, CuRejects, CuForgetsToken, CuDrops, CuVarsKept, callVars, cuVars,
       vars
  <2> QED
    BY <2>1, RefinesStutter DEF CallsKept
<1> QED
  BY <1>1, <1>2, <1>3, <1>4, <1>5 DEF Next, SupStep, CuAnswers, CuFaults

\* The client implements CommandCalls for any number of callers, faults and
\* reconnects: what a call reports is true of what the CU did.
THEOREM CallsImplemented == Spec => ImplementsCalls
<1>1. Init => Calls!Init
  BY RefinesInit
<1>2. TypeOK /\ EffectInv /\ EffectInv' /\ [Next]_vars => [Calls!Next]_(Calls!vars)
  BY RefinesNext
<1> QED
  BY <1>1, <1>2, InitType, NextType, IdInit, IdNext, EffectInit, EffectNext, PTL
     DEF Spec, ImplementsCalls, Calls!Spec

\* After stop() no command, retry or re-LOGIN is sent and no socket opened.
THEOREM StopStaysFinal == Spec => StopIsFinal
<1>1. ASSUME TypeOK, SocketInv, SocketInv', [Next]_vars, stopPc = "stopped"
      PROVE  toCU' \subseteq toCU /\ open' = {} /\ stopPc' = "stopped"
  <2>1. ws = NoConn /\ open = {} /\ sup = "off" /\ reader = "none" /\ starter # "idle"
    BY <1>1 DEF SocketInv, NoConn
  <2>2. ~SocketOpen
    BY <2>1 DEF SocketOpen
  <2>3. stopPc' = "stopped"
    BY <1>1, <2>1 DEF Next, vars, lifeVars, Start, Stop, SupStep, SupLoginTimeout, Connect,
       ConnectFails, SupLoginOk, SupLoginFails, SupReaderGone, SupFailClosed,
       SupReaderExited, SupExitClosed, SupWakes, StopStep, StopTeardown, StopReaderGone,
       StopClosed, ReaderStep, Dispatch, ReaderExits, ReaderCancelled, ReaderDies,
       SendStep, SendQueued, Drained, DrainFails, Call, RequestStep, TokenRefused,
       Relogin, Retry, Return, TimeoutStep, CommandTimeout, ReloginTimeout, Cancel,
       Finish, CuAnswers, CuFaults, CuLogsIn, CuExecutes, CuRefusesToken, CuRejects,
       CuSilent, CuForgetsToken, CuDrops, CuVarsKept
  <2>4. open' = {}
    BY <1>1, <2>3 DEF SocketInv, NoConn
  <2>5. toCU' \subseteq toCU
    BY <1>1, <2>1, <2>2 DEF Next, vars, netVars, Start, Stop, SupStep, SupLoginTimeout,
       Connect, ConnectFails, SupLoginOk, SupLoginFails, SupReaderGone, SupFailClosed,
       SupReaderExited, SupExitClosed, SupWakes, StopStep, StopTeardown, StopReaderGone,
       StopClosed, ReaderStep, Dispatch, ReaderExits, ReaderCancelled, ReaderDies,
       SendStep, SendQueued, Drained, DrainFails, Call, RequestStep, TokenRefused,
       Relogin, Retry, Return, TimeoutStep, CommandTimeout, ReloginTimeout, Cancel,
       Finish, CuAnswers, CuFaults, CuLogsIn, CuExecutes, CuRefusesToken, CuRejects,
       CuSilent, CuForgetsToken, CuDrops, CuVarsKept, Issue, RaiseAtOnce, CloseSocket,
       CancelReader
  <2> QED
    BY <2>3, <2>4, <2>5
<1>2. TypeOK /\ SocketInv /\ SocketInv' /\ [Next]_vars
        => [stopPc = "stopped" =>
              toCU' \subseteq toCU /\ open' = {} /\ stopPc' = "stopped"]_vars
  BY <1>1
<1> QED
  BY <1>2, InitType, NextType, SocketInit, SocketNext, PTL DEF Spec, StopIsFinal

-----------------------------------------------------------------------------
(* What is left in _pending *)

\* Ids in _pending without a task that waits, and who may have left them there.
Orphans == pending \ {frame[t].id : t \in {u \in Tasks : Waiting(u)}}
Leavers == {r \in Requests : outcome[r] \in {"cancelled", "login_timeout"}}
CutShort == IF stopPc = "await_sup" THEN 1 ELSE 0

\* A future that is resolved has left _pending.
SettledInv ==
  \A t \in Tasks : Waiting(t) /\ fut[t].st # "pending" => frame[t].id \notin pending

LEMMA SettledNext == ASSUME TypeOK, IdInv, SettledInv, [Next]_vars PROVE SettledInv'
<1> USE DEF Waiting, Future
<1>0. /\ pc \in [Tasks -> PcValues] /\ DOMAIN fut = Tasks /\ DOMAIN frame = Tasks
      /\ nextId \in Nat /\ 0 \notin pending /\ nextId \notin pending
      /\ \A t \in Tasks : frame[t].id # nextId
      /\ Sup \in Tasks /\ Requests \subseteq Tasks
  BY DEF TypeOK, CallsType, IdInv, Frames, Tasks
<1>1. ASSUME UNCHANGED <<pc, frame, fut, pending>> PROVE SettledInv'
  BY <1>1 DEF SettledInv
<1>2. ASSUME pending' = {} PROVE SettledInv'
  BY <1>2 DEF SettledInv
<1>3. ASSUME NEW t \in Tasks, NEW kind, NEW tok, NEW c, NEW isUp,
             Register(t, kind, tok, c, isUp)
      PROVE  SettledInv'
  BY <1>0, <1>3 DEF Register, Transmit, SettledInv
<1>4. ASSUME NEW t \in Tasks, NEW kind, NEW tok, Issue(t, kind, tok) PROVE SettledInv'
  <2>1. ASSUME NEW st, RaiseAtOnce(t, kind, st) PROVE SettledInv'
    BY <1>0, <2>1 DEF RaiseAtOnce, SettledInv
  <2> QED
    BY <1>3, <1>4, <2>1 DEF Issue
<1>5. ASSUME NEW r \in Requests, NEW o, Finish(r, o), pending' \subseteq pending
      PROVE  SettledInv'
  BY <1>0, <1>5 DEF Finish, SettledInv
<1>6. CASE Connect
  BY <1>0, <1>3, <1>6 DEF Connect
<1>7. CASE SupLoginOk \/ Stop
  BY <1>0, <1>7 DEF SupLoginOk, Stop, SettledInv
<1>8. CASE ConnectFails \/ SupLoginFails \/ SupLoginTimeout \/ SupFailClosed
           \/ SupReaderExited \/ StopTeardown
  BY <1>2, <1>8 DEF ConnectFails, SupLoginFails, SupLoginTimeout, GiveUpLogin,
     SupFailClosed, SupReaderExited, StopTeardown, RejectPending
<1>9. ASSUME NEW m \in toClient, Dispatch(m) PROVE SettledInv'
  BY <1>0, <1>9 DEF Dispatch, SettledInv
<1>10. ASSUME NEW t \in Tasks, SendStep(t) PROVE SettledInv'
  <2>1. CASE SendQueued(t)
    BY <1>0, <2>1 DEF SendQueued, Transmit, SettledInv
  <2>2. CASE Drained(t) \/ DrainFails(t)
    BY <1>0, <2>2 DEF Drained, DrainFails, SettledInv
  <2> QED
    BY <1>10, <2>1, <2>2 DEF SendStep
<1>11. ASSUME NEW r \in Requests, Call(r) \/ Relogin(r) \/ Retry(r) PROVE SettledInv'
  BY <1>0, <1>4, <1>11 DEF Call, Relogin, Retry
<1>12. ASSUME NEW r \in Requests, TokenRefused(r) PROVE SettledInv'
  BY <1>0, <1>12 DEF TokenRefused, SettledInv
<1>13. ASSUME NEW r \in Requests, Return(r) \/ TimeoutStep(r) \/ Cancel(r)
       PROVE  SettledInv'
  BY <1>5, <1>13 DEF Return, TimeoutStep, CommandTimeout, ReloginTimeout, Cancel
<1>14. CASE \/ Start \/ SupReaderGone \/ SupExitClosed \/ SupWakes
            \/ StopReaderGone \/ StopClosed \/ ReaderExits \/ ReaderCancelled
            \/ ReaderDies \/ CuAnswers \/ CuFaults \/ UNCHANGED vars
  BY <1>1, <1>14 DEF Start, SupReaderGone, SupExitClosed, SupWakes, StopReaderGone,
     StopClosed, ReaderExits, ReaderCancelled, ReaderDies, CuAnswers, CuFaults, CuLogsIn,
     CuExecutes, CuRefusesToken, CuRejects, CuSilent, CuForgetsToken, CuDrops,
     CuVarsKept, callVars, vars
<1> QED
  BY <1>6, <1>7, <1>8, <1>9, <1>10, <1>11, <1>12, <1>13, <1>14
     DEF Next, SupStep, StopStep, ReaderStep, RequestStep

\* Between its LOGINs the supervisor waits for no reply.
SupIdle == Waiting(Sup) => sup = "login"

LEMMA SupIdleNext == ASSUME TypeOK, SocketInv, SupIdle, [Next]_vars PROVE SupIdle'
<1> USE DEF SupIdle, Waiting
<1>0. /\ pc \in [Tasks -> PcValues] /\ Sup \in Tasks /\ Sup \notin Requests
  BY SupAssumption DEF TypeOK, CallsType, Tasks
<1>1. CASE Connect \/ SupLoginOk \/ SupLoginFails \/ SupLoginTimeout \/ Stop
  BY <1>0, <1>1 DEF Connect, SupLoginOk, SupLoginFails, SupLoginTimeout, GiveUpLogin, Stop
<1>2. CASE \/ Start \/ ConnectFails \/ SupReaderGone \/ SupFailClosed \/ SupReaderExited
           \/ SupExitClosed \/ SupWakes
  BY <1>2 DEF Start, ConnectFails, SupReaderGone, SupFailClosed, SupReaderExited,
     SupExitClosed, SupWakes, callVars, SocketInv
<1>3. ASSUME NEW t \in Tasks, SendStep(t) PROVE SupIdle'
  <2>1. /\ UNCHANGED sup /\ Waiting(t)
        /\ \E p \in {"drain", "await"} : pc' = [pc EXCEPT ![t] = p]
    BY <1>3 DEF SendStep, SendQueued, Drained, DrainFails, Transmit, lifeVars
  <2> QED
    BY <1>0, <2>1
<1>4. ASSUME NEW r \in Requests, Call(r) \/ RequestStep(r) \/ TimeoutStep(r) \/ Cancel(r)
      PROVE  SupIdle'
  <2>1. /\ UNCHANGED sup
        /\ \E p : pc' = [pc EXCEPT ![r] = p]
    BY <1>4 DEF Call, RequestStep, TokenRefused, Relogin, Retry, Return, TimeoutStep,
       CommandTimeout, ReloginTimeout, Cancel, Finish, Issue, RaiseAtOnce, Register,
       Transmit, lifeVars
  <2> QED
    BY <1>0, <2>1
<1>5. CASE \/ StopStep \/ ReaderStep \/ ReaderDies \/ CuAnswers \/ CuFaults
           \/ UNCHANGED vars
  BY <1>5 DEF StopStep, StopTeardown, StopReaderGone, StopClosed, ReaderStep, Dispatch,
     ReaderExits, ReaderCancelled, ReaderDies, CuAnswers, CuFaults, CuLogsIn, CuExecutes,
     CuRefusesToken, CuRejects, CuSilent, CuForgetsToken, CuDrops, CuVarsKept, callVars,
     lifeVars, vars
<1> QED
  BY <1>1, <1>2, <1>3, <1>4, <1>5 DEF Next, SupStep

\* What a step may do to the entries nobody waits for: leave no new one, clear
\* them all, leave that of r, which is over, or that of LOGIN.
NoneLeft == Orphans' \subseteq Orphans /\ UNCHANGED <<Leavers, CutShort>>
AllCleared == pending' = {} /\ UNCHANGED Leavers
LeftBy(r) == /\ Orphans' \subseteq Orphans \cup {frame[r].id}
             /\ r \notin Leavers /\ Leavers' = Leavers \cup {r}
             /\ UNCHANGED CutShort
LeftByStop == /\ Orphans' \subseteq Orphans \cup {frame[Sup].id}
              /\ CutShort = 0 /\ CutShort' = 1
              /\ UNCHANGED Leavers

LEMMA OrphansNext ==
  ASSUME TypeOK, IdInv, EffectInv, SettledInv, SupIdle, [Next]_vars
  PROVE  NoneLeft \/ AllCleared \/ LeftByStop \/ \E r \in Requests : LeftBy(r)
<1> USE DEF Waiting, Future, Orphans, Leavers, CutShort
<1>0. /\ pc \in [Tasks -> PcValues] /\ DOMAIN fut = Tasks /\ DOMAIN frame = Tasks
      /\ DOMAIN outcome = Requests
      /\ nextId \in Nat /\ 0 \notin pending /\ nextId \notin pending
      /\ \A t \in Tasks : frame[t].id # nextId
      /\ Sup \in Tasks /\ Requests \subseteq Tasks /\ Sup \notin Requests
      /\ \A r \in Requests : pc[r] # "done" => outcome[r] = "none"
  BY SupAssumption DEF TypeOK, CallsType, IdInv, Frames, Tasks, EffectInv, EffectOf
<1>1. ASSUME pending' \subseteq pending, UNCHANGED <<outcome, stopPc>>,
             \A t \in Tasks : Waiting(t) => \/ frame[t].id \notin pending'
                                            \/ Waiting(t)' /\ frame'[t] = frame[t]
      PROVE  NoneLeft
  BY <1>1 DEF NoneLeft
<1>2. ASSUME NEW t \in Tasks, NEW kind, NEW tok, NEW c, NEW isUp,
             Register(t, kind, tok, c, isUp), UNCHANGED <<outcome, stopPc>>,
             Waiting(t) => frame[t].id \notin pending
      PROVE  NoneLeft
  <2>1. pending' = pending \cup {nextId} /\ frame'[t].id = nextId /\ Waiting(t)'
    BY <1>0, <1>2 DEF Register, Transmit
  <2>2. \A u \in Tasks \ {t} : frame'[u] = frame[u] /\ pc'[u] = pc[u]
    BY <1>0, <1>2 DEF Register, Transmit
  <2> QED
    BY <1>0, <1>2, <2>1, <2>2 DEF NoneLeft
<1>3. ASSUME NEW t \in Tasks, NEW kind, NEW tok, Issue(t, kind, tok),
             UNCHANGED <<outcome, stopPc>>, Waiting(t) => frame[t].id \notin pending
      PROVE  NoneLeft
  <2>1. ASSUME NEW st, RaiseAtOnce(t, kind, st) PROVE NoneLeft
    <3>1. pending' = pending /\ \A u \in Tasks \ {t} : frame'[u] = frame[u] /\ pc'[u] = pc[u]
      BY <1>0, <2>1 DEF RaiseAtOnce
    <3> QED
      BY <1>1, <1>3, <3>1
  <2> QED
    BY <1>2, <1>3, <2>1 DEF Issue
<1>4. ASSUME NEW r \in Requests, NEW o, Finish(r, o), pending' \subseteq pending,
             o \notin {"cancelled", "login_timeout"}, pc[r] # "done",
             Waiting(r) => frame[r].id \notin pending'
      PROVE  NoneLeft
  <2>1. /\ \A u \in Tasks \ {r} : frame'[u] = frame[u] /\ pc'[u] = pc[u]
        /\ outcome' = [outcome EXCEPT ![r] = o] /\ UNCHANGED stopPc
    BY <1>0, <1>4 DEF Finish, lifeVars
  <2>2. Leavers' = Leavers
    BY <1>0, <1>4, <2>1
  <2> QED
    BY <1>4, <2>1, <2>2 DEF NoneLeft
<1>5. ASSUME NEW r \in Requests, NEW o \in {"cancelled", "login_timeout"}, Finish(r, o),
             pending' = pending, pc[r] # "done"
      PROVE  LeftBy(r)
  <2>1. /\ \A u \in Tasks \ {r} : frame'[u] = frame[u] /\ pc'[u] = pc[u]
        /\ outcome' = [outcome EXCEPT ![r] = o] /\ UNCHANGED stopPc
    BY <1>0, <1>5 DEF Finish, lifeVars
  <2>2. Leavers' = Leavers \cup {r} /\ r \notin Leavers
    BY <1>0, <1>5, <2>1
  <2> QED
    BY <1>5, <2>1, <2>2 DEF LeftBy
<1>6. CASE Connect
  BY <1>0, <1>2, <1>6 DEF Connect, SupIdle
<1>7. CASE SupLoginOk
  BY <1>0, <1>7 DEF SupLoginOk, SettledInv, NoneLeft
<1>8. CASE Stop
  <2>1. /\ UNCHANGED <<pending, frame, Leavers>> /\ CutShort = 0 /\ CutShort' = 1
        /\ \A t \in Tasks \ {Sup} : pc'[t] = pc[t]
    BY <1>0, <1>8 DEF Stop
  <2> QED
    BY <2>1 DEF LeftByStop
<1>9. CASE ConnectFails \/ SupLoginFails \/ SupLoginTimeout \/ SupFailClosed
           \/ SupReaderExited \/ StopTeardown
  BY <1>9 DEF ConnectFails, SupLoginFails, SupLoginTimeout, GiveUpLogin,
     SupFailClosed, SupReaderExited, StopTeardown, RejectPending, AllCleared
<1>10. ASSUME NEW m \in toClient, Dispatch(m) PROVE NoneLeft
  BY <1>10 DEF Dispatch, lifeVars, NoneLeft
<1>11. ASSUME NEW t \in Tasks, SendStep(t) PROVE NoneLeft
  <2>1. /\ UNCHANGED <<frame, outcome, stopPc>> /\ pending' \subseteq pending
        /\ \E p \in {"drain", "await"} : pc' = [pc EXCEPT ![t] = p]
    BY <1>11 DEF SendStep, SendQueued, Drained, DrainFails, Transmit, lifeVars
  <2> QED
    BY <1>0, <1>1, <2>1
<1>12. ASSUME NEW r \in Requests, Call(r) \/ Relogin(r) \/ Retry(r) PROVE NoneLeft
  <2>1. Waiting(r) => frame[r].id \notin pending
    BY <1>0, <1>12 DEF Call, Relogin, Retry, Retries, SettledInv
  <2> QED
    BY <1>0, <1>3, <1>12, <2>1 DEF Call, Relogin, Retry, lifeVars
<1>13. ASSUME NEW r \in Requests, TokenRefused(r) PROVE NoneLeft
  <2>1. frame[r].id \notin pending
    BY <1>0, <1>13 DEF TokenRefused, Relogs, SettledInv
  <2>2. /\ UNCHANGED <<pending, frame, outcome, stopPc>>
        /\ \A t \in Tasks \ {r} : pc'[t] = pc[t]
    BY <1>0, <1>13 DEF TokenRefused, lifeVars
  <2> QED
    BY <1>1, <2>1, <2>2
<1>14. ASSUME NEW r \in Requests, Return(r) PROVE NoneLeft
  <2>1. frame[r].id \notin pending
    BY <1>0, <1>14 DEF Return, SettledInv
  <2>2. fut[r].st \notin {"cancelled", "login_timeout"}
    BY <1>0 DEF TypeOK, CallsType, Futures, Replies, Raised
  <2> QED
    BY <1>4, <1>14, <2>1, <2>2 DEF Return
<1>15. ASSUME NEW r \in Requests, CommandTimeout(r) PROVE NoneLeft
  BY <1>4, <1>15 DEF CommandTimeout
<1>16. ASSUME NEW r \in Requests, ReloginTimeout(r) \/ Cancel(r) PROVE LeftBy(r)
  BY <1>5, <1>16 DEF ReloginTimeout, Cancel
<1>17. CASE \/ Start \/ SupReaderGone \/ SupExitClosed \/ SupWakes
            \/ StopReaderGone \/ StopClosed \/ ReaderExits \/ ReaderCancelled
            \/ ReaderDies \/ CuAnswers \/ CuFaults \/ UNCHANGED vars
  <2>1. /\ UNCHANGED <<pc, frame, pending, outcome>>
        /\ UNCHANGED stopPc \/ (stopPc # "await_sup" /\ stopPc' # "await_sup")
    BY <1>17 DEF Start, SupReaderGone, SupExitClosed, SupWakes, StopReaderGone,
       StopClosed, ReaderExits, ReaderCancelled, ReaderDies, CuAnswers, CuFaults, CuLogsIn,
       CuExecutes, CuRefusesToken, CuRejects, CuSilent, CuForgetsToken, CuDrops,
       CuVarsKept, callVars, lifeVars, vars
  <2> QED
    BY <2>1 DEF NoneLeft
<1> QED
  BY <1>6, <1>7, <1>8, <1>9, <1>10, <1>11, <1>12, <1>13, <1>14, <1>15, <1>16, <1>17
     DEF Next, SupStep, StopStep, ReaderStep, RequestStep, TimeoutStep

\* Sets of entries and of requests stay finite, so that they can be counted.
PendingInv == /\ SettledInv /\ SupIdle
              /\ IsFiniteSet(pending) /\ IsFiniteSet(Leavers)
              /\ PendingBounded

LEMMA OneMore ==
  ASSUME NEW S, NEW T, NEW x, IsFiniteSet(S), T \subseteq S \cup {x}
  PROVE  Cardinality(T) <= Cardinality(S) + 1
<1>1. IsFiniteSet(S \cup {x})
  BY FS_AddElement
<1>2. Cardinality(S \cup {x}) = IF x \in S THEN Cardinality(S) ELSE Cardinality(S) + 1
  BY FS_AddElement
<1>3. IsFiniteSet(T) /\ Cardinality(T) <= Cardinality(S \cup {x})
  BY <1>1, FS_Subset
<1>4. Cardinality(S) \in Nat /\ Cardinality(T) \in Nat
  BY <1>3, FS_CardinalityType
<1> QED
  BY <1>2, <1>3, <1>4

LEMMA PendingFinite ==
  ASSUME IsFiniteSet(pending), [Next]_vars PROVE IsFiniteSet(pending')
<1>1. pending' \subseteq pending \cup {nextId}
  BY DEF Next, vars, callVars, Start, Stop, SupStep, SupLoginTimeout, Connect, ConnectFails,
     SupLoginOk, SupLoginFails, SupReaderGone, SupFailClosed, SupReaderExited,
     SupExitClosed, SupWakes, StopStep, StopTeardown, StopReaderGone, StopClosed,
     ReaderStep, Dispatch, ReaderExits, ReaderCancelled, ReaderDies, SendStep, SendQueued,
     Drained, DrainFails, Call, RequestStep, TokenRefused, Relogin, Retry, Return,
     TimeoutStep, CommandTimeout, ReloginTimeout, Cancel, CuAnswers, CuFaults, CuLogsIn,
     CuExecutes, CuRefusesToken, CuRejects, CuSilent, CuForgetsToken, CuDrops, CuVarsKept,
     Issue, RaiseAtOnce, Register, GiveUpLogin, RejectPending
<1> QED
  BY <1>1, FS_AddElement, FS_Subset

LEMMA PendingNext ==
  ASSUME TypeOK, SocketInv, IdInv, EffectInv, PendingInv, [Next]_vars
  PROVE  PendingInv'
<1>1. SettledInv' /\ SupIdle' /\ IsFiniteSet(pending')
  BY SettledNext, SupIdleNext, PendingFinite DEF PendingInv
<1>2. IsFiniteSet(Orphans) /\ IsFiniteSet(Orphans') /\ IsFiniteSet(Leavers)
  BY <1>1, FS_Subset DEF PendingInv, Orphans
<1>3. /\ Cardinality(Orphans) \in Nat /\ Cardinality(Leavers) \in Nat
      /\ CutShort \in {0, 1}
  BY <1>2, FS_CardinalityType DEF CutShort
<1>4. PendingBounded <=> Cardinality(Orphans) <= Cardinality(Leavers) + CutShort
  BY DEF PendingBounded, Orphans, Leavers, CutShort
<1>5. PendingBounded' <=> Cardinality(Orphans') <= Cardinality(Leavers') + CutShort'
  BY DEF PendingBounded, Orphans, Leavers, CutShort
<1>6. Cardinality(Orphans') \in Nat /\ CutShort' \in {0, 1}
  BY <1>2, FS_CardinalityType DEF CutShort
<1>7. CASE NoneLeft
  <2>1. Cardinality(Orphans') <= Cardinality(Orphans)
    BY <1>2, <1>7, FS_Subset DEF NoneLeft
  <2> QED
    BY <1>1, <1>2, <1>3, <1>4, <1>5, <1>6, <1>7, <2>1 DEF NoneLeft, PendingInv
<1>8. CASE AllCleared
  <2>1. Orphans' = {}
    BY <1>8 DEF AllCleared, Orphans
  <2>2. Cardinality(Orphans') = 0
    BY <2>1, FS_EmptySet
  <2> QED
    BY <1>1, <1>2, <1>3, <1>5, <1>6, <1>8, <2>2 DEF AllCleared, PendingInv
<1>9. ASSUME NEW r \in Requests, LeftBy(r) PROVE PendingInv'
  <2>1. Cardinality(Orphans') <= Cardinality(Orphans) + 1
    BY <1>2, <1>9, OneMore DEF LeftBy
  <2>2. IsFiniteSet(Leavers') /\ Cardinality(Leavers') = Cardinality(Leavers) + 1
    BY <1>2, <1>9, FS_AddElement DEF LeftBy
  <2> QED
    BY <1>1, <1>3, <1>4, <1>5, <1>6, <1>9, <2>1, <2>2 DEF LeftBy, PendingInv
<1>10. CASE LeftByStop
  <2>1. Cardinality(Orphans') <= Cardinality(Orphans) + 1
    BY <1>2, <1>10, OneMore DEF LeftByStop
  <2> QED
    BY <1>1, <1>2, <1>3, <1>4, <1>5, <1>6, <1>10, <2>1 DEF LeftByStop, PendingInv
<1> QED
  BY <1>7, <1>8, <1>9, <1>10, OrphansNext DEF PendingInv

\* _pending holds what is waited for, and one entry at most for each request
\* that was cancelled or whose re-LOGIN timed out, and for a LOGIN cut short.
THEOREM PendingStaysBounded == Spec => []PendingBounded
<1>1. Init => PendingInv
  <2> SUFFICES ASSUME Init PROVE PendingInv
    OBVIOUS
  <2>1. SettledInv /\ SupIdle /\ pending = {} /\ Orphans = {} /\ Leavers = {} /\ CutShort = 0
    BY DEF Init, SettledInv, SupIdle, Waiting, Orphans, Leavers, CutShort, Tasks
  <2>2. Cardinality(Orphans) = 0 /\ Cardinality(Leavers) = 0 /\ IsFiniteSet({})
    BY <2>1, FS_EmptySet
  <2>3. Cardinality(Orphans) <= Cardinality(Leavers) + CutShort
    BY <2>1, <2>2
  <2> QED
    BY <2>1, <2>2, <2>3 DEF PendingInv, PendingBounded, Orphans, Leavers, CutShort
<1>2. TypeOK /\ SocketInv /\ IdInv /\ EffectInv /\ PendingInv /\ [Next]_vars => PendingInv'
  BY PendingNext
<1>3. PendingInv => PendingBounded
  BY DEF PendingInv
<1> QED
  BY <1>1, <1>2, <1>3, InitType, NextType, SocketInit, SocketNext, IdInit, IdNext, EffectInit,
     EffectNext, PTL DEF Spec

=============================================================================
