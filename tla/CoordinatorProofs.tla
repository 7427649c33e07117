--------------------------- MODULE CoordinatorProofs ---------------------------
(***************************************************************************)
(* Proofs about Coordinator for any set of items, any values and any number*)
(* of changes and faults: the entities show the cache, a reply is applied  *)
(* to the request it answers, and nothing moves after async_shutdown.      *)
(***************************************************************************)
EXTENDS Coordinator, SequenceTheorems, TLAPS

-----------------------------------------------------------------------------
(* The inductive invariant *)

\* Entities are attached between the first reply and the unload alone.
EntityInv == phase \in {"fetch", "unload", "stopped"} => attached = {} /\ dirty = {}

\* While the entities are being added no request of the coordinator is under way,
\* and none after async_shutdown.
PhaseInv == phase \in {"attach", "stopped"} => pull = "off"

IsAwaited(m) == m.type = "reply" /\ m.awaited

\* The request of the task that waits is in one place, and there once: at the CU,
\* refused and waiting for a re-LOGIN, or answered by a reply on the stream.
RequestInv ==
  /\ "awaited" \in asked => pull = "wait" /\ ~Relogging("pull")
  /\ Relogging("pull") => pull = "wait"
  /\ \A k \in DOMAIN stream : IsAwaited(stream[k]) =>
       pull = "wait" /\ "awaited" \notin asked /\ ~Relogging("pull")
  /\ \A j, k \in DOMAIN stream : IsAwaited(stream[j]) /\ IsAwaited(stream[k]) => j = k

\* The CU's states only advance, so that the reply that is awaited is no older
\* than the request.
BaseInv ==
  /\ \A i \in Items : base[i] <= truth[i]
  /\ \A k \in DOMAIN stream : IsAwaited(stream[k]) =>
       \A i \in Items : stream[k].states[i] >= base[i]

CoordInv == /\ TypeOK /\ EntityInv /\ PhaseInv /\ RequestInv /\ BaseInv
            /\ ShownIsCached /\ NoOldReplyApplied

-----------------------------------------------------------------------------
(* Lemmas about the model's operators *)

Messages == Pushes \cup Answers

LEMMA RenderType ==
  ASSUME NEW d \in Versions, NEW i \in Items
  PROVE  Render(i, d) \in [ver : Nat, available : BOOLEAN] /\ Render(i, d).ver = d[i]
BY DEF Render, Versions, connected

\* After RenderAll every attached entity shows d.
LEMMA RenderAllShows ==
  ASSUME TypeOK, NEW d \in Versions, RenderAll(d)
  PROVE  /\ shown' \in [Items -> [ver : Nat, available : BOOLEAN]]
         /\ \A i \in attached : shown'[i].ver = d[i]
BY RenderType DEF TypeOK, RenderAll

\* Forget leaves nothing that somebody waits for.
LEMMA ForgetForgets ==
  ASSUME TypeOK, Forget
  PROVE  /\ stream' \in Seq(Messages)
         /\ asked' \subseteq {"stale"}
         /\ \A k \in DOMAIN stream' : ~IsAwaited(stream'[k])
<1>1. stream \in Seq(Messages) /\ DOMAIN stream = 1 .. Len(stream) /\ Len(stream) \in Nat
  BY DEF TypeOK, Messages
<1>2. DOMAIN stream' = 1 .. Len(stream)
  BY <1>1 DEF Forget
<1>3. ASSUME NEW k \in 1 .. Len(stream)
      PROVE  stream'[k] \in Messages /\ ~IsAwaited(stream'[k])
  <2>1. stream[k] \in Messages
    BY <1>1
  <2>2. CASE stream[k].type = "reply"
    <3>1. stream[k] \in Answers
      BY <2>1, <2>2 DEF Messages, Pushes
    <3> QED
      BY <1>1, <2>2, <3>1 DEF Forget, Messages, Answers, IsAwaited
  <2>3. CASE stream[k].type # "reply"
    BY <1>1, <2>1, <2>3 DEF Forget, IsAwaited
  <2> QED
    BY <2>2, <2>3
<1>4. stream' = [k \in 1 .. Len(stream) |-> stream'[k]]
  BY <1>1 DEF Forget
<1>5. stream' \in [1 .. Len(stream) -> Messages]
  BY <1>3, <1>4
<1>6. stream' \in Seq(Messages)
  BY <1>1, <1>5
<1> QED
  BY <1>2, <1>3, <1>6 DEF Forget

-----------------------------------------------------------------------------
(* Type correctness *)

LEMMA InitType == Init => TypeOK
BY BoundAssumption DEF Init, TypeOK, NoStates, Versions, NoRelogin, Callers

\* What Ask and OnPush, which several actions share, do to the types.
LEMMA AskType ==
  ASSUME TypeOK, Ask
  PROVE  base' \in Versions /\ pull' \in {"wait", "failed"}
         /\ asked' \subseteq {"awaited", "stale"}
         /\ relogin' \in [Callers -> {"no", "lock", "login", "spent"}]
BY DEF TypeOK, Ask

LEMMA OnPushType ==
  ASSUME TypeOK, NEW m \in Pushes, OnPush(m)
  PROVE  /\ data' \in Versions /\ dirty' \subseteq Items
         /\ shown' \in [Items -> [ver : Nat, available : BOOLEAN]]
<1>1. m.item \in Items /\ m.ver \in Nat
  BY DEF Pushes
<1>2. CASE Listening
  <2>1. data' \in Versions
    BY <1>1, <1>2 DEF OnPush, TypeOK, Versions
  <2> QED
    BY <1>2, <2>1, RenderAllShows DEF OnPush, TypeOK
<1>3. CASE ~Listening
  BY <1>3 DEF OnPush, TypeOK
<1> QED
  BY <1>2, <1>3

LEMMA ReconcileType ==
  ASSUME TypeOK, Reconcile
  PROVE  /\ data' \in Versions /\ dirty' \subseteq Items
         /\ shown' \in [Items -> [ver : Nat, available : BOOLEAN]]
<1>1. data' \in Versions
  BY DEF Reconcile, TypeOK, Versions
<1> QED
  BY <1>1, RenderAllShows DEF Reconcile, TypeOK, Drift

LEMMA HeadOfStream ==
  ASSUME TypeOK, stream # <<>>
  PROVE  /\ Tail(stream) \in Seq(Messages)
         /\ Head(stream) = stream[1] /\ 1 \in DOMAIN stream
         /\ Head(stream).type = "push" => Head(stream) \in Pushes
         /\ Head(stream).type = "reply" => Head(stream) \in Answers
         /\ \A k \in DOMAIN Tail(stream) :
              k + 1 \in DOMAIN stream /\ Tail(stream)[k] = stream[k + 1] /\ k + 1 # 1
<1>1. stream \in Seq(Messages) /\ stream # <<>>
  BY DEF TypeOK, Messages
<1>2. Head(stream) \in Messages
  BY <1>1
<1> QED
  BY <1>1, <1>2 DEF Messages, Pushes, Answers

LEMMA AppendToStream ==
  ASSUME TypeOK, NEW m \in Messages
  PROVE  /\ Append(stream, m) \in Seq(Messages)
         /\ DOMAIN Append(stream, m) = DOMAIN stream \cup {Len(stream) + 1}
         /\ Len(stream) + 1 \notin DOMAIN stream
         /\ \A k \in DOMAIN stream : Append(stream, m)[k] = stream[k]
         /\ Append(stream, m)[Len(stream) + 1] = m
<1>1. stream \in Seq(Messages)
  BY DEF TypeOK, Messages
<1> QED
  BY <1>1

LEMMA NextType == TypeOK /\ [Next]_vars => TypeOK'
<1> SUFFICES ASSUME TypeOK, [Next]_vars PROVE TypeOK'
  OBVIOUS
<1> USE DEF cacheVars, entityVars, pullVars, linkVars
<1>1. CASE Fetch
  BY <1>1, AskType DEF TypeOK, Fetch
<1>2. CASE Build
  BY <1>2 DEF TypeOK, Build, InitialData, NoStates, Versions
<1>3. CASE FetchFails
  BY <1>3 DEF TypeOK, FetchFails, NoStates, Versions
<1>4. CASE StartPoll
  BY <1>4 DEF TypeOK, StartPoll
<1>5. CASE PollWakes
  BY <1>5, AskType DEF TypeOK, PollWakes
<1>6. CASE PollApplies
  BY <1>6, ReconcileType DEF TypeOK, PollApplies, NoStates, Versions
<1>7. CASE PollFails
  BY <1>7 DEF TypeOK, PollFails, AfterFailure, NoStates, Versions
<1>8. CASE PullTimesOut
  <2>1. faults' \in 0 .. MaxFaults
    BY <1>8, BoundAssumption DEF TypeOK, PullTimesOut, Fault
  <2> QED
    BY <1>8, <2>1, ForgetForgets DEF TypeOK, PullTimesOut, Messages
<1>9. ASSUME NEW i \in Items, Attach(i) PROVE TypeOK'
  BY <1>9, RenderType DEF TypeOK, Attach
<1>10. ASSUME NEW i \in Items, WriteState(i) PROVE TypeOK'
  BY <1>10, RenderType DEF TypeOK, WriteState
<1>11. CASE DispatchPush
  <2>1. Head(stream) \in Pushes /\ stream' \in Seq(Messages)
    BY <1>11, HeadOfStream DEF DispatchPush
  <2>2. OnPush(Head(stream))
    BY <1>11 DEF DispatchPush
  <2> QED
    BY <1>11, <2>1, <2>2, OnPushType DEF TypeOK, DispatchPush, Messages
<1>12. CASE DispatchReply
  <2>1. Head(stream) \in Answers /\ stream' \in Seq(Messages)
    BY <1>12, HeadOfStream DEF DispatchReply
  <2>2. snap' \in Versions /\ pull' \in {"off", "sleep", "wait", "ready", "failed"}
    BY <1>12, <2>1 DEF TypeOK, DispatchReply, Answers
  <2> QED
    BY <1>12, <2>1, <2>2 DEF TypeOK, DispatchReply, Messages
<1>13. CASE Drop \/ PullRejected
  <2>1. faults' \in 0 .. MaxFaults
    BY <1>13, BoundAssumption DEF TypeOK, Drop, PullRejected, Fault
  <2>2. CASE Drop
    <3>1. relogin' \in [Callers -> {"no", "lock", "login", "spent"}] /\ token' \in BOOLEAN
      BY <2>2 DEF TypeOK, Drop
    <3>2. pull' \in {"off", "sleep", "wait", "ready", "failed"} /\ stream' \in Seq(Messages)
      BY <2>2 DEF TypeOK, Drop, EndsPull
    <3> QED
      BY <2>1, <2>2, <3>1, <3>2 DEF TypeOK, Drop, Messages
  <2>3. CASE PullRejected
    BY <2>1, <2>3 DEF TypeOK, PullRejected
  <2> QED
    BY <1>13, <2>2, <2>3
<1>14. CASE Reconnect \/ LoginOk
  BY <1>14 DEF TypeOK, Reconnect, LoginOk
<1>15. ASSUME NEW c \in Callers, Relogin(c) \/ ReloginOk(c) PROVE TypeOK'
  BY <1>15 DEF TypeOK, Relogin, ReloginOk, EndsPull
<1>23. ASSUME NEW c \in Callers, TokenRefused(c) \/ ReloginFails(c) PROVE TypeOK'
  <2>1. faults' \in 0 .. MaxFaults
    BY <1>23, BoundAssumption DEF TypeOK, TokenRefused, ReloginFails, Fault
  <2>2. CASE TokenRefused(c)
    BY <2>1, <2>2 DEF TypeOK, TokenRefused
  <2>3. CASE ReloginFails(c)
    BY <2>1, <2>3 DEF TypeOK, ReloginFails, EndsPull
  <2> QED
    BY <1>23, <2>2, <2>3
<1>16. CASE Unload
  BY <1>16 DEF TypeOK, Unload
<1>17. CASE StopClient
  BY <1>17 DEF TypeOK, StopClient
<1>18. CASE CancelPoll
  BY <1>18, ForgetForgets DEF TypeOK, CancelPoll, NoStates, Versions, Messages
<1>19. ASSUME NEW i \in Items, CuChanges(i) PROVE TypeOK'
  <2>1. Push(i, truth[i] + 1) \in Messages /\ truth' \in Versions
    BY <1>19 DEF TypeOK, CuChanges, Push, Messages, Pushes, Versions
  <2>2. stream' \in Seq(Messages)
    BY <1>19, <2>1, AppendToStream DEF TypeOK, CuChanges, Messages
  <2> QED
    BY <1>19, <2>1, <2>2 DEF TypeOK, CuChanges, Messages
<1>20. ASSUME NEW a \in {"awaited", "stale"}, CuAnswers(a) PROVE TypeOK'
  <2>1. Reply(truth, a = "awaited") \in Messages
    BY DEF TypeOK, Reply, Messages, Answers
  <2>2. stream' \in Seq(Messages)
    BY <1>20, <2>1, AppendToStream DEF CuAnswers
  <2> QED
    BY <1>20, <2>2 DEF TypeOK, CuAnswers, Messages
<1>21. ASSUME NEW a \in {"awaited", "stale"}, CuSilent(a) PROVE TypeOK'
  BY <1>21, BoundAssumption DEF TypeOK, CuSilent, Fault
<1>22. CASE UNCHANGED vars
  BY <1>22 DEF TypeOK, vars
<1> QED
  BY <1>1, <1>2, <1>3, <1>4, <1>5, <1>6, <1>7, <1>8, <1>9, <1>10, <1>11, <1>12, <1>13,
     <1>14, <1>15, <1>16, <1>17, <1>18, <1>19, <1>20, <1>21, <1>22, <1>23
     DEF Next, PullStep, EntityStep, ReaderStep, LinkStep, ShutdownStep

THEOREM TypeCorrect == Spec => []TypeOK
BY InitType, NextType, PTL DEF Spec

-----------------------------------------------------------------------------
(* The parts of the invariant *)

LEMMA InitInv == Init => CoordInv
<1> SUFFICES ASSUME Init PROVE CoordInv
  OBVIOUS
<1>1. EntityInv /\ PhaseInv /\ RequestInv /\ ShownIsCached /\ NoOldReplyApplied
  BY DEF Init, EntityInv, PhaseInv, RequestInv, ShownIsCached,
     NoOldReplyApplied, NoStates, NoRelogin, Relogging, Callers
<1>2. BaseInv
  BY DEF Init, BaseInv, NoStates
<1> QED
  BY <1>1, <1>2, InitType DEF CoordInv

\* Who writes the cache notifies every attached entity.
LEMMA EntityNext ==
  TypeOK /\ EntityInv /\ ShownIsCached /\ [Next]_vars => EntityInv' /\ ShownIsCached'
<1> SUFFICES ASSUME TypeOK, EntityInv, ShownIsCached, [Next]_vars
             PROVE  EntityInv' /\ ShownIsCached'
  OBVIOUS
<1> USE DEF EntityInv, ShownIsCached
<1>1. CASE Fetch \/ FetchFails \/ StartPoll
  BY <1>1 DEF Fetch, FetchFails, StartPoll, cacheVars, entityVars
<1>2. CASE Build
  BY <1>2 DEF Build, entityVars
<1>3. CASE PollWakes \/ PollFails \/ PullTimesOut
  BY <1>3 DEF PollWakes, PollFails, PullTimesOut, cacheVars, entityVars
<1>4. CASE PollApplies
  <2>1. data' \in Versions
    BY <1>4 DEF PollApplies, Reconcile, TypeOK, Versions
  <2>2. CASE Drift = {}
    BY <1>4, <2>2 DEF PollApplies, Reconcile, TypeOK
  <2>3. CASE Drift # {}
    BY <1>4, <2>1, <2>3, RenderAllShows DEF PollApplies, Reconcile
  <2> QED
    BY <2>2, <2>3
<1>5. ASSUME NEW i \in Items, Attach(i) PROVE EntityInv' /\ ShownIsCached'
  BY <1>5, RenderType DEF TypeOK, Attach, cacheVars
<1>6. ASSUME NEW i \in Items, WriteState(i) PROVE EntityInv' /\ ShownIsCached'
  BY <1>6, RenderType DEF TypeOK, WriteState, cacheVars
<1>7. CASE DispatchPush
  <2>1. Head(stream) \in Pushes /\ OnPush(Head(stream)) /\ UNCHANGED <<phase, attached>>
    BY <1>7, HeadOfStream DEF DispatchPush
  <2>2. CASE Listening
    BY <2>1, <2>2, OnPushType, RenderAllShows DEF OnPush, Listening
  <2>3. CASE ~Listening
    BY <2>1, <2>3 DEF OnPush
  <2> QED
    BY <2>2, <2>3
<1>8. CASE DispatchReply \/ Drop \/ PullRejected \/ Reconnect \/ LoginOk
  BY <1>8 DEF DispatchReply, Drop, PullRejected, Reconnect, LoginOk, cacheVars, entityVars
<1>9. ASSUME NEW c \in Callers,
             TokenRefused(c) \/ Relogin(c) \/ ReloginOk(c) \/ ReloginFails(c)
      PROVE  EntityInv' /\ ShownIsCached'
  BY <1>9 DEF TokenRefused, Relogin, ReloginOk, ReloginFails, cacheVars, entityVars
<1>10. CASE Unload \/ CancelPoll \/ StopClient
  BY <1>10 DEF Unload, CancelPoll, StopClient, cacheVars, entityVars
<1>11. ASSUME NEW i \in Items, CuChanges(i) PROVE EntityInv' /\ ShownIsCached'
  BY <1>11 DEF CuChanges, cacheVars, entityVars
<1>12. ASSUME NEW a \in {"awaited", "stale"}, CuAnswers(a) \/ CuSilent(a)
       PROVE  EntityInv' /\ ShownIsCached'
  BY <1>12 DEF CuAnswers, CuSilent, cacheVars, entityVars
<1>13. CASE UNCHANGED vars
  BY <1>13 DEF vars, cacheVars, entityVars
<1> QED
  BY <1>1, <1>2, <1>3, <1>4, <1>5, <1>6, <1>7, <1>8, <1>9, <1>10, <1>11, <1>12, <1>13
     DEF Next, PullStep, EntityStep, ReaderStep, LinkStep, ShutdownStep

\* A push of the CU adds no reply to the stream.
LEMMA PushWaitsForNobody ==
  ASSUME TypeOK, NEW i \in Items, CuChanges(i)
  PROVE  \A k \in DOMAIN stream' : IsAwaited(stream'[k])
           => k \in DOMAIN stream /\ stream'[k] = stream[k]
<1> DEFINE m == Push(i, truth[i] + 1)
<1>1. m \in Messages /\ ~IsAwaited(m)
  BY DEF TypeOK, Push, Messages, Pushes, Versions, IsAwaited
<1>2. CASE link = "up"
  <2>1. stream' = Append(stream, m)
    BY <1>2 DEF CuChanges
  <2> HIDE DEF m
  <2> QED
    BY <1>1, <2>1, AppendToStream
<1>3. CASE link # "up"
  BY <1>3 DEF CuChanges
<1> QED
  BY <1>2, <1>3

\* A request has one answer, to the task that waits.
LEMMA RequestNext ==
  TypeOK /\ PhaseInv /\ RequestInv /\ [Next]_vars
    => PhaseInv' /\ RequestInv'
<1> SUFFICES ASSUME TypeOK, PhaseInv, RequestInv, [Next]_vars
             PROVE  PhaseInv' /\ RequestInv'
  OBVIOUS
<1> USE DEF PhaseInv, RequestInv, Relogging
<1>0. "pull" \in Callers /\ DOMAIN relogin = Callers
  BY DEF TypeOK, Callers
<1>1. CASE Fetch
  BY <1>0, <1>1 DEF Fetch, Ask, connected
<1>2. CASE Build
  BY <1>2 DEF Build, linkVars
<1>3. CASE FetchFails
  BY <1>3 DEF FetchFails
<1>4. CASE StartPoll
  BY <1>4 DEF StartPoll, linkVars
<1>5. CASE PollWakes
  BY <1>0, <1>5 DEF PollWakes, Ask, connected
<1>6. CASE PollApplies
  BY <1>6 DEF PollApplies, linkVars
<1>7. CASE PollFails
  BY <1>7 DEF PollFails, AfterFailure, linkVars
<1>8. CASE PullTimesOut
  BY <1>8, ForgetForgets DEF PullTimesOut
<1>9. CASE EntityStep
  BY <1>9 DEF EntityStep, Attach, WriteState, pullVars, linkVars
<1>10. CASE DispatchPush
  <2>1. \A k \in DOMAIN stream' : k + 1 \in DOMAIN stream /\ stream'[k] = stream[k + 1]
    BY <1>10, HeadOfStream DEF DispatchPush
  <2>2. DOMAIN stream' \subseteq Int
    BY <1>10, HeadOfStream DEF DispatchPush
  <2> QED
    BY <1>10, <2>1, <2>2 DEF DispatchPush, pullVars
<1>11. CASE DispatchReply
  <2>1. \A k \in DOMAIN stream' :
          k + 1 \in DOMAIN stream /\ stream'[k] = stream[k + 1] /\ k + 1 # 1
    BY <1>11, HeadOfStream DEF DispatchReply
  <2>2. DOMAIN stream' \subseteq Int
    BY <1>11, HeadOfStream DEF DispatchReply
  <2>3. Head(stream) = stream[1] /\ 1 \in DOMAIN stream
    BY <1>11, HeadOfStream DEF DispatchReply
  <2>4. CASE Awaited(Head(stream))
    <3>1. IsAwaited(stream[1]) /\ pull' = "ready"
          /\ UNCHANGED <<phase, link, asked, relogin>>
      BY <1>11, <2>3, <2>4 DEF DispatchReply, Awaited, IsAwaited
    <3> QED
      BY <2>1, <2>3, <3>1
  <2>5. CASE ~Awaited(Head(stream))
    BY <1>11, <2>1, <2>2, <2>5 DEF DispatchReply, pullVars
  <2> QED
    BY <2>4, <2>5
<1>12. CASE Drop
  BY <1>0, <1>12 DEF Drop, EndsPull
<1>13. CASE PullRejected
  BY <1>13 DEF PullRejected
<1>14. CASE Reconnect \/ LoginOk
  BY <1>14 DEF Reconnect, LoginOk, pullVars
<1>15. ASSUME NEW c \in Callers, TokenRefused(c) \/ ReloginOk(c)
       PROVE  PhaseInv' /\ RequestInv'
  BY <1>0, <1>15 DEF TokenRefused, ReloginOk, pullVars
<1>16. ASSUME NEW c \in Callers, Relogin(c) \/ ReloginFails(c)
       PROVE  PhaseInv' /\ RequestInv'
  BY <1>0, <1>16 DEF Relogin, ReloginFails, EndsPull
<1>17. CASE Unload
  BY <1>17 DEF Unload, pullVars, linkVars
<1>18. CASE CancelPoll
  BY <1>0, <1>18, ForgetForgets DEF CancelPoll
<1>19. CASE StopClient
  BY <1>19 DEF StopClient, pullVars
<1>20. ASSUME NEW i \in Items, CuChanges(i) PROVE PhaseInv' /\ RequestInv'
  <2>2. \A k \in DOMAIN stream' : IsAwaited(stream'[k])
          => k \in DOMAIN stream /\ stream'[k] = stream[k]
    BY <1>20, PushWaitsForNobody
  <2> QED
    BY <1>20, <2>2 DEF CuChanges, pullVars
<1>21. CASE CuAnswers("awaited")
  <2>1. Reply(truth, TRUE) \in Messages
    BY DEF TypeOK, Reply, Messages, Answers
  <2>2. stream' = Append(stream, Reply(truth, TRUE)) /\ "awaited" \in asked
        /\ asked' = asked \ {"awaited"} /\ UNCHANGED <<phase, pull, link, relogin>>
    BY <1>21 DEF CuAnswers, pullVars
  <2>3. \A k \in DOMAIN stream' : IsAwaited(stream'[k]) => k = Len(stream) + 1
    BY <2>1, <2>2, AppendToStream
  <2> QED
    BY <2>2, <2>3
<1>22. CASE CuAnswers("stale")
  <2> DEFINE m == Reply(truth, FALSE)
  <2>1. m \in Messages /\ ~IsAwaited(m)
    BY DEF TypeOK, Reply, Messages, Answers, IsAwaited
  <2>2. stream' = Append(stream, m)
        /\ asked' = asked \ {"stale"} /\ UNCHANGED <<phase, pull, link, relogin>>
    BY <1>22 DEF CuAnswers, pullVars
  <2> HIDE DEF m
  <2>3. \A k \in DOMAIN stream' : IsAwaited(stream'[k])
          => k \in DOMAIN stream /\ stream'[k] = stream[k]
    BY <2>1, <2>2, AppendToStream
  <2> QED
    BY <2>2, <2>3
<1>23. ASSUME NEW a \in {"awaited", "stale"}, CuSilent(a)
       PROVE  PhaseInv' /\ RequestInv'
  BY <1>23 DEF CuSilent, pullVars
<1>24. CASE UNCHANGED vars
  BY <1>24 DEF vars, pullVars, linkVars
<1> QED
  BY <1>1, <1>2, <1>3, <1>4, <1>5, <1>6, <1>7, <1>8, <1>9, <1>10, <1>11, <1>12, <1>13,
     <1>14, <1>15, <1>16, <1>17, <1>18, <1>19, <1>20, <1>21, <1>22, <1>23, <1>24
     DEF Next, PullStep, ReaderStep, LinkStep, ShutdownStep

\* The reply that is awaited, and the one a task has, are no older than the CU
\* was at the request: nobody waits for a reply when the next request is sent.
LEMMA BaseNext ==
  TypeOK /\ RequestInv /\ BaseInv /\ NoOldReplyApplied /\ [Next]_vars
    => BaseInv' /\ NoOldReplyApplied'
<1> SUFFICES ASSUME TypeOK, RequestInv, BaseInv, NoOldReplyApplied, [Next]_vars
             PROVE  BaseInv' /\ NoOldReplyApplied'
  OBVIOUS
<1> USE DEF BaseInv, NoOldReplyApplied
<1>0. \A i \in Items : truth[i] \in Nat /\ base[i] \in Nat /\ NoStates[i] = 0
  BY DEF TypeOK, Versions, NoStates
<1>a. pull # "wait" => \A k \in DOMAIN stream : ~IsAwaited(stream[k])
  BY DEF RequestInv
<1>1. CASE Fetch
  BY <1>0, <1>1, <1>a DEF Fetch, Ask
<1>2. CASE Build
  BY <1>0, <1>2, <1>a DEF Build, linkVars
<1>3. CASE FetchFails
  BY <1>0, <1>3 DEF FetchFails
<1>4. CASE StartPoll
  BY <1>4 DEF StartPoll, cacheVars, linkVars
<1>5. CASE PollWakes
  BY <1>0, <1>5, <1>a DEF PollWakes, Ask
<1>6. CASE PollApplies
  BY <1>0, <1>6, <1>a DEF PollApplies, linkVars
<1>7. CASE PollFails
  BY <1>0, <1>7, <1>a DEF PollFails, AfterFailure, linkVars
<1>8. CASE PullTimesOut
  BY <1>8, ForgetForgets DEF PullTimesOut, cacheVars
<1>9. CASE EntityStep
  BY <1>9 DEF EntityStep, Attach, WriteState, cacheVars, pullVars, linkVars
<1>10. CASE DispatchPush
  <2>1. \A k \in DOMAIN stream' : k + 1 \in DOMAIN stream /\ stream'[k] = stream[k + 1]
    BY <1>10, HeadOfStream DEF DispatchPush
  <2> QED
    BY <1>10, <2>1 DEF DispatchPush, pullVars
<1>11. CASE DispatchReply
  <2>1. \A k \in DOMAIN stream' : k + 1 \in DOMAIN stream /\ stream'[k] = stream[k + 1]
    BY <1>11, HeadOfStream DEF DispatchReply
  <2>2. Head(stream) = stream[1] /\ 1 \in DOMAIN stream
    BY <1>11, HeadOfStream DEF DispatchReply
  <2>3. BaseInv'
    BY <1>11, <2>1 DEF DispatchReply, cacheVars
  <2>4. CASE Awaited(Head(stream))
    <3>1. IsAwaited(stream[1]) /\ snap' = stream[1].states /\ UNCHANGED base
      BY <1>11, <2>2, <2>4 DEF DispatchReply, Awaited, IsAwaited, cacheVars
    <3> QED
      BY <2>2, <2>3, <3>1
  <2>5. CASE ~Awaited(Head(stream))
    BY <1>11, <2>3, <2>5 DEF DispatchReply, cacheVars, pullVars
  <2> QED
    BY <2>4, <2>5
<1>12. CASE Drop
  BY <1>12 DEF Drop, EndsPull, cacheVars
<1>13. CASE PullRejected
  BY <1>13 DEF PullRejected, cacheVars
<1>14. CASE Reconnect \/ LoginOk
  BY <1>14 DEF Reconnect, LoginOk, cacheVars, pullVars
<1>15. ASSUME NEW c \in Callers, TokenRefused(c) \/ ReloginOk(c)
       PROVE  BaseInv' /\ NoOldReplyApplied'
  BY <1>15 DEF TokenRefused, ReloginOk, cacheVars, pullVars
<1>16. ASSUME NEW c \in Callers, Relogin(c) \/ ReloginFails(c)
       PROVE  BaseInv' /\ NoOldReplyApplied'
  BY <1>16 DEF Relogin, ReloginFails, EndsPull, cacheVars
<1>17. CASE Unload
  BY <1>17 DEF Unload, cacheVars, pullVars, linkVars
<1>18. CASE CancelPoll
  BY <1>0, <1>18, ForgetForgets DEF CancelPoll
<1>19. CASE StopClient
  BY <1>19 DEF StopClient, cacheVars, pullVars
<1>20. ASSUME NEW i \in Items, CuChanges(i) PROVE BaseInv' /\ NoOldReplyApplied'
  <2>1. \A j \in Items : truth'[j] >= truth[j] /\ truth'[j] \in Nat
    BY <1>20 DEF CuChanges, TypeOK, Versions
  <2>2. UNCHANGED <<base, pull, snap>>
    BY <1>20 DEF CuChanges, cacheVars, pullVars
  <2>3. \A j \in Items : base'[j] <= truth'[j]
    BY <1>0, <2>1, <2>2
  <2> QED
    BY <1>20, <2>2, <2>3, PushWaitsForNobody
<1>21. CASE CuAnswers("awaited")
  <2> DEFINE m == Reply(truth, TRUE)
  <2>1. m \in Messages /\ m.states = truth
    BY DEF TypeOK, Reply, Messages, Answers
  <2>2. stream' = Append(stream, m) /\ UNCHANGED <<base, truth, pull, snap>>
    BY <1>21 DEF CuAnswers, cacheVars, pullVars
  <2> HIDE DEF m
  <2>3. \A k \in DOMAIN stream' : \/ k \in DOMAIN stream /\ stream'[k] = stream[k]
                                  \/ stream'[k].states = truth
    BY <2>1, <2>2, AppendToStream
  <2> QED
    BY <1>0, <2>2, <2>3
<1>22. CASE CuAnswers("stale")
  <2> DEFINE m == Reply(truth, FALSE)
  <2>1. m \in Messages /\ m.states = truth
    BY DEF TypeOK, Reply, Messages, Answers
  <2>2. stream' = Append(stream, m) /\ UNCHANGED <<base, truth, pull, snap>>
    BY <1>22 DEF CuAnswers, cacheVars, pullVars
  <2> HIDE DEF m
  <2>3. \A k \in DOMAIN stream' : \/ k \in DOMAIN stream /\ stream'[k] = stream[k]
                                  \/ stream'[k].states = truth
    BY <2>1, <2>2, AppendToStream
  <2> QED
    BY <1>0, <2>2, <2>3
<1>23. ASSUME NEW a \in {"awaited", "stale"}, CuSilent(a)
       PROVE  BaseInv' /\ NoOldReplyApplied'
  BY <1>23 DEF CuSilent, cacheVars, pullVars
<1>24. CASE UNCHANGED vars
  BY <1>24 DEF vars, cacheVars, pullVars, linkVars
<1> QED
  BY <1>1, <1>2, <1>3, <1>4, <1>5, <1>6, <1>7, <1>8, <1>9, <1>10, <1>11, <1>12, <1>13,
     <1>14, <1>15, <1>16, <1>17, <1>18, <1>19, <1>20, <1>21, <1>22, <1>23, <1>24
     DEF Next, PullStep, ReaderStep, LinkStep, ShutdownStep

-----------------------------------------------------------------------------
(* The theorems *)

\* The inductive invariant, of which the others are parts.
THEOREM Invariant == Spec => []CoordInv
<1>1. CoordInv /\ [Next]_vars => CoordInv'
  BY NextType, EntityNext, RequestNext, BaseNext DEF CoordInv
<1> QED
  BY <1>1, InitInv, PTL DEF Spec

\* Every attached entity shows the cached state (_on_push, _reconcile_once).
THEOREM CacheShown == Spec => []ShownIsCached
<1>1. CoordInv => ShownIsCached
  BY DEF CoordInv
<1> QED
  BY <1>1, Invariant, PTL

\* The poll and the first fetch apply the answer to their own request alone.
THEOREM OwnReplyApplied == Spec => []NoOldReplyApplied
<1>1. CoordInv => NoOldReplyApplied
  BY DEF CoordInv
<1> QED
  BY <1>1, Invariant, PTL

\* Once async_shutdown is over nothing writes the cache or an entity.
THEOREM Quiet == Spec => QuietAfterStop
<1>1. CoordInv /\ [Next]_vars => [phase = "stopped" => UNCHANGED <<data, shown, dirty>>]_vars
  <2> SUFFICES ASSUME CoordInv, [Next]_vars, phase = "stopped"
               PROVE  UNCHANGED <<data, shown, dirty>>
    BY DEF vars
  <2>1. attached = {} /\ dirty = {} /\ pull = "off" /\ ~Listening
    BY DEF CoordInv, EntityInv, PhaseInv, Listening
  <2>2. CASE PullStep \/ PullTimesOut
    BY <2>1, <2>2 DEF PullStep, PullTimesOut, Fetch, Build, FetchFails, StartPoll,
       PollWakes, PollApplies, PollFails, entityVars
  <2>3. CASE EntityStep
    BY <2>1, <2>3 DEF EntityStep, Attach, WriteState
  <2>4. CASE ReaderStep
    BY <2>1, <2>4 DEF ReaderStep, DispatchPush, DispatchReply, OnPush, cacheVars,
       entityVars
  <2>5. CASE LinkStep \/ Drop \/ PullRejected
             \/ \E c \in Callers : TokenRefused(c) \/ ReloginFails(c)
    BY <2>5 DEF LinkStep, Reconnect, LoginOk, Relogin, ReloginOk, ReloginFails, Drop,
       PullRejected, TokenRefused, cacheVars, entityVars
  <2>6. CASE Unload \/ ShutdownStep
    BY <2>6 DEF Unload, ShutdownStep, CancelPoll, StopClient, cacheVars, entityVars
  <2>7. CASE \E i \in Items : CuChanges(i)
    BY <2>7 DEF CuChanges, cacheVars, entityVars
  <2>8. CASE \E a \in {"awaited", "stale"} : CuAnswers(a) \/ CuSilent(a)
    BY <2>8 DEF CuAnswers, CuSilent, cacheVars, entityVars
  <2>9. CASE UNCHANGED vars
    BY <2>9 DEF vars, cacheVars, entityVars
  <2> QED
    BY <2>2, <2>3, <2>4, <2>5, <2>6, <2>7, <2>8, <2>9 DEF Next
<1> QED
  BY <1>1, Invariant, PTL DEF Spec, QuietAfterStop

================================================================================
