------------------------------ MODULE Coordinator ------------------------------
(***************************************************************************)
(* SwitchBeeCoordinator (custom_components/ha_switchbee/coordinator.py)    *)
(* and the entities on top of it (entity.py): the cache of item states,    *)
(* filled once from GET_CONFIGURATION, then by CONFIGURATION_CHANGE pushes *)
(* and by the reconciliation poll, and what the entities last wrote to     *)
(* Home Assistant.                                                         *)
(*                                                                         *)
(* The WebSocket client appears as it looks from here: a connection that   *)
(* is lost and comes back, one ordered stream of pushes and replies on it, *)
(* at most one get_configuration() or get_multiple_states() outstanding,   *)
(* and a token, which a re-LOGIN clears before it has the next one.        *)
(* A state of an item is a version number; versions with the same          *)
(* remainder are the same value.                                           *)
(***************************************************************************)
EXTENDS Naturals, Sequences

CONSTANTS Items,        \* ids of the known items
          ValueCount,   \* number of values an item can have
          OfflineValue, \* the value that is an OFFLINE sentinel
          MaxChanges,   \* bound: changes per item
          MaxFaults,    \* bound: drops, refused tokens, lost and late replies
          Polling       \* poll_interval_seconds > 0

ASSUME ValueAssumption == ValueCount \in Nat \ {0} /\ OfflineValue \in Nat
ASSUME BoundAssumption == MaxChanges \in Nat /\ MaxFaults \in Nat
ASSUME PollingAssumption == Polling \in BOOLEAN

VARIABLES
  phase,    \* fetch the configuration, attach the entities, run, unload, stopped
  data,     \* SwitchBeeCoordinator.data: the version cached for each item
  attached, \* entities added to Home Assistant
  shown,    \* what each entity wrote last
  dirty,    \* entities with an async_write_ha_state scheduled on the loop
  pull,     \* the task that awaits a reply: off, sleep, wait, ready, failed
  snap,     \* the states in its reply
  base,     \* history: the CU's states when the request was sent
  link,     \* the connection: down, login, up
  token,    \* does the client hold a token?
  relogin,  \* the re-LOGIN of the pull and that of an entity's command
  stream,   \* external: messages on their way to the reader
  asked,    \* external: requests at the CU: awaited, or stale
  truth,    \* external: the state of each item on the CU
  faults    \* faults used up

cacheVars  == <<data, base>>
entityVars == <<attached, shown, dirty>>
pullVars   == <<pull, snap>>
linkVars   == <<link, token, relogin, stream, asked>>
vars == <<phase, cacheVars, entityVars, pullVars, linkVars, truth, faults>>

Versions == [Items -> Nat]
Push(i, v) == [type |-> "push", item |-> i, ver |-> v]
\* awaited: its id is in _pending; a reply nobody awaits any more is dropped.
Reply(states, awaited) == [type |-> "reply", states |-> states, awaited |-> awaited]
Pushes  == [type : {"push"}, item : Items, ver : Nat]
Answers == [type : {"reply"}, states : Versions, awaited : BOOLEAN]

ValueOf(v) == v % ValueCount

\* The re-LOGIN of a command waits for _login_lock, then for its reply; "spent":
\* the command was sent again, and a second INVALID_TOKEN ends it.
Callers == {"pull", "entity"}
NoRelogin == [c \in Callers |-> "no"]
Relogging(c) == relogin[c] \in {"lock", "login"}

TypeOK ==
  /\ phase \in {"fetch", "attach", "run", "unload", "stopped"}
  /\ data \in Versions /\ base \in Versions /\ truth \in Versions /\ snap \in Versions
  /\ attached \subseteq Items /\ dirty \subseteq Items
  /\ shown \in [Items -> [ver : Nat, available : BOOLEAN]]
  /\ pull \in {"off", "sleep", "wait", "ready", "failed"}
  /\ link \in {"down", "login", "up"} /\ token \in BOOLEAN
  /\ stream \in Seq(Pushes \cup Answers)
  /\ relogin \in [Callers -> {"no", "lock", "login", "spent"}]
  /\ asked \subseteq {"awaited", "stale"}
  /\ faults \in 0 .. MaxFaults

NoStates == [i \in Items |-> 0]

\* client.start() has just returned.
Init ==
  /\ phase = "fetch" /\ pull = "off"
  /\ link = "up" /\ token = TRUE /\ relogin = NoRelogin
  /\ stream = <<>> /\ asked = {}
  /\ truth = NoStates /\ data = truth /\ base = truth /\ snap = truth
  /\ attached = {} /\ dirty = {}
  /\ shown = [i \in Items |-> [ver |-> 0, available |-> FALSE]]
  /\ faults = 0

Fault == faults < MaxFaults /\ faults' = faults + 1

\* SwitchBeeWSClient.connected
connected == link # "down" /\ token

\* SwitchBeeEntity.available
Available(i) == connected /\ ValueOf(data[i]) # OfflineValue

\* The coordinator's listener is registered.
Listening == phase \in {"attach", "run", "unload"}

-----------------------------------------------------------------------------
(* Entities *)

\* What entity i writes from cache d.
Render(i, d) == [ver |-> d[i],
                 available |-> connected /\ ValueOf(d[i]) # OfflineValue]

\* _update_listeners: every CoordinatorEntity writes its state.
RenderAll(d) ==
  shown' = [i \in Items |-> IF i \in attached THEN Render(i, d) ELSE shown[i]]

Attach(i) ==
  /\ phase = "attach" /\ i \notin attached
  /\ attached' = attached \cup {i}
  /\ shown' = [shown EXCEPT ![i] = Render(i, data)]
  /\ UNCHANGED <<phase, cacheVars, dirty, pullVars, linkVars, truth, faults>>

\* The write that _handle_push_value scheduled.
WriteState(i) ==
  /\ i \in dirty
  /\ dirty' = dirty \ {i}
  /\ shown' = [shown EXCEPT ![i] = Render(i, data)]
  /\ UNCHANGED <<phase, cacheVars, attached, pullVars, linkVars, truth, faults>>

-----------------------------------------------------------------------------
(* get_configuration() and get_multiple_states() *)

\* A command without a connection or without a token raises at once.
Ask ==
  /\ base' = truth
  /\ relogin' = [relogin EXCEPT !["pull"] = "no"]
  /\ IF connected
       THEN pull' = "wait" /\ asked' = asked \cup {"awaited"}
       ELSE pull' = "failed" /\ UNCHANGED asked

\* The command is over; a reply to it may still come.
Forget ==
  /\ asked' = {"stale" : a \in asked}
  /\ stream' = [k \in DOMAIN stream |->
                  IF stream[k].type = "reply"
                    THEN [stream[k] EXCEPT !.awaited = FALSE] ELSE stream[k]]

\* async_build_coordinator
Fetch ==
  /\ phase = "fetch" /\ pull = "off"
  /\ Ask
  /\ UNCHANGED <<phase, data, entityVars, snap, link, token, stream, truth, faults>>

InitialData_OnlyAttached == [i \in attached |-> snap[i]]

\* _devices_from_config: every item of the reply.
InitialData == snap

\* The coordinator is built: it fills its cache and listens from here on.
Build ==
  /\ phase = "fetch" /\ pull = "ready"
  /\ data' = InitialData
  /\ phase' = "attach" /\ pull' = "off"
  /\ base' = NoStates
  /\ UNCHANGED <<entityVars, snap, linkVars, truth, faults>>

FetchFails ==
  /\ phase = "fetch" /\ pull = "failed"
  /\ phase' = "stopped" /\ pull' = "off"
  /\ link' = "down" /\ stream' = <<>> /\ asked' = {}
  /\ base' = NoStates
  /\ UNCHANGED <<data, entityVars, snap, token, relogin, truth, faults>>

\* async_start_poll_task
StartPoll ==
  /\ phase = "attach" /\ attached = Items
  /\ phase' = "run"
  /\ pull' = IF Polling THEN "sleep" ELSE "off"
  /\ UNCHANGED <<cacheVars, entityVars, snap, linkVars, truth, faults>>

\* _poll_loop wakes up; not connected, it goes back to sleep.
PollWakes ==
  /\ phase # "fetch" /\ pull = "sleep" /\ connected
  /\ Ask
  /\ UNCHANGED <<phase, data, entityVars, snap, link, token, stream, truth, faults>>

Drift == {i \in Items : ValueOf(snap[i]) # ValueOf(data[i])}

Reconcile_NoSignal ==
  /\ data' = [i \in Items |-> IF i \in Drift THEN snap[i] ELSE data[i]]
  /\ UNCHANGED <<shown, dirty>>

\* _reconcile_once, from the reply to its end.
Reconcile ==
  /\ data' = [i \in Items |-> IF i \in Drift THEN snap[i] ELSE data[i]]
  /\ IF Drift = {} THEN UNCHANGED shown ELSE RenderAll(data')
  /\ dirty' = dirty \cup (Drift \cap attached)

PollApplies ==
  /\ phase # "fetch" /\ pull = "ready"
  /\ Reconcile
  /\ pull' = "sleep"
  /\ base' = NoStates
  /\ UNCHANGED <<phase, attached, snap, linkVars, truth, faults>>

AfterFailure_EndsLoop == "off"

\* _poll_loop logs the exception and goes on.
AfterFailure == "sleep"

PollFails ==
  /\ phase # "fetch" /\ pull = "failed"
  /\ pull' = AfterFailure
  /\ base' = NoStates
  /\ UNCHANGED <<phase, data, entityVars, snap, linkVars, truth, faults>>

NoAnswerComing ==
  /\ "awaited" \notin asked
  /\ \A k \in DOMAIN stream : stream[k].type = "reply" => ~stream[k].awaited

\* The timer of the command; early, the reply is late.
PullTimesOut ==
  /\ pull = "wait" /\ ~Relogging("pull")
  /\ IF NoAnswerComing THEN UNCHANGED faults ELSE Fault
  /\ pull' = "failed"
  /\ Forget
  /\ UNCHANGED <<phase, cacheVars, entityVars, snap, link, token, relogin, truth>>

-----------------------------------------------------------------------------
(* async_unload_entry and async_shutdown *)

Unload ==
  /\ phase = "run"
  /\ phase' = "unload"
  /\ attached' = {} /\ dirty' = {}
  /\ UNCHANGED <<cacheVars, shown, pullVars, linkVars, truth, faults>>

\* The poll task is cancelled and awaited, whatever it was waiting for.
CancelPoll ==
  /\ phase = "unload" /\ pull # "off"
  /\ pull' = "off"
  /\ Forget
  /\ base' = NoStates
  /\ relogin' = [relogin EXCEPT !["pull"] = "no"]
  /\ UNCHANGED <<phase, data, entityVars, snap, link, token, truth, faults>>

StopClient_PollKept ==
  /\ phase = "unload"
  /\ phase' = "stopped"
  /\ link' = "down" /\ stream' = <<>> /\ asked' = {}
  /\ UNCHANGED <<cacheVars, entityVars, pullVars, token, relogin, truth, faults>>

\* The listener is removed, then the client stopped.
StopClient ==
  /\ phase = "unload" /\ pull = "off"
  /\ phase' = "stopped"
  /\ link' = "down" /\ stream' = <<>> /\ asked' = {}
  /\ UNCHANGED <<cacheVars, entityVars, pullVars, token, relogin, truth, faults>>

-----------------------------------------------------------------------------
(* The client's reader: _dispatch_text, _dispatch_push, _on_push *)

OnPush(m) ==
  IF Listening
    THEN /\ data' = [data EXCEPT ![m.item] = m.ver]
         /\ RenderAll(data')
         /\ dirty' = dirty \cup ({m.item} \cap attached)
    ELSE UNCHANGED <<data, shown, dirty>>

DispatchPush ==
  /\ link # "down" /\ stream # <<>> /\ Head(stream).type = "push"
  /\ stream' = Tail(stream)
  /\ OnPush(Head(stream))
  /\ UNCHANGED <<phase, base, attached, pullVars, link, token, relogin, asked, truth,
                 faults>>

Awaited_AnyReply(m) == pull = "wait"

Awaited(m) == pull = "wait" /\ m.awaited

\* The waiting task resumes later; the reader may dispatch more before it does.
DispatchReply ==
  /\ link # "down" /\ stream # <<>> /\ Head(stream).type = "reply"
  /\ stream' = Tail(stream)
  /\ IF Awaited(Head(stream))
       THEN pull' = "ready" /\ snap' = Head(stream).states
       ELSE UNCHANGED pullVars
  /\ UNCHANGED <<phase, cacheVars, entityVars, link, token, relogin, asked, truth,
                 faults>>

-----------------------------------------------------------------------------
(* The connection and the token *)

\* The pull ends with an exception if it is one of the commands in cs.
EndsPull(cs) == pull' = IF "pull" \in cs /\ pull = "wait" THEN "failed" ELSE pull

\* A lost connection takes its messages along; what waits for a reply on it is
\* rejected.  If the answer to a LOGIN was the last thing that came over it, its
\* token is kept and the command fails when it is sent again.
Drop ==
  /\ phase # "stopped" /\ link # "down" /\ Fault
  /\ link' = "down" /\ stream' = <<>> /\ asked' = {}
  /\ relogin' = [c \in Callers |-> IF relogin[c] = "login" THEN "no" ELSE relogin[c]]
  /\ EndsPull(IF relogin["pull"] = "lock" THEN {} ELSE {"pull"})
  /\ \/ UNCHANGED token
     \/ (\E c \in Callers : relogin[c] = "login") /\ token' = TRUE
  /\ UNCHANGED <<phase, cacheVars, entityVars, snap, truth>>

Reconnect ==
  /\ phase # "stopped" /\ link = "down"
  /\ link' = "login"
  /\ UNCHANGED <<phase, cacheVars, entityVars, pullVars, token, relogin, stream, asked,
                 truth, faults>>

LoginOk ==
  /\ link = "login"
  /\ link' = "up" /\ token' = TRUE
  /\ UNCHANGED <<phase, cacheVars, entityVars, pullVars, relogin, stream, asked, truth,
                 faults>>

\* The CU answers a command that was sent with the token by INVALID_TOKEN.
TokenRefused(c) ==
  /\ Fault
  /\ relogin[c] = "no"
  /\ \/ c = "pull" /\ "awaited" \in asked
     \/ c = "entity" /\ attached # {} /\ connected
  /\ relogin' = [relogin EXCEPT ![c] = "lock"]
  /\ asked' = IF c = "pull" THEN asked \ {"awaited"} ELSE asked
  /\ UNCHANGED <<phase, cacheVars, entityVars, pullVars, link, token, stream, truth>>

\* Another status, or INVALID_TOKEN once more, is an exception.
PullRejected ==
  /\ Fault
  /\ "awaited" \in asked /\ asked' = asked \ {"awaited"}
  /\ pull' = "failed"
  /\ UNCHANGED <<phase, cacheVars, entityVars, snap, link, token, relogin, stream,
                 truth>>

\* The token is cleared before LOGIN is sent, or is found to have no connection.
Relogin(c) ==
  /\ relogin[c] = "lock" /\ \A d \in Callers : relogin[d] # "login"
  /\ token' = FALSE
  /\ relogin' = [relogin EXCEPT ![c] = IF link = "down" THEN "no" ELSE "login"]
  /\ EndsPull(IF link = "down" THEN {c} ELSE {})
  /\ UNCHANGED <<phase, cacheVars, entityVars, snap, link, stream, asked, truth, faults>>

\* LOGIN is answered, and the refused command is sent again.
ReloginOk(c) ==
  /\ link # "down" /\ relogin[c] = "login"
  /\ token' = TRUE
  /\ relogin' = [relogin EXCEPT ![c] = IF c = "pull" THEN "spent" ELSE "no"]
  /\ asked' = IF c = "pull" THEN asked \cup {"awaited"} ELSE asked
  /\ UNCHANGED <<phase, cacheVars, entityVars, pullVars, link, stream, truth, faults>>

\* The re-LOGIN times out or is rejected, or its caller is cancelled.  Nobody
\* logs in again on this connection.
ReloginFails(c) ==
  /\ Fault
  /\ relogin[c] = "login"
  /\ relogin' = [relogin EXCEPT ![c] = "no"]
  /\ EndsPull({c})
  /\ UNCHANGED <<phase, cacheVars, entityVars, snap, link, token, stream, asked, truth>>

-----------------------------------------------------------------------------
(* The Central Unit (external) *)

\* A switch is pressed, a scene runs, or operate() takes effect.
CuChanges(i) ==
  /\ truth[i] < MaxChanges
  /\ truth' = [truth EXCEPT ![i] = @ + 1]
  /\ stream' = IF link = "up" THEN Append(stream, Push(i, truth[i] + 1)) ELSE stream
  /\ UNCHANGED <<phase, cacheVars, entityVars, pullVars, link, token, relogin, asked,
                 faults>>

CuAnswers(a) ==
  /\ a \in asked
  /\ asked' = asked \ {a}
  /\ stream' = Append(stream, Reply(truth, a = "awaited"))
  /\ UNCHANGED <<phase, cacheVars, entityVars, pullVars, link, token, relogin, truth,
                 faults>>

CuSilent(a) ==
  /\ a \in asked /\ Fault
  /\ asked' = asked \ {a}
  /\ UNCHANGED <<phase, cacheVars, entityVars, pullVars, link, token, relogin, stream,
                 truth>>

-----------------------------------------------------------------------------
PullStep == Fetch \/ Build \/ FetchFails \/ StartPoll \/ PollWakes \/ PollApplies \/ PollFails

EntityStep == \E i \in Items : Attach(i) \/ WriteState(i)

ReaderStep == DispatchPush \/ DispatchReply

LinkStep == Reconnect \/ LoginOk \/ (\E c \in Callers : Relogin(c) \/ ReloginOk(c))

ShutdownStep == CancelPoll \/ StopClient

Next == \/ PullStep \/ PullTimesOut \/ EntityStep \/ ReaderStep \/ LinkStep
        \/ Drop \/ PullRejected
        \/ \E c \in Callers : TokenRefused(c) \/ ReloginFails(c)
        \/ Unload \/ ShutdownStep
        \/ \E i \in Items : CuChanges(i)
        \/ \E a \in {"awaited", "stale"} : CuAnswers(a) \/ CuSilent(a)

Spec == Init /\ [][Next]_vars

(* The event loop runs every task that can go on, the connection comes back, *)
(* and the CU answers what it gets, LOGIN included, unless it spends a fault.*)
FairSpec ==
  /\ Spec
  /\ WF_vars(PullStep) /\ WF_vars(PullTimesOut /\ NoAnswerComing)
  /\ WF_vars(EntityStep) /\ WF_vars(ReaderStep) /\ WF_vars(LinkStep)
  /\ WF_vars(ShutdownStep)
  /\ WF_vars(\E a \in {"awaited", "stale"} : CuAnswers(a))

-----------------------------------------------------------------------------
(* Properties *)

\* Every attached entity shows the cached state: no path that writes the cache
\* (_on_push, _reconcile_once) forgets to notify it, and no deferred write
\* brings an older state back.
ShownIsCached == \A i \in attached : shown[i].ver = data[i]

\* A task that resumes with a reply has one to its own request: what it is about
\* to apply is no older than the CU was when it asked.  A reply that comes after
\* its command ended (timeout, cancellation, re-LOGIN) is not taken for that of
\* the next one, and a request repeated with a new token is answered anew.
NoOldReplyApplied == pull = "ready" => \A i \in Items : snap[i] >= base[i]

\* After async_shutdown no reply or push touches the cache, wherever the poll
\* task was when it was cancelled.
QuietAfterStop == [][phase = "stopped" => UNCHANGED <<data, shown, dirty>>]_vars

\* A re-LOGIN has ended without a token on a connection that holds: until it is
\* lost, nobody logs in and the poll skips its turns (_request, _reconcile_once).
Wedged == link = "up" /\ ~token /\ ~\E c \in Callers : Relogging(c)

\* With the poll on, every state is eventually shown, be it missed while the
\* connection was down or before the listener was there, or undone by a stale
\* reply, unless the client ends up without a token on an open connection.
EntitiesCatchUp ==
  <>[](\/ phase = "stopped" \/ Wedged
       \/ \A i \in Items : i \in attached /\ ValueOf(shown[i].ver) = ValueOf(truth[i]))

-----------------------------------------------------------------------------
(* What the source says and the code does not do; each is refuted by a run. *)

\* "a fresh GET_CONFIGURATION runs on every reconnect anyway, so the cache
\* catches up automatically": a lost connection is followed by a fresh cache.
ReconnectRefreshes ==
  phase = "run" /\ link = "down"
    ~> (\A i \in Items : ValueOf(data[i]) = ValueOf(truth[i])) \/ phase # "run"

\* available "is False when the WS is disconnected or the cached state is
\* OFFLINE", and true otherwise: what Home Assistant shows catches up with it.
AvailabilityCatchesUp ==
  <>[](\A i \in attached : shown[i].available = Available(i))

================================================================================
