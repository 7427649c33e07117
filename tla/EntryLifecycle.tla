---------------------------- MODULE EntryLifecycle ----------------------------
(***************************************************************************)
(* Who owns which WebSocket client: the config entry of ha_switchbee from  *)
(* the config flow that creates it (config_flow.py) through setup, option  *)
(* changes, reload and unload (__init__.py, async_build_coordinator and    *)
(* async_shutdown of coordinator.py); and, beside it, the clients of other *)
(* config flows and of the operator's probe (tools/probe.py).              *)
(*                                                                         *)
(* Home Assistant is external: it serialises setup, unload and reload of   *)
(* an entry by its setup_lock, retries a setup that was not ready, and     *)
(* runs the entry's on_unload callbacks when an unload succeeded.          *)
(***************************************************************************)
EXTENDS Naturals, FiniteSets

CONSTANTS Clients,    \* SwitchBeeWSClient objects; one that ended may serve again
          Flows,      \* config flows, and runs of the probe
          Probes,     \* the latter
          MaxTroubles,\* bound: outages, unusable replies, failed unloads,
                      \* wrong passwords
          MaxOptions, \* bound: how often the options are saved
          NoClient

ASSUME ClientAssumption == NoClient \notin Clients
ASSUME FlowAssumption == Probes \subseteq Flows
ASSUME BoundAssumption == MaxTroubles \in Nat /\ MaxOptions \in Nat

VARIABLES
  entry,      \* ConfigEntryState, and absent
  step,       \* the await inside async_setup_entry or async_unload_entry
  own,        \* the client of the setup or unload in progress
  after,      \* what follows the unload: a setup, or the removal
  registered, \* hass.data[DOMAIN][entry_id]: the coordinator's client
  hooks,      \* clients whose coordinator has callbacks in entry._on_unload
  polls,      \* clients whose coordinator has a poll task
  client,     \* stopped, starting, refused (starting in vain), running
  flow,       \* per flow: the await inside _validate_user_input or _run_probe
  flowClient, \* per flow: its client
  options,    \* how often the options were saved
  read,       \* options when a setup last read them, for its poll interval
  reloads,    \* reload tasks that wait for the setup_lock
  cu,         \* external: ok or down
  troubles,   \* troubles used up
  leaked      \* history: clients a setup gave up without stopping them

entryVars == <<entry, step, own, after, registered>>
taskVars  == <<hooks, polls, read>>
flowVars  == <<flow, flowClient>>
userVars  == <<options, reloads>>
cuVars    == <<cu, troubles>>
vars == <<entryVars, taskVars, client, flowVars, userVars, cuVars, leaked>>

States == {"absent", "not_loaded", "setup", "loaded", "unload", "retry", "error",
           "failed_unload"}
MaybeClient == Clients \cup {NoClient}

\* reloads: each saving of the options asks for one reload at most.
TypeOK ==
  /\ entry \in States
  /\ step \in {"none", "start", "config", "drop", "forward", "platforms", "shutdown",
               "hooks"}
  /\ own \in MaybeClient /\ registered \in MaybeClient
  /\ after \in {"none", "setup", "remove"}
  /\ hooks \subseteq Clients /\ polls \subseteq Clients
  /\ client \in [Clients -> {"stopped", "starting", "refused", "running"}]
  /\ flow \in [Flows -> {"idle", "start", "config", "observe", "stop_ok", "stop_error"}]
  /\ flowClient \in [Flows -> MaybeClient]
  /\ options \in 0 .. MaxOptions /\ read \in 0 .. MaxOptions
  /\ reloads \in 0 .. options
  /\ cu \in {"ok", "down"} /\ troubles \in 0 .. MaxTroubles
  /\ leaked \subseteq Clients

Init ==
  /\ entry = "absent" /\ step = "none" /\ own = NoClient /\ after = "none"
  /\ registered = NoClient /\ hooks = {} /\ polls = {}
  /\ client = [c \in Clients |-> "stopped"]
  /\ flow = [f \in Flows |-> "idle"]
  /\ flowClient = [f \in Flows |-> NoClient]
  /\ options = 0 /\ read = 0 /\ reloads = 0
  /\ cu = "ok" /\ troubles = 0 /\ leaked = {}

Trouble == troubles < MaxTroubles /\ troubles' = troubles + 1

\* A new client starts, with credentials that the CU accepts, or, if they were
\* typed wrong or the password was changed there since, refuses.
Starts(c, clients) ==
  \/ client' = [clients EXCEPT ![c] = "starting"] /\ UNCHANGED troubles
  \/ client' = [clients EXCEPT ![c] = "refused"] /\ Trouble

\* A client nobody refers to any more stands for a new one.
Unused(c) ==
  /\ client[c] = "stopped" /\ c \notin hooks \cup polls
  /\ c # own /\ c # registered /\ \A f \in Flows : flowClient[f] # c

\* Clients are alike, so that any will do.
IsNew(c) == Unused(c) /\ c = CHOOSE d \in Clients : Unused(d)

LockFree == entry \notin {"setup", "unload"}

-----------------------------------------------------------------------------
(* The client, as WSClient has it: start() returns after the first LOGIN that*)
(* succeeds and not before; a refused one is repeated like any other failure.*)

LogsIn(c) ==
  /\ client[c] = "starting" /\ cu # "down"
  /\ client' = [client EXCEPT ![c] = "running"]
  /\ UNCHANGED <<entryVars, taskVars, flowVars, userVars, cuVars, leaked>>

-----------------------------------------------------------------------------
(* _validate_user_input and async_step_user                                  *)

\* A client of its own.
FlowStarts(f) ==
  /\ flow[f] = "idle"
  /\ \E c \in Clients :
       /\ IsNew(c)
       /\ Starts(c, client)
       /\ flowClient' = [flowClient EXCEPT ![f] = c]
  /\ flow' = [flow EXCEPT ![f] = "start"]
  /\ UNCHANGED <<entryVars, taskVars, userVars, cu, leaked>>

FlowSubmits(f) == f \notin Probes /\ FlowStarts(f)

FlowLogsIn(f) ==
  /\ flow[f] = "start" /\ client[flowClient[f]] = "running"
  /\ flow' = [flow EXCEPT ![f] = "config"]
  /\ UNCHANGED <<entryVars, taskVars, client, flowClient, userVars, cuVars,
                 leaked>>

\* The configuration, or an exception or an unusable MAC (looked at after the
\* stop).
FlowFetches(f) ==
  /\ f \notin Probes /\ flow[f] = "config"
  /\ \/ /\ cu = "ok" /\ UNCHANGED troubles
        /\ flow' = [flow EXCEPT ![f] = "stop_ok"]
     \/ /\ IF cu = "ok" THEN Trouble ELSE UNCHANGED troubles
        /\ flow' = [flow EXCEPT ![f] = "stop_error"]
  /\ UNCHANGED <<entryVars, taskVars, client, flowClient, userVars, cu, leaked>>

FlowStop_KeepsClient(f) == UNCHANGED client

\* The finally clause.
FlowStop(f) == client' = [client EXCEPT ![flowClient[f]] = "stopped"]

\* The unique id is the CU's MAC: the first flow creates the entry, which Home
\* Assistant then sets up; later ones abort.
FlowEnds(f) ==
  /\ f \notin Probes /\ flow[f] \in {"stop_ok", "stop_error"}
  /\ FlowStop(f)
  /\ entry' = IF flow[f] = "stop_ok" /\ entry = "absent"
                THEN "not_loaded" ELSE entry
  /\ flow' = [flow EXCEPT ![f] = "idle"]
  /\ flowClient' = [flowClient EXCEPT ![f] = NoClient]
  /\ UNCHANGED <<step, own, after, registered, taskVars, userVars, cuVars,
                 leaked>>

-----------------------------------------------------------------------------
(* main and _run_probe of the probe *)

\* Called with --read-only, credentials and a duration that is not negative.
ProbeStarts(f) == f \in Probes /\ FlowStarts(f)

\* The summary needs a usable MAC; --duration 0 ends here.
ProbeFetches(f) ==
  /\ f \in Probes /\ flow[f] = "config"
  /\ \/ /\ cu = "ok" /\ UNCHANGED troubles
        /\ \E next \in {"observe", "stop_ok"} : flow' = [flow EXCEPT ![f] = next]
     \/ /\ IF cu = "ok" THEN Trouble ELSE UNCHANGED troubles
        /\ flow' = [flow EXCEPT ![f] = "stop_error"]
  /\ UNCHANGED <<entryVars, taskVars, client, flowClient, userVars, cu, leaked>>

\* The probe's --duration is over.
ProbeObserved(f) ==
  /\ flow[f] = "observe"
  /\ flow' = [flow EXCEPT ![f] = "stop_ok"]
  /\ UNCHANGED <<entryVars, taskVars, client, flowClient, userVars, cuVars, leaked>>

\* Ctrl-C cancels the probe at an await; in the window it only ends the window.
ProbeInterrupted(f) ==
  /\ f \in Probes /\ flow[f] \in {"start", "config", "observe"}
  /\ flow' = [flow EXCEPT ![f] = IF @ = "observe" THEN "stop_ok" ELSE "stop_error"]
  /\ UNCHANGED <<entryVars, taskVars, client, flowClient, userVars, cuVars, leaked>>

\* The finally clause.
ProbeEnds(f) ==
  /\ f \in Probes /\ flow[f] \in {"stop_ok", "stop_error"}
  /\ FlowStop(f)
  /\ flow' = [flow EXCEPT ![f] = "idle"]
  /\ flowClient' = [flowClient EXCEPT ![f] = NoClient]
  /\ UNCHANGED <<entryVars, taskVars, userVars, cuVars, leaked>>

-----------------------------------------------------------------------------
(* async_setup_entry *)

\* From the new client to the await of start().
BeginSetup(c) ==
  /\ entry' = "setup" /\ step' = "start" /\ own' = c
  /\ Starts(c, client)

\* Home Assistant sets up a new entry, and one whose setup was not ready.
Setup ==
  /\ entry \in {"not_loaded", "retry"}
  /\ \E c \in Clients : IsNew(c) /\ BeginSetup(c)
  /\ UNCHANGED <<after, registered, taskVars, flowVars, userVars, cu, leaked>>

SetupLogsIn ==
  /\ step = "start" /\ client[own] = "running"
  /\ step' = "config"
  /\ UNCHANGED <<entry, own, after, registered, taskVars, client, flowVars,
                 userVars,
                 cuVars, leaked>>

EndSetup(state) == entry' = state /\ step' = "none" /\ own' = NoClient

\* get_configuration() raises; the client is stopped before the error goes on.
SetupConfigFails ==
  /\ step = "config" /\ cu = "down"
  /\ step' = "drop"
  /\ UNCHANGED <<entry, own, after, registered, taskVars, client, flowVars,
                 userVars,
                 cuVars, leaked>>

StopAfterFailure_Missing == UNCHANGED client

StopAfterFailure == client' = [client EXCEPT ![own] = "stopped"]

NotReady_Error == EndSetup("error")

\* SwitchBeeProtocolError, OSError and TimeoutError become ConfigEntryNotReady.
NotReady == EndSetup("retry")

SetupNotReady ==
  /\ step = "drop"
  /\ StopAfterFailure
  /\ NotReady
  /\ UNCHANGED <<after, registered, taskVars, flowVars, userVars, cuVars, leaked>>

\* No usable MAC (CUMACMissingError, "retry") or an item that cannot be read
\* (ValueError, "error"): both are raised outside the try that stops the client.
SetupConfigUnusable ==
  /\ step = "config" /\ cu = "ok" /\ Trouble
  /\ \E state \in {"retry", "error"} : EndSetup(state)
  /\ leaked' = leaked \cup {own}
  /\ UNCHANGED <<after, registered, taskVars, client, flowVars, userVars, cu>>

SetupBuilt ==
  /\ step = "config" /\ cu = "ok"
  /\ registered' = own
  /\ step' = "forward"
  /\ UNCHANGED <<entry, own, after, taskVars, client, flowVars, userVars, cuVars,
                 leaked>>

PollStarted_KeepsOld == polls

\* async_start_poll_task; the interval is the default, as no form saves one.
PollStarted == polls \cup {own}

\* The platforms are set up.  What follows runs without an await.
SetupForwarded ==
  /\ step = "forward"
  /\ polls' = PollStarted
  /\ hooks' = hooks \cup {own}
  /\ read' = options
  /\ EndSetup("loaded")
  /\ UNCHANGED <<after, registered, client, flowVars, userVars, cuVars, leaked>>

-----------------------------------------------------------------------------
(* Options *)

ReloadsAsked_Lost == 0

\* Every update listener the entry has: one per setup that was not unloaded.
ReloadsAsked == Cardinality(hooks)

\* SwitchBeeOptionsFlow saves another connection timeout in place of all options;
\* _async_options_updated asks for a reload if it is registered.
SaveOptions ==
  /\ entry # "absent" /\ options < MaxOptions
  /\ options' = options + 1
  /\ reloads' = reloads + ReloadsAsked
  /\ UNCHANGED <<entryVars, taskVars, client, flowVars, cuVars, leaked>>

\* async_reload gets the lock.  It cannot unload what failed to unload.
Reload ==
  /\ reloads > 0 /\ LockFree
  /\ reloads' = reloads - 1
  /\ \/ /\ entry = "loaded"
        /\ entry' = "unload" /\ step' = "platforms" /\ after' = "setup"
        /\ UNCHANGED <<own, client, troubles>>
     \/ /\ entry \in {"not_loaded", "retry", "error"}
        /\ \E c \in Clients : IsNew(c) /\ BeginSetup(c)
        /\ UNCHANGED after
     \/ /\ entry \in {"absent", "failed_unload"}
        /\ UNCHANGED <<entry, step, own, after, client, troubles>>
  /\ UNCHANGED <<registered, taskVars, flowVars, options, cu, leaked>>

-----------------------------------------------------------------------------
(* async_unload_entry and async_shutdown *)

\* There is nothing to unload after a setup that failed.
Remove ==
  /\ \/ /\ entry = "loaded"
        /\ entry' = "unload" /\ step' = "platforms" /\ after' = "remove"
     \/ /\ entry \in {"retry", "error"}
        /\ entry' = "absent" /\ UNCHANGED <<step, after>>
  /\ UNCHANGED <<own, registered, taskVars, client, flowVars, userVars, cuVars,
                 leaked>>

UnloadPlatforms ==
  /\ step = "platforms"
  /\ registered' = NoClient /\ own' = registered
  /\ step' = "shutdown"
  /\ UNCHANGED <<entry, after, taskVars, client, flowVars, userVars, cuVars,
                 leaked>>

\* SwitchBeeCoordinator.async_shutdown: the poll task, then the client.
Shutdown(c) ==
  /\ polls' = polls \ {c}
  /\ client' = [client EXCEPT ![c] = "stopped"]

\* The coordinator goes also when a platform did not unload.
UnloadShutsDown ==
  /\ step = "shutdown"
  /\ Shutdown(own)
  /\ \/ step' = "hooks" /\ UNCHANGED <<entry, own, after, troubles>>
     \/ Trouble /\ EndSetup("failed_unload") /\ after' = "none"
  /\ UNCHANGED <<registered, hooks, read, flowVars, userVars, cu, leaked>>

HooksLeft_All == hooks

\* Home Assistant empties _on_unload before it calls what was in it.
HooksLeft == {}

\* _make_unload_hook shuts the coordinator down a second time; then a reload
\* goes on with the setup, under the same lock.
UnloadHooks ==
  /\ step = "hooks"
  /\ hooks' = HooksLeft
  /\ polls' = polls \ hooks
  /\ after' = "none"
  /\ LET clients == [k \in Clients |-> IF k \in hooks THEN "stopped" ELSE client[k]] IN
     \/ /\ after = "setup"
        /\ \E c \in Clients :
             /\ IsNew(c)
             /\ entry' = "setup" /\ step' = "start" /\ own' = c
             /\ Starts(c, clients)
     \/ /\ after = "remove"
        /\ EndSetup("absent")
        /\ client' = clients /\ UNCHANGED troubles
  /\ UNCHANGED <<registered, read, flowVars, userVars, cu, leaked>>

-----------------------------------------------------------------------------
(* The Central Unit (external) *)

CuFails ==
  /\ cu = "ok" /\ Trouble
  /\ cu' = "down"
  /\ UNCHANGED <<entryVars, taskVars, client, flowVars, userVars, leaked>>

CuRecovers ==
  /\ cu = "down"
  /\ cu' = "ok"
  /\ UNCHANGED <<entryVars, taskVars, client, flowVars, userVars, troubles,
                 leaked>>

-----------------------------------------------------------------------------
SetupStep == \/ Setup \/ SetupLogsIn \/ SetupConfigFails \/ SetupNotReady
             \/ SetupConfigUnusable \/ SetupBuilt \/ SetupForwarded

UnloadStep == UnloadPlatforms \/ UnloadShutsDown \/ UnloadHooks

FlowStep(f) == \/ FlowLogsIn(f) \/ FlowFetches(f) \/ FlowEnds(f)
               \/ ProbeFetches(f) \/ ProbeObserved(f) \/ ProbeEnds(f)

Next == \/ \E c \in Clients : LogsIn(c)
        \/ \E f \in Flows : \/ FlowSubmits(f) \/ ProbeStarts(f)
                           \/ FlowStep(f) \/ ProbeInterrupted(f)
        \/ SetupStep \/ SaveOptions \/ Reload \/ Remove \/ UnloadStep
        \/ CuFails \/ CuRecovers

Spec == Init /\ [][Next]_vars

(* Home Assistant and the event loop go on, and so does a client that can.   *)
Fairness ==
  /\ WF_vars(SetupStep) /\ WF_vars(UnloadStep) /\ WF_vars(Reload)
  /\ \A c \in Clients : WF_vars(LogsIn(c))
  /\ \A f \in Flows : WF_vars(FlowStep(f))

FairSpec == Spec /\ Fairness

(* The CU's outages end.                                                     *)
RecoveringSpec == FairSpec /\ WF_vars(CuRecovers)

-----------------------------------------------------------------------------
(* Properties *)

Owned(c) == c \in {own, registered} \/ \E f \in Flows : flowClient[f] = c

\* Every client that is not stopped has somebody who refers to it, and will stop it
\* when its start() is over: the setup or unload in progress, the registered
\* coordinator, or a flow.  (That start() of a refused client is never over is
\* FormAnswered, below; so is the path of async_build_coordinator that gives a
\* client up.)
NoOrphanClient == \A c \in Clients \ leaked : client[c] # "stopped" => Owned(c)

\* A loaded entry is served by exactly one coordinator, with its client
\* running, its poll on and its unload hook registered; no poll task or hook of
\* an earlier setup is left, whatever reloads came between.
LoadedIsServed ==
  entry = "loaded" =>
    /\ registered # NoClient /\ client[registered] = "running"
    /\ polls = {registered} /\ hooks = {registered}

\* Beside the clients that failed setups gave up (FailedSetupStopsClient), the
\* entry never has two on the CU: a reload, and a setup that is repeated after a
\* failed request, stop the old one first.
OneClientPerEntry ==
  Cardinality({c \in Clients \ leaked :
                 client[c] # "stopped" /\ \A f \in Flows : flowClient[f] # c}) <= 1

\* No saving of the options is missed, also none during a setup, a reload or an
\* unload: a loaded entry is in the end one whose setup read the options after they
\* were saved last (_async_options_updated, async_setup_entry).  What it reads of
\* them is the poll interval alone, and what is saved the connection timeout alone.
NoSavingMissed == <>[](entry = "loaded" => read = options)

\* The CU refuses the password of the entry: start() does not return, and the
\* setup, with Home Assistant's lock, goes on for ever.
SetupRefused == entry = "setup" /\ client[own] = "refused"

\* With a CU whose outages end, a setup that found it down is repeated until the
\* entry is loaded, unless the entry is removed, the CU refuses its password, or
\* its configuration cannot be used.
SetupSucceeds ==
  entry = "setup" ~> entry \in {"loaded", "absent"} \/ SetupRefused \/ leaked # {}

-----------------------------------------------------------------------------
(* What the source says and the code does not do; each is refuted by a run. *)

\* "any other exception -> propagates after the client is stopped"
\* (async_build_coordinator): a setup that failed leaves no client behind.
FailedSetupStopsClient == \A c \in Clients : client[c] # "stopped" => Owned(c)

\* "Bad creds -> form re-shown with invalid_auth error" (test_config_flow.py): a
\* form is answered, whatever the Central Unit says to its LOGIN.
FormAnswered == \A f \in Flows \ Probes : flow[f] = "start" ~> flow[f] # "start"

=============================================================================
