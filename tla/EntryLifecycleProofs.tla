------------------------- MODULE EntryLifecycleProofs -------------------------
(***************************************************************************)
(* Proofs about EntryLifecycle for any number of clients, config flows,    *)
(* probes, saved options and failures: who owns which client at each await *)
(* of setup, reload and unload.                                            *)
(***************************************************************************)
EXTENDS EntryLifecycle, FiniteSetTheorems, TLAPS

-----------------------------------------------------------------------------
(* The inductive invariant *)

\* The state of the entry and the await it is at say who holds the client.
StepInv ==
  /\ entry = "setup" <=> step \in {"start", "config", "drop", "forward"}
  /\ entry = "unload" <=> step \in {"platforms", "shutdown", "hooks"}
  /\ own # NoClient <=> step \notin {"none", "platforms"}
  /\ registered # NoClient <=> entry = "loaded" \/ step \in {"forward", "platforms"}
  /\ step = "forward" => own = registered
  /\ after # "none" <=> entry = "unload"

\* Callbacks and poll task are those of the coordinator that serves; of an entry
\* that failed to unload the callbacks of one coordinator stay.
TaskInv ==
  /\ entry = "loaded" \/ step = "platforms" => hooks = {registered} /\ polls = {registered}
  /\ step = "shutdown" => hooks = {own} /\ polls = {own}
  /\ step = "hooks" => hooks = {own} /\ polls = {}
  /\ entry = "failed_unload" => polls = {} /\ \E c \in Clients : hooks = {c}
  /\ entry \in {"absent", "not_loaded", "setup", "retry", "error"} => hooks = {} /\ polls = {}

\* What the client of the entry does at each await.
ServeInv ==
  /\ step = "start" => client[own] \in {"starting", "refused", "running"}
  /\ step \in {"config", "drop", "forward", "shutdown"} => client[own] = "running"
  /\ step = "hooks" => client[own] = "stopped"
  /\ entry = "loaded" \/ step = "platforms" => client[registered] = "running"

\* A flow shares its client with nobody, and a client that was given up runs on
\* without an owner.
ShareInv ==
  /\ \A f \in Flows : flow[f] = "idle" <=> flowClient[f] = NoClient
  /\ \A f \in Flows : flowClient[f] # NoClient =>
       flowClient[f] \notin {own, registered} \cup hooks \cup polls \cup leaked
  /\ \A f, g \in Flows : flowClient[f] = flowClient[g] => f = g \/ flowClient[f] = NoClient
  /\ \A c \in leaked : client[c] = "running" /\ c \notin {own, registered} \cup hooks \cup polls

EntryInv == TypeOK /\ StepInv /\ TaskInv /\ ServeInv /\ ShareInv /\ NoOrphanClient

-----------------------------------------------------------------------------
(* Initially, and what the actions share *)

LEMMA InitInv == Init => EntryInv
BY ClientAssumption, BoundAssumption
   DEF Init, EntryInv, TypeOK, States, MaybeClient, StepInv, TaskInv, ServeInv, ShareInv,
       NoOrphanClient

\* A new client belongs to nobody yet and was not given up.
LEMMA NewClient ==
  ASSUME EntryInv, NEW c \in Clients, IsNew(c)
  PROVE  /\ c # NoClient /\ client[c] = "stopped"
         /\ c \notin {own, registered} \cup hooks \cup polls \cup leaked
         /\ \A f \in Flows : flowClient[f] # c
BY ClientAssumption DEF IsNew, Unused, EntryInv, ShareInv

\* At most one update listener is registered, so that a save asks for one reload.
LEMMA OneListener == EntryInv => ReloadsAsked \in {0, 1}
<1> SUFFICES ASSUME EntryInv PROVE ReloadsAsked \in {0, 1}
  OBVIOUS
<1>1. hooks = {} \/ \E c : hooks = {c}
  BY DEF EntryInv, TypeOK, States, StepInv, TaskInv
<1> QED
  BY <1>1, FS_EmptySet, FS_Singleton DEF ReloadsAsked

-----------------------------------------------------------------------------
(* Type correctness *)

LEMMA NextType == EntryInv /\ [Next]_vars => TypeOK'
<1> SUFFICES ASSUME EntryInv, [Next]_vars PROVE TypeOK'
  OBVIOUS
<1>0. TypeOK /\ NoClient \notin Clients /\ MaxTroubles \in Nat /\ MaxOptions \in Nat
  BY ClientAssumption, BoundAssumption DEF EntryInv
<1> USE <1>0 DEF TypeOK, States, MaybeClient, entryVars, taskVars, flowVars, userVars, cuVars,
                 Trouble
<1>1. ASSUME NEW c \in Clients, LogsIn(c) PROVE TypeOK'
  BY <1>1 DEF LogsIn
<1>2. ASSUME NEW f \in Flows, FlowStarts(f) PROVE TypeOK'
  BY <1>2 DEF FlowStarts, Starts
<1>3. ASSUME NEW f \in Flows, FlowLogsIn(f) \/ FlowFetches(f) PROVE TypeOK'
  BY <1>3 DEF FlowLogsIn, FlowFetches
<1>4. ASSUME NEW f \in Flows, FlowEnds(f) PROVE TypeOK'
  BY <1>4 DEF FlowEnds, FlowStop
<1>5. ASSUME NEW f \in Flows, ProbeFetches(f) PROVE TypeOK'
  BY <1>5 DEF ProbeFetches
<1>6. ASSUME NEW f \in Flows, ProbeObserved(f) \/ ProbeInterrupted(f) \/ ProbeEnds(f)
      PROVE  TypeOK'
  BY <1>6 DEF ProbeObserved, ProbeInterrupted, ProbeEnds, FlowStop
<1>7. CASE Setup
  BY <1>7 DEF Setup, BeginSetup, Starts
<1>8. CASE SetupLogsIn \/ SetupConfigFails \/ SetupNotReady \/ SetupBuilt
  BY <1>8 DEF SetupLogsIn, SetupConfigFails, SetupNotReady, SetupBuilt, StopAfterFailure,
     NotReady, EndSetup
<1>9. CASE SetupConfigUnusable
  BY <1>9 DEF SetupConfigUnusable, EndSetup, EntryInv, StepInv
<1>10. CASE SetupForwarded
  BY <1>10 DEF SetupForwarded, PollStarted, EndSetup, EntryInv, StepInv
<1>11. CASE SaveOptions
  BY <1>11, OneListener DEF SaveOptions
<1>12. CASE Reload
  BY <1>12 DEF Reload, BeginSetup, Starts
<1>13. CASE Remove \/ UnloadPlatforms
  BY <1>13 DEF Remove, UnloadPlatforms
<1>14. CASE UnloadShutsDown
  <2>1. /\ polls' \subseteq Clients
        /\ client' \in [Clients -> {"stopped", "starting", "refused", "running"}]
    BY <1>14 DEF UnloadShutsDown, Shutdown
  <2>2. UNCHANGED <<registered, hooks, read, flow, flowClient, options, reloads, cu,
                    leaked>>
    BY <1>14 DEF UnloadShutsDown
  <2>3. troubles' \in 0 .. MaxTroubles
    BY <1>14 DEF UnloadShutsDown
  <2>4. /\ entry' \in {entry, "failed_unload"} /\ step' \in {"hooks", "none"}
        /\ own' \in {own, NoClient} /\ after' \in {after, "none"}
    BY <1>14 DEF UnloadShutsDown, EndSetup
  <2> QED
    BY <2>1, <2>2, <2>3, <2>4
<1>15. CASE UnloadHooks
  <2>1. /\ client' \in [Clients -> {"stopped", "starting", "refused", "running"}]
        /\ troubles' \in 0 .. MaxTroubles
    <3> DEFINE clients == [k \in Clients |-> IF k \in hooks THEN "stopped" ELSE client[k]]
    <3>1. clients \in [Clients -> {"stopped", "starting", "refused", "running"}]
      OBVIOUS
    <3>2. \/ client' = clients /\ UNCHANGED troubles
          \/ \E c \in Clients : Starts(c, clients)
      BY <1>15 DEF UnloadHooks
    <3> HIDE DEF clients
    <3> QED
      BY <3>1, <3>2 DEF Starts
  <2>2. /\ entry' \in {"setup", "absent"} /\ step' \in {"start", "none"}
        /\ own' \in MaybeClient /\ after' = "none" /\ hooks' = {} /\ polls' \subseteq polls
        /\ UNCHANGED <<registered, read, flow, flowClient, options, reloads, cu, leaked>>
    BY <1>15 DEF UnloadHooks, HooksLeft, EndSetup
  <2> QED
    BY <2>1, <2>2
<1>16. CASE CuFails \/ CuRecovers
  BY <1>16 DEF CuFails, CuRecovers
<1>17. CASE UNCHANGED vars
  BY <1>17 DEF vars
<1> QED
  BY <1>1, <1>2, <1>3, <1>4, <1>5, <1>6, <1>7, <1>8, <1>9, <1>10, <1>11, <1>12, <1>13,
     <1>14, <1>15, <1>16, <1>17
     DEF Next, FlowSubmits, ProbeStarts, FlowStep, SetupStep, UnloadStep

-----------------------------------------------------------------------------
(* The parts of the invariant *)

\* Steps of a flow, a probe, a client or the CU leave the entry where it is, but
\* for the flow that creates it.
LEMMA FlowStepsKeep ==
  ASSUME \/ \E c \in Clients : LogsIn(c)
         \/ \E f \in Flows : \/ FlowSubmits(f) \/ ProbeStarts(f)
                             \/ FlowStep(f) \/ ProbeInterrupted(f)
         \/ SaveOptions \/ CuFails \/ CuRecovers
  PROVE  /\ UNCHANGED <<step, own, after, registered, hooks, polls, leaked>>
         /\ entry' = entry \/ (entry = "absent" /\ entry' = "not_loaded")
BY DEF LogsIn, FlowSubmits, ProbeStarts, FlowStarts, FlowStep, FlowLogsIn, FlowFetches,
   FlowEnds, ProbeFetches, ProbeObserved, ProbeEnds, ProbeInterrupted, SaveOptions,
   CuFails, CuRecovers, entryVars, taskVars

LEMMA StepNext == EntryInv /\ [Next]_vars => StepInv'
<1> SUFFICES ASSUME EntryInv, [Next]_vars PROVE StepInv'
  OBVIOUS
<1>0. TypeOK /\ StepInv /\ NoClient \notin Clients
  BY ClientAssumption DEF EntryInv
<1> USE <1>0 DEF StepInv
<1>1. CASE \/ \E c \in Clients : LogsIn(c)
           \/ \E f \in Flows : \/ FlowSubmits(f) \/ ProbeStarts(f)
                               \/ FlowStep(f) \/ ProbeInterrupted(f)
           \/ SaveOptions \/ CuFails \/ CuRecovers
  BY <1>1, FlowStepsKeep
<1>2. CASE Setup
  BY <1>2 DEF Setup, BeginSetup, Starts
<1>3. CASE SetupLogsIn \/ SetupConfigFails
  BY <1>3 DEF SetupLogsIn, SetupConfigFails
<1>4. CASE SetupNotReady \/ SetupConfigUnusable
  BY <1>4 DEF SetupNotReady, SetupConfigUnusable, NotReady, EndSetup
<1>5. CASE SetupBuilt
  BY <1>5 DEF SetupBuilt
<1>6. CASE SetupForwarded
  BY <1>6 DEF SetupForwarded, EndSetup
<1>7. CASE Reload
  BY <1>7 DEF Reload, BeginSetup, Starts, TypeOK
<1>8. CASE Remove
  BY <1>8 DEF Remove, TypeOK
<1>9. CASE UnloadPlatforms
  BY <1>9 DEF UnloadPlatforms
<1>10. CASE UnloadShutsDown
  BY <1>10 DEF UnloadShutsDown, EndSetup
<1>11. CASE UnloadHooks
  BY <1>11 DEF UnloadHooks, Starts, EndSetup
<1>12. CASE UNCHANGED vars
  BY <1>12 DEF vars, entryVars
<1> QED
  BY <1>1, <1>2, <1>3, <1>4, <1>5, <1>6, <1>7, <1>8, <1>9, <1>10, <1>11, <1>12
     DEF Next, SetupStep, UnloadStep

LEMMA TaskNext == EntryInv /\ [Next]_vars => TaskInv'
<1> SUFFICES ASSUME EntryInv, [Next]_vars PROVE TaskInv'
  OBVIOUS
<1>0. TypeOK /\ StepInv /\ TaskInv /\ NoClient \notin Clients
  BY ClientAssumption DEF EntryInv
<1> USE <1>0 DEF TaskInv, StepInv, taskVars
<1>1. CASE \/ \E c \in Clients : LogsIn(c)
           \/ \E f \in Flows : \/ FlowSubmits(f) \/ ProbeStarts(f)
                               \/ FlowStep(f) \/ ProbeInterrupted(f)
           \/ SaveOptions \/ CuFails \/ CuRecovers
  BY <1>1, FlowStepsKeep
<1>2. CASE Setup
  BY <1>2 DEF Setup, BeginSetup, Starts
<1>3. CASE SetupLogsIn \/ SetupConfigFails
  BY <1>3 DEF SetupLogsIn, SetupConfigFails
<1>4. CASE SetupNotReady \/ SetupConfigUnusable
  BY <1>4 DEF SetupNotReady, SetupConfigUnusable, NotReady, EndSetup
<1>5. CASE SetupBuilt
  BY <1>5 DEF SetupBuilt
<1>6. CASE SetupForwarded
  BY <1>6 DEF SetupForwarded, PollStarted, EndSetup
<1>7. CASE Reload
  BY <1>7 DEF Reload, BeginSetup, Starts
<1>8. CASE Remove
  BY <1>8 DEF Remove
<1>9. CASE UnloadPlatforms
  BY <1>9 DEF UnloadPlatforms
<1>10. CASE UnloadShutsDown
  <2>1. own \in Clients /\ hooks = {own} /\ polls' = {}
    BY <1>10 DEF UnloadShutsDown, Shutdown, TypeOK, MaybeClient
  <2> QED
    BY <1>10, <2>1 DEF UnloadShutsDown, EndSetup
<1>11. CASE UnloadHooks
  <2>1. hooks' = {} /\ polls' = {}
    BY <1>11 DEF UnloadHooks, Starts, HooksLeft
  <2> QED
    BY <1>11, <2>1 DEF UnloadHooks, Starts, EndSetup
<1>12. CASE UNCHANGED vars
  BY <1>12 DEF vars, entryVars
<1> QED
  BY <1>1, <1>2, <1>3, <1>4, <1>5, <1>6, <1>7, <1>8, <1>9, <1>10, <1>11, <1>12
     DEF Next, SetupStep, UnloadStep

LEMMA ServeNext == EntryInv /\ [Next]_vars => ServeInv'
<1> SUFFICES ASSUME EntryInv, [Next]_vars PROVE ServeInv'
  OBVIOUS
<1>0. /\ TypeOK /\ StepInv /\ TaskInv /\ ServeInv /\ ShareInv /\ NoClient \notin Clients
      /\ client \in [Clients -> {"stopped", "starting", "refused", "running"}]
      /\ own \in Clients \cup {NoClient} /\ registered \in Clients \cup {NoClient}
      /\ step \in {"start", "config", "drop", "forward", "shutdown", "hooks"} => own \in Clients
      /\ entry = "loaded" \/ step = "platforms" => registered \in Clients
  BY ClientAssumption DEF EntryInv, TypeOK, MaybeClient, StepInv
<1> USE <1>0 DEF ServeInv, StepInv
<1>1. ASSUME NEW c \in Clients, LogsIn(c) PROVE ServeInv'
  BY <1>1 DEF LogsIn, entryVars
<1>2. ASSUME NEW f \in Flows, FlowStarts(f) PROVE ServeInv'
  <2>1. UNCHANGED <<entry, step, own, registered>>
    BY <1>2 DEF FlowStarts, Starts, entryVars
  <2>2. PICK c \in Clients : IsNew(c) /\ \A d \in Clients : d # c => client'[d] = client[d]
    BY <1>2 DEF FlowStarts, Starts
  <2>3. c # own /\ c # registered
    BY <2>2, NewClient
  <2> QED
    BY <2>1, <2>2, <2>3
<1>3. ASSUME NEW f \in Flows, FlowEnds(f) \/ ProbeEnds(f) PROVE ServeInv'
  <2>1. /\ UNCHANGED <<step, own, registered>> /\ entry' \in {entry, "not_loaded"}
        /\ \A d \in Clients : d # flowClient[f] => client'[d] = client[d]
    BY <1>3 DEF FlowEnds, ProbeEnds, FlowStop, entryVars
  <2>2. flowClient[f] # NoClient => flowClient[f] # own /\ flowClient[f] # registered
    BY DEF ShareInv
  <2> QED
    BY <2>1, <2>2
<1>4. CASE \/ \E f \in Flows : \/ FlowLogsIn(f) \/ FlowFetches(f) \/ ProbeFetches(f)
                               \/ ProbeObserved(f) \/ ProbeInterrupted(f)
           \/ SaveOptions \/ CuFails \/ CuRecovers \/ UNCHANGED vars
  BY <1>4 DEF FlowLogsIn, FlowFetches, ProbeFetches, ProbeObserved, ProbeInterrupted,
     SaveOptions, CuFails, CuRecovers, vars, entryVars
<1>5. CASE Setup
  BY <1>5 DEF Setup, BeginSetup, Starts
<1>6. CASE SetupLogsIn \/ SetupConfigFails
  BY <1>6 DEF SetupLogsIn, SetupConfigFails
<1>7. CASE SetupNotReady \/ SetupConfigUnusable
  BY <1>7 DEF SetupNotReady, SetupConfigUnusable, NotReady, EndSetup
<1>8. CASE SetupBuilt \/ SetupForwarded
  BY <1>8 DEF SetupBuilt, SetupForwarded, EndSetup
<1>9. CASE Reload
  BY <1>9 DEF Reload, BeginSetup, Starts, TypeOK
<1>10. CASE Remove
  BY <1>10 DEF Remove, TypeOK
<1>11. CASE UnloadPlatforms
  BY <1>11 DEF UnloadPlatforms
<1>12. CASE UnloadShutsDown
  BY <1>12 DEF UnloadShutsDown, Shutdown, EndSetup
<1>13. CASE UnloadHooks
  BY <1>13 DEF UnloadHooks, Starts, EndSetup
<1> QED
  BY <1>1, <1>2, <1>3, <1>4, <1>5, <1>6, <1>7, <1>8, <1>9, <1>10, <1>11, <1>12, <1>13
     DEF Next, FlowSubmits, ProbeStarts, FlowStep, SetupStep, UnloadStep

LEMMA ShareNext == EntryInv /\ [Next]_vars => ShareInv'
<1> SUFFICES ASSUME EntryInv, [Next]_vars PROVE ShareInv'
  OBVIOUS
<1>0. /\ TypeOK /\ StepInv /\ TaskInv /\ ServeInv /\ ShareInv /\ NoOrphanClient
      /\ NoClient \notin Clients
      /\ client \in [Clients -> {"stopped", "starting", "refused", "running"}]
      /\ flow \in [Flows -> {"idle", "start", "config", "observe", "stop_ok", "stop_error"}]
      /\ flowClient \in [Flows -> Clients \cup {NoClient}] /\ leaked \subseteq Clients
      /\ own \in Clients \cup {NoClient} /\ registered \in Clients \cup {NoClient}
      /\ step \in {"start", "config", "drop", "forward", "shutdown", "hooks"} => own \in Clients
      /\ entry = "loaded" \/ step = "platforms" => registered \in Clients
  BY ClientAssumption DEF EntryInv, TypeOK, MaybeClient, StepInv
<1> USE <1>0 DEF ShareInv, entryVars, taskVars, flowVars
<1>1. ASSUME NEW c \in Clients, LogsIn(c) PROVE ShareInv'
  BY <1>1 DEF LogsIn
<1>2. ASSUME NEW f \in Flows, FlowStarts(f) PROVE ShareInv'
  <2>1. PICK c \in Clients : /\ IsNew(c) /\ flowClient' = [flowClient EXCEPT ![f] = c]
                             /\ \A d \in Clients : d # c => client'[d] = client[d]
    BY <1>2 DEF FlowStarts, Starts
  <2>2. /\ c \notin {own, registered} \cup hooks \cup polls \cup leaked
        /\ \A g \in Flows : flowClient[g] # c
    BY <2>1, NewClient
  <2> QED
    BY <1>2, <2>1, <2>2 DEF FlowStarts, Starts
<1>3. ASSUME NEW f \in Flows, FlowEnds(f) \/ ProbeEnds(f) PROVE ShareInv'
  <2>1. /\ UNCHANGED <<own, registered, hooks, polls, leaked>>
        /\ flow' = [flow EXCEPT ![f] = "idle"]
        /\ flowClient' = [flowClient EXCEPT ![f] = NoClient]
        /\ \A d \in Clients : d # flowClient[f] => client'[d] = client[d]
    BY <1>3 DEF FlowEnds, ProbeEnds, FlowStop
  <2>2. \A c \in leaked : c # flowClient[f]
    OBVIOUS
  <2> QED
    BY <2>1, <2>2
<1>4. ASSUME NEW f \in Flows, FlowLogsIn(f) \/ FlowFetches(f) \/ ProbeFetches(f)
                              \/ ProbeObserved(f) \/ ProbeInterrupted(f)
      PROVE  ShareInv'
  <2>1. /\ UNCHANGED <<own, registered, hooks, polls, leaked, client, flowClient>>
        /\ flow[f] # "idle" /\ \E p : p # "idle" /\ flow' = [flow EXCEPT ![f] = p]
    BY <1>4 DEF FlowLogsIn, FlowFetches, ProbeFetches, ProbeObserved, ProbeInterrupted
  <2> QED
    BY <2>1
<1>5. CASE SaveOptions \/ CuFails \/ CuRecovers \/ UNCHANGED vars
  BY <1>5 DEF SaveOptions, CuFails, CuRecovers, vars
<1>6. ASSUME NEW c \in Clients, IsNew(c), BeginSetup(c),
             UNCHANGED <<registered, hooks, polls, flow, flowClient, leaked>>
      PROVE  ShareInv'
  <2>1. /\ c \notin {own, registered} \cup hooks \cup polls \cup leaked
        /\ \A g \in Flows : flowClient[g] # c
    BY <1>6, NewClient
  <2>2. own' = c /\ \A d \in Clients : d # c => client'[d] = client[d]
    BY <1>6 DEF BeginSetup, Starts
  <2> QED
    BY <1>6, <2>1, <2>2
<1>7. CASE Setup
  BY <1>6, <1>7 DEF Setup
<1>8. CASE SetupLogsIn \/ SetupConfigFails
  BY <1>8 DEF SetupLogsIn, SetupConfigFails
<1>9. CASE SetupNotReady
  BY <1>9 DEF SetupNotReady, StopAfterFailure, NotReady, EndSetup
<1>10. CASE SetupConfigUnusable
  <2>1. hooks = {} /\ polls = {} /\ registered = NoClient /\ client[own] = "running"
        /\ own \in Clients
    BY <1>10 DEF SetupConfigUnusable, StepInv, TaskInv, ServeInv
  <2> QED
    BY <1>10, <2>1 DEF SetupConfigUnusable, EndSetup
<1>11. CASE SetupBuilt
  BY <1>11 DEF SetupBuilt
<1>12. CASE SetupForwarded
  BY <1>12 DEF SetupForwarded, PollStarted, EndSetup
<1>13. CASE Reload
  BY <1>6, <1>13 DEF Reload
<1>14. CASE Remove
  BY <1>14 DEF Remove
<1>15. CASE UnloadPlatforms
  BY <1>15 DEF UnloadPlatforms
<1>16. CASE UnloadShutsDown
  BY <1>16 DEF UnloadShutsDown, Shutdown, EndSetup
<1>17. CASE UnloadHooks
  <2>1. /\ hooks' = {} /\ polls' = {} /\ hooks = {own} /\ registered' = registered
        /\ UNCHANGED <<flow, flowClient, leaked>>
    BY <1>17 DEF UnloadHooks, Starts, HooksLeft, TaskInv, StepInv
  <2>2. \A c \in leaked : c # own /\ c \in Clients
    OBVIOUS
  <2>3. CASE after = "remove"
    <3>1. own' = NoClient /\ \A d \in Clients : d # own => client'[d] = client[d]
      BY <1>17, <2>1, <2>3 DEF UnloadHooks, Starts, EndSetup
    <3> QED
      BY <2>1, <2>2, <3>1
  <2>4. CASE after = "setup"
    <3>1. PICK c \in Clients :
            /\ IsNew(c) /\ own' = c
            /\ \A d \in Clients : d # own /\ d # c => client'[d] = client[d]
      BY <1>17, <2>1, <2>4 DEF UnloadHooks, Starts
    <3>2. c \notin leaked /\ \A g \in Flows : flowClient[g] # c
      BY <3>1, NewClient
    <3> QED
      BY <2>1, <2>2, <3>1, <3>2
  <2> QED
    BY <1>17, <2>3, <2>4 DEF UnloadHooks, Starts
<1> QED
  BY <1>1, <1>2, <1>3, <1>4, <1>5, <1>7, <1>8, <1>9, <1>10, <1>11, <1>12, <1>13, <1>14,
     <1>15, <1>16, <1>17
     DEF Next, FlowSubmits, ProbeStarts, FlowStep, SetupStep, UnloadStep

LEMMA OrphanNext == EntryInv /\ [Next]_vars => NoOrphanClient'
<1> SUFFICES ASSUME EntryInv, [Next]_vars PROVE NoOrphanClient'
  OBVIOUS
<1>0. /\ TypeOK /\ StepInv /\ TaskInv /\ ServeInv /\ ShareInv /\ NoOrphanClient
      /\ NoClient \notin Clients
      /\ client \in [Clients -> {"stopped", "starting", "refused", "running"}]
      /\ flow \in [Flows -> {"idle", "start", "config", "observe", "stop_ok", "stop_error"}]
      /\ flowClient \in [Flows -> Clients \cup {NoClient}] /\ leaked \subseteq Clients
      /\ own \in Clients \cup {NoClient} /\ registered \in Clients \cup {NoClient}
      /\ step \in {"start", "config", "drop", "forward", "shutdown", "hooks"} => own \in Clients
      /\ entry = "loaded" \/ step = "platforms" => registered \in Clients
  BY ClientAssumption DEF EntryInv, TypeOK, MaybeClient, StepInv
<1> USE <1>0 DEF NoOrphanClient, Owned, entryVars, flowVars
<1>1. ASSUME NEW c \in Clients, LogsIn(c) PROVE NoOrphanClient'
  BY <1>1 DEF LogsIn
<1>2. ASSUME NEW f \in Flows, FlowStarts(f) PROVE NoOrphanClient'
  <2>1. PICK c \in Clients : /\ IsNew(c) /\ flowClient' = [flowClient EXCEPT ![f] = c]
                             /\ \A d \in Clients : d # c => client'[d] = client[d]
    BY <1>2 DEF FlowStarts, Starts
  <2>2. flowClient[f] = NoClient /\ UNCHANGED <<own, registered, leaked>>
    BY <1>2 DEF FlowStarts, Starts, ShareInv
  <2> QED
    BY <2>1, <2>2
<1>3. ASSUME NEW f \in Flows, FlowEnds(f) \/ ProbeEnds(f) PROVE NoOrphanClient'
  <2>1. /\ UNCHANGED <<own, registered, leaked>>
        /\ flowClient' = [flowClient EXCEPT ![f] = NoClient]
        /\ client' = [client EXCEPT ![flowClient[f]] = "stopped"]
    BY <1>3 DEF FlowEnds, ProbeEnds, FlowStop
  <2> QED
    BY <2>1
<1>4. CASE \/ \E f \in Flows : \/ FlowLogsIn(f) \/ FlowFetches(f) \/ ProbeFetches(f)
                               \/ ProbeObserved(f) \/ ProbeInterrupted(f)
           \/ SaveOptions \/ CuFails \/ CuRecovers \/ UNCHANGED vars
           \/ SetupLogsIn \/ SetupConfigFails \/ Remove
  BY <1>4 DEF FlowLogsIn, FlowFetches, ProbeFetches, ProbeObserved, ProbeInterrupted,
     SaveOptions, CuFails, CuRecovers, vars, SetupLogsIn, SetupConfigFails, Remove
<1>5. ASSUME NEW c \in Clients, BeginSetup(c), own = NoClient,
             UNCHANGED <<registered, flowClient, leaked>>
      PROVE  NoOrphanClient'
  BY <1>5 DEF BeginSetup, Starts
<1>6. CASE Setup
  BY <1>5, <1>6 DEF Setup, StepInv, TypeOK
<1>7. CASE SetupNotReady
  BY <1>7 DEF SetupNotReady, StopAfterFailure, NotReady, EndSetup
<1>8. CASE SetupConfigUnusable
  BY <1>8 DEF SetupConfigUnusable, EndSetup
<1>9. CASE SetupBuilt
  BY <1>9 DEF SetupBuilt, StepInv
<1>10. CASE SetupForwarded
  BY <1>10 DEF SetupForwarded, EndSetup, StepInv
<1>11. CASE Reload
  BY <1>5, <1>11 DEF Reload, StepInv, TypeOK
<1>12. CASE UnloadPlatforms
  BY <1>12 DEF UnloadPlatforms, StepInv
<1>13. CASE UnloadShutsDown
  BY <1>13 DEF UnloadShutsDown, Shutdown, EndSetup
<1>14. CASE UnloadHooks
  BY <1>14 DEF UnloadHooks, Starts, EndSetup, TaskInv
<1> QED
  BY <1>1, <1>2, <1>3, <1>4, <1>6, <1>7, <1>8, <1>9, <1>10, <1>11, <1>12, <1>13, <1>14
     DEF Next, FlowSubmits, ProbeStarts, FlowStep, SetupStep, UnloadStep

-----------------------------------------------------------------------------
(* The theorems *)

\* The inductive invariant, of which the others are parts.
THEOREM Invariant == Spec => []EntryInv
<1>1. EntryInv /\ [Next]_vars => EntryInv'
  BY NextType, StepNext, TaskNext, ServeNext, ShareNext, OrphanNext DEF EntryInv
<1> QED
  BY <1>1, InitInv, PTL DEF Spec

\* Every variable has its type; one saving of the options asks for one reload at
\* most, however often the entry was reloaded or failed to unload.
THEOREM TypeCorrect == Spec => []TypeOK
<1>1. EntryInv => TypeOK
  BY DEF EntryInv
<1> QED
  BY <1>1, Invariant, PTL

\* Whoever starts a client stops it (async_build_coordinator, async_shutdown, the
\* finally clauses of the flow and the probe), but for the one it gives up.
THEOREM ClientsOwned == Spec => []NoOrphanClient
<1>1. EntryInv => NoOrphanClient
  BY DEF EntryInv
<1> QED
  BY <1>1, Invariant, PTL

\* A loaded entry has one coordinator, its poll task and its callbacks, and the
\* client runs (async_setup_entry).
THEOREM EntryServed == Spec => []LoadedIsServed
<1>1. EntryInv => LoadedIsServed
  BY DEF EntryInv, StepInv, TaskInv, ServeInv, LoadedIsServed
<1> QED
  BY <1>1, Invariant, PTL

\* Reloads and repeated setups stop the old client before they make a new one.
THEOREM OneClient == Spec => []OneClientPerEntry
<1>1. EntryInv => OneClientPerEntry
  <2> SUFFICES ASSUME EntryInv PROVE OneClientPerEntry
    OBVIOUS
  <2> DEFINE S == {c \in Clients \ leaked :
                     client[c] # "stopped" /\ \A f \in Flows : flowClient[f] # c}
  <2>1. S \subseteq {own, registered} \ {NoClient}
    BY ClientAssumption DEF EntryInv, NoOrphanClient, Owned
  <2>2. own = registered \/ own = NoClient \/ registered = NoClient
    BY DEF EntryInv, StepInv, TypeOK
  <2>3. S \subseteq {own} \/ S \subseteq {registered}
    BY <2>1, <2>2
  <2>4. ASSUME NEW x, S \subseteq {x} PROVE Cardinality(S) <= 1
    <3>1. IsFiniteSet({x}) /\ Cardinality({x}) = 1
      BY FS_Singleton
    <3>2. IsFiniteSet(S) /\ Cardinality(S) <= Cardinality({x})
      BY <2>4, <3>1, FS_Subset
    <3> QED
      BY <3>1, <3>2
  <2> QED
    BY <2>3, <2>4 DEF OneClientPerEntry
<1> QED
  BY <1>1, Invariant, PTL

==============================================================================
