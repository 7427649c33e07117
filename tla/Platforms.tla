------------------------------- MODULE Platforms -------------------------------
(***************************************************************************)
(* The four platforms (switch.py, light.py, cover.py, scene.py) with the   *)
(* type table (mapping.py) and the codecs (models.py): from a service call *)
(* in Home Assistant over the OPERATE command, the Central Unit and its    *)
(* report back to what the entity shows.  No entity assumes the outcome of *)
(* a command: what it shows comes from reports alone.                      *)
(*                                                                         *)
(* How the cache is kept is Coordinator's subject and how a command travels*)
(* WSClient's; here a connection carries the commands one way and the      *)
(* reports, of pushes and of the poll, the other, each in order.           *)
(***************************************************************************)
EXTENDS Conversions, SequencesExt

CONSTANTS Items,       \* items of the configuration
          TypeOf,      \* per item: the type the CU gives it
          Scenes,      \* per scene item: the states it gives to its members
          Brightnesses,\* values of the brightness of light.turn_on
          Positions,   \* positions a cover may be sent to, or found at
          MaxServices, \* bound: service calls
          MaxChanges,  \* bound: changes by others than Home Assistant
          MaxFaults    \* bound: drops and pushes that get lost

\* The configuration is one finite list.
ASSUME ItemsAssumption == IsFiniteSet(Items)
ASSUME BrightnessAssumption == Brightnesses \subseteq 1 .. 255
ASSUME PositionAssumption == Positions \subseteq 0 .. 100 /\ {0, 100} \subseteq Positions
ASSUME BoundAssumption == {MaxServices, MaxChanges, MaxFaults} \subseteq Nat

VARIABLES
  ready,     \* were the platforms set up?
  cache,     \* SwitchBeeCoordinator.data
  shown,     \* what each entity wrote last
  connected, \* SwitchBeeWSClient.connected
  stream,    \* external: reports on their way to the reader
  commands,  \* external: OPERATE commands on their way to the CU
  truth,     \* external: the state of each item on the CU
  motion,    \* external: where a cover is moving to
  meant,     \* history: what Home Assistant should show if nobody else interferes
  services, changes, faults  \* how much of each bound is used up

haVars == <<ready, cache, shown>>
cuVars == <<truth, motion, meant>>
vars == <<haVars, connected, stream, commands, cuVars, services, changes, faults>>

-----------------------------------------------------------------------------
(* Raw values and states.  A raw value is a word or a number.               *)

Number(n) == [word |-> "number", num |-> n]
Word(w) == [word |-> w, num |-> 0]
Resting == Number(-2)   \* no motion

NoLevel == -1
State(st, level) == [st |-> st, level |-> level]
Unavailable == State("unavailable", NoLevel)
Anything == State("anything", NoLevel)

OFFLINE_SENTINELS == {Number(-1), Word("OFFLINE")}
SOMFY_COMMANDS == {"UP", "DOWN", "STOP"}
PERCENT_TYPES == {"SHUTTER", "LOUVERED_SHUTTER"}

MAPPING_TABLE ==
  [SWITCH |-> "switch", TIMED_SWITCH |-> "switch", GROUP_SWITCH |-> "switch",
   TIMED_POWER |-> "switch", LOCK_GROUP |-> "switch",
   DIMMER |-> "light",
   SHUTTER |-> "cover", LOUVERED_SHUTTER |-> "cover", SOMFY |-> "cover",
   SCENARIO |-> "scene", ROLLING_SCENARIO |-> "scene",
   THERMOSTAT |-> "none", VRF_AC |-> "none", IR_DEVICE |-> "none",
   SENSOR |-> "none", TWO_WAY |-> "none"]

map_type_to_platform(t) == IF t \in DOMAIN MAPPING_TABLE THEN MAPPING_TABLE[t] ELSE "none"

PLATFORMS == {"switch", "light", "cover", "scene"}

Platform(i) == map_type_to_platform(TypeOf[i])
IsPercent(i) == TypeOf[i] \in PERCENT_TYPES
IsNumber(raw) == raw.word = "number"

-----------------------------------------------------------------------------
(* What an entity shows of a raw value *)

SwitchState(raw) == State(IF raw = Word("ON") THEN "on" ELSE "off", NoLevel)

\* is_on and brightness of light.py; Home Assistant shows no brightness of a
\* light that is off.
LightState(raw) ==
  IF IsNumber(raw) /\ raw.num > 0 THEN State("on", PercentToByte(raw.num))
                                  ELSE State("off", NoLevel)

CoverState_Inverted(i, raw) ==
  IF ~(IsPercent(i) /\ IsNumber(raw)) THEN State("unknown", NoLevel)
  ELSE State(IF raw.num = 100 THEN "closed" ELSE "open", raw.num)

\* current_cover_position and is_closed of cover.py.
CoverState(i, raw) ==
  IF ~(IsPercent(i) /\ IsNumber(raw)) THEN State("unknown", NoLevel)
  ELSE State(IF raw.num = 0 THEN "closed" ELSE "open", raw.num)

\* A scene has no state, and an item that no platform takes no entity.
Decoded(i, raw) ==
  CASE Platform(i) = "switch" -> SwitchState(raw)
    [] Platform(i) = "light"  -> LightState(raw)
    [] Platform(i) = "cover"  -> CoverState(i, raw)
    [] OTHER                  -> State("unknown", NoLevel)

Available_WordOnly(raw) == connected /\ raw # Word("OFFLINE")

Available(raw) == connected /\ raw \notin OFFLINE_SENTINELS

Render(i, c) == IF Available(c[i]) THEN Decoded(i, c[i]) ELSE Unavailable

\* The entities: each platform takes the items of its types.
Entities == {i \in Items : ready /\ Platform(i) \in PLATFORMS}

-----------------------------------------------------------------------------
(* What a service sends *)

Service(name, arg) == [name |-> name, arg |-> arg]

\* The services Home Assistant offers for an item, by the features of its entity.
ServicesOf(i) ==
  CASE Platform(i) = "switch" -> {Service("turn_on", 0), Service("turn_off", 0)}
    [] Platform(i) = "light"  -> {Service("turn_on", b) : b \in Brightnesses \cup {255}}
                                   \cup {Service("turn_off", 0)}
    [] Platform(i) = "cover"  ->
         {Service(n, 0) : n \in {"open", "close", "stop"}}
           \cup (IF IsPercent(i) THEN {Service("set_position", p) : p \in Positions} ELSE {})
    [] Platform(i) = "scene"  -> {Service("activate", 0)}
    [] OTHER -> {}

SwitchPayload(s) == Word(IF s.name = "turn_on" THEN "ON" ELSE "OFF")

LightPayload_Byte(s) == Number(IF s.name = "turn_on" THEN s.arg ELSE 0)

\* Without a brightness turn_on sends 100, as it does for the highest one.
LightPayload(s) == Number(IF s.name = "turn_on" THEN TurnOnValue(s.arg) ELSE 0)

PercentPayload_Swapped(s) ==
  CASE s.name = "open"         -> Number(0)
    [] s.name = "close"        -> Number(100)
    [] s.name = "stop"         -> Word("STOP")
    [] s.name = "set_position" -> Number(encode_percent(s.arg))

PercentPayload_Verbs(s) ==
  CASE s.name = "open"         -> Word("UP")
    [] s.name = "close"        -> Word("DOWN")
    [] s.name = "stop"         -> Word("STOP")
    [] s.name = "set_position" -> Number(encode_percent(s.arg))

PercentPayload(s) ==
  CASE s.name = "open"         -> Number(100)
    [] s.name = "close"        -> Number(0)
    [] s.name = "stop"         -> Word("STOP")
    [] s.name = "set_position" -> Number(encode_percent(s.arg))

SomfyPayload(s) ==
  CASE s.name = "open"  -> Word("UP")
    [] s.name = "close" -> Word("DOWN")
    [] s.name = "stop"  -> Word("STOP")

Payload(i, s) ==
  CASE Platform(i) = "switch" -> SwitchPayload(s)
    [] Platform(i) = "light"  -> LightPayload(s)
    [] Platform(i) = "cover"  -> IF IsPercent(i) THEN PercentPayload(s) ELSE SomfyPayload(s)
    [] Platform(i) = "scene"  -> Word("ON")

-----------------------------------------------------------------------------
(* The Central Unit (external): what it takes and reports for each type     *)

Percents == {Number(p) : p \in 0 .. 100}

Accepts(i) ==
  CASE Platform(i) = "switch" -> {Word("ON"), Word("OFF")}
    [] Platform(i) = "light"  -> Percents
    [] Platform(i) = "cover"  -> IF IsPercent(i) THEN Percents
                                 ELSE {Word(w) : w \in SOMFY_COMMANDS}
    [] OTHER                  -> {Word("ON")}

\* What async_stop_cover sends to a cover with a position.  The docstrings of cover.py
\* and models.py have 0-100 for its type and the verbs for SOMFY only.
IsStopOfPercent(i, payload) == IsPercent(i) /\ payload = Word("STOP")

\* A scene consists of states of other items that those can be brought into.
ASSUME SceneAssumption ==
  \A i \in Items : Platform(i) = "scene" =>
    DOMAIN Scenes[i] \subseteq Items /\ \A j \in DOMAIN Scenes[i] : Scenes[i][j] \in Accepts(j)

\* States somebody else may bring an item into; a dimmer may say OFF, too.
Reports(i) ==
  CASE Platform(i) = "switch" -> OFFLINE_SENTINELS \cup {Word("ON"), Word("OFF")}
    [] Platform(i) = "light"  -> OFFLINE_SENTINELS \cup {Number(p) : p \in Positions}
                                   \cup {Word("OFF")}
    [] IsPercent(i)           -> OFFLINE_SENTINELS \cup {Number(p) : p \in Positions}
    [] OTHER                  -> {Word("OFFLINE"), Word("STOP")}

AtRest(i) == IF Platform(i) = "light" \/ IsPercent(i) THEN Number(0) ELSE Word("OFF")

\* What a user who calls s on i can mean Home Assistant to show.  The lowest
\* brightness is off here, because the conversion makes it so
\* (OnlyLowestBrightnessTurnsOff) and the test of light.py has it; a stopped cover and a scene
\* may be anywhere; a SOMFY never tells.
Meaning(i, s) ==
  CASE Platform(i) = "switch" -> State(IF s.name = "turn_on" THEN "on" ELSE "off", NoLevel)
    [] Platform(i) = "light"  -> IF s.name = "turn_on" /\ s.arg > 1 THEN State("on", s.arg)
                                                                   ELSE State("off", NoLevel)
    [] IsPercent(i) /\ s.name # "stop" ->
         LET p == CASE s.name = "open"  -> 100
                    [] s.name = "close" -> 0
                    [] OTHER            -> s.arg
         IN  State(IF p = 0 THEN "closed" ELSE "open", p)
    [] OTHER -> Anything

-----------------------------------------------------------------------------
Raws == [word : {"number", "ON", "OFF", "OFFLINE"} \cup SOMFY_COMMANDS, num : -1 .. 100]

States == [st : {"on", "off", "open", "closed", "unknown", "unavailable"}, level : -1 .. 255]

TypeOK ==
  /\ ready \in BOOLEAN
  /\ cache \in [Items -> Raws]
  /\ truth \in [Items -> Raws]
  /\ shown \in [Items -> States]
  /\ \A i \in Items : motion[i] = Resting \/ (IsPercent(i) /\ motion[i] \in Percents)
  /\ connected \in BOOLEAN
  /\ ~connected => stream = <<>> /\ commands = <<>>
  /\ services \in 0 .. MaxServices /\ changes \in 0 .. MaxChanges
  /\ faults \in 0 .. MaxFaults

\* The coordinator has just been built.
Init ==
  /\ ready = FALSE /\ connected = TRUE
  /\ truth = [i \in Items |-> AtRest(i)] /\ cache = truth
  /\ shown = [i \in Items |-> Unavailable]
  /\ stream = <<>> /\ commands = <<>>
  /\ motion = [i \in Items |-> Resting]
  /\ meant = [i \in Items |-> Anything]
  /\ services = 0 /\ changes = 0 /\ faults = 0

Fault == faults < MaxFaults /\ faults' = faults + 1

-----------------------------------------------------------------------------
(* Home Assistant *)

RenderAll(c) == shown' = [i \in Items |-> IF i \in Entities THEN Render(i, c) ELSE shown[i]]

\* async_setup_entry of the four platforms: each entity writes its state when it
\* is added (one after the other in Coordinator, together here).
SetUpPlatforms ==
  /\ ~ready /\ ready' = TRUE
  /\ shown' = [i \in Items |-> IF Platform(i) \in PLATFORMS THEN Render(i, cache)
                                                           ELSE shown[i]]
  /\ UNCHANGED <<cache, connected, stream, commands, cuVars, services, changes, faults>>

\* Home Assistant calls no service of an entity that is not available.
CallService(i, s) ==
  /\ i \in Entities /\ Available(cache[i]) /\ services < MaxServices
  /\ services' = services + 1
  /\ commands' = Append(commands, [item |-> i, service |-> s, payload |-> Payload(i, s)])
  /\ UNCHANGED <<haVars, connected, stream, cuVars, changes, faults>>

\* _on_push: every entity writes its state; the second write it schedules for
\* the item's own entity is in Coordinator.
Report ==
  /\ stream # <<>>
  /\ cache' = [cache EXCEPT ![Head(stream).item] = Head(stream).raw]
  /\ RenderAll(cache')
  /\ stream' = Tail(stream)
  /\ UNCHANGED <<ready, connected, commands, cuVars, services, changes, faults>>

\* _reconcile_once, of a poll that meets no push; Coordinator has the others.
Poll ==
  /\ ready /\ connected /\ stream = <<>> /\ truth # cache
  /\ cache' = truth
  /\ RenderAll(cache')
  /\ UNCHANGED <<ready, connected, stream, commands, cuVars, services, changes, faults>>

-----------------------------------------------------------------------------
(* The connection, as Connection has it *)

Drop ==
  /\ connected /\ Fault
  /\ connected' = FALSE /\ stream' = <<>> /\ commands' = <<>>
  /\ UNCHANGED <<haVars, cuVars, services, changes>>

Reconnect ==
  /\ ~connected
  /\ connected' = TRUE
  /\ UNCHANGED <<haVars, stream, commands, cuVars, services, changes, faults>>

-----------------------------------------------------------------------------
(* The Central Unit (external) *)

\* The items of f get its states; each change is pushed, if somebody listens,
\* in some order, or the pushes get lost.
Becomes(f) ==
  /\ truth' = [i \in Items |-> IF i \in DOMAIN f THEN f[i] ELSE truth[i]]
  /\ \/ stream' = stream \o
            (IF connected THEN SetToSeq({[item |-> i, raw |-> f[i]] :
                                          i \in {i \in DOMAIN f : f[i] # truth[i]}})
                          ELSE <<>>)
        /\ UNCHANGED faults
     \/ connected /\ Fault /\ UNCHANGED stream

Stays == UNCHANGED <<truth, stream, faults>>

\* The first command.  A cover starts to move, or stops where it is, if the CU takes
\* a STOP for it at all.
Execute ==
  /\ commands # <<>>
  /\ LET c == Head(commands)
         i == c.item
     IN  CASE truth[i] \in OFFLINE_SENTINELS ->
                Stays /\ UNCHANGED <<motion, meant>>
           [] IsStopOfPercent(i, c.payload) ->
                \/ /\ motion' = [motion EXCEPT ![i] = Resting]
                   /\ meant' = [meant EXCEPT ![i] = Anything]
                   /\ IF motion[i] = Resting THEN Stays
                      ELSE \E p \in Positions : Becomes([j \in {i} |-> Number(p)])
                \/ Stays /\ UNCHANGED <<motion, meant>>
           [] IsPercent(i) /\ ~IsStopOfPercent(i, c.payload) ->
                /\ motion' = [motion EXCEPT ![i] = c.payload]
                /\ meant' = [meant EXCEPT ![i] = Meaning(i, c.service)]
                /\ Stays
           [] Platform(i) = "scene" ->
                LET members == {j \in DOMAIN Scenes[i] : truth[j] \notin OFFLINE_SENTINELS}
                IN  /\ meant' = [j \in Items |->
                                   IF j \in members THEN Decoded(j, Scenes[i][j]) ELSE meant[j]]
                    /\ motion' = [j \in Items |-> IF j \in members THEN Resting ELSE motion[j]]
                    /\ Becomes([j \in members |-> Scenes[i][j]])
           [] OTHER ->
                /\ meant' = [meant EXCEPT ![i] = Meaning(i, c.service)]
                /\ Becomes([j \in {i} |-> c.payload])
                /\ UNCHANGED motion
  /\ commands' = Tail(commands)
  /\ UNCHANGED <<haVars, connected, services, changes>>

\* A cover arrives.
Arrive(i) ==
  /\ motion[i] # Resting
  /\ motion' = [motion EXCEPT ![i] = Resting]
  /\ Becomes([j \in {i} |-> motion[i]])
  /\ UNCHANGED <<haVars, connected, commands, meant, services, changes>>

\* A switch on the wall, an app, an item that goes offline or comes back.
ChangedByOthers(i, raw) ==
  /\ changes < MaxChanges /\ raw # truth[i]
  /\ changes' = changes + 1
  /\ motion' = [motion EXCEPT ![i] = Resting]
  /\ meant' = [meant EXCEPT ![i] = Anything]
  /\ Becomes([j \in {i} |-> raw])
  /\ UNCHANGED <<haVars, connected, commands, services>>

-----------------------------------------------------------------------------
Next ==
  \/ SetUpPlatforms
  \/ \E i \in Items : \/ \E s \in ServicesOf(i) : CallService(i, s)
                       \/ Arrive(i)
                       \/ \E raw \in Reports(i) : ChangedByOthers(i, raw)
  \/ Report \/ Drop \/ Reconnect \/ Execute \/ Poll

Spec == Init /\ [][Next]_vars

(* The loop and the CU go on, the connection comes back, the poll is on.     *)
FairSpec ==
  /\ Spec
  /\ WF_vars(SetUpPlatforms) /\ WF_vars(Report) /\ WF_vars(Poll)
  /\ WF_vars(Reconnect) /\ WF_vars(Execute)
  /\ \A i \in Items : WF_vars(Arrive(i))

-----------------------------------------------------------------------------
(* Properties *)

\* Whatever is called on whatever entity, the CU is sent a value of the kind the
\* docstrings give its type (the payloads of switch.py, light.py, cover.py and
\* scene.py), but for the STOP of a cover with a position, for which they have none.
PayloadUnderstood ==
  \A k \in DOMAIN commands :
    \/ commands[k].payload \in Accepts(commands[k].item)
    \/ IsStopOfPercent(commands[k].item, commands[k].payload)

\* An item the CU reported as unreachable is never shown as off, closed or on:
\* the codecs read the sentinels as off or as position -1, and every path that
\* writes a state has to ask available first.
OfflineNotShownAsState ==
  \A i \in Entities : cache[i] \in OFFLINE_SENTINELS => shown[i] = Unavailable

\* A state is the one that was meant, up to one step of the brightness.
Near(a, b) == a - b \in -1 .. 1
AsMeant(state, meaning) == state.st = meaning.st /\ Near(state.level, meaning.level)

\* The CU brings an item where the caller of the last service meant it to be, as the
\* entity would show it: through the choice of the payload, the conversion to the
\* wire and the one back, and whatever scene or stop came between.  Of a brightness
\* of 1 its caller means off (Meaning), and of a stop anything.
CuHoldsWhatWasMeant ==
  \A i \in Items : meant[i] # Anything =>
    IF motion[i] # Resting THEN AsMeant(Decoded(i, motion[i]), meant[i])
    ELSE truth[i] \in OFFLINE_SENTINELS \/ AsMeant(Decoded(i, truth[i]), meant[i])

\* Once the last command on an item was executed and nobody else changed it, the
\* entity sooner or later shows what its caller meant, and goes on showing it,
\* whichever pushes were lost, through the conversions to the CU and back, to
\* one step of the brightness, with 1 meaning off; or it is shown as unavailable.
ShowsWhatWasMeant ==
  \A i \in Items :
    <>[](meant[i] = Anything \/ shown[i] = Unavailable \/ AsMeant(shown[i], meant[i]))

=============================================================================
