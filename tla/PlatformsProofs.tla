--------------------------- MODULE PlatformsProofs ---------------------------
(***************************************************************************)
(* For every configuration, with any scenes in it: what is sent to the CU  *)
(* it understands, and has the meaning its caller gave it; and an item it  *)
(* cannot reach is never shown as a state.                                 *)
(***************************************************************************)
EXTENDS Platforms, ConversionProofs, FiniteSetTheorems, SequenceTheorems

Reported == [item : Items, raw : Raws]
Commands == [item : Items, service : UNION {ServicesOf(i) : i \in Items}, payload : Raws]

\* What is on its way in either direction, and where covers move to.
NetInv ==
  /\ stream \in Seq(Reported)
  /\ commands \in Seq(Commands)
  /\ motion \in [Items -> Percents \cup {Resting}]

PlatformInv == TypeOK /\ NetInv /\ PayloadUnderstood /\ OfflineNotShownAsState

-----------------------------------------------------------------------------
(* The operators *)

\* A finite set becomes a sequence of its elements.
LEMMA SetToSeqType ==
  ASSUME NEW S, IsFiniteSet(S)
  PROVE  SetToSeq(S) \in Seq(S)
<1>1. Cardinality(S) \in Nat /\ Bijection(1 .. Cardinality(S), S) # {}
  BY FS_CardinalityType DEF ExistsBijection
<1>2. \E f \in [1 .. Cardinality(S) -> S] : IsInjective(f)
  BY <1>1 DEF Bijection, Injection
<1>3. SetToSeq(S) \in [1 .. Cardinality(S) -> S]
  BY <1>2 DEF SetToSeq
<1> QED
  BY <1>1, <1>3

\* Covers are the only items with a position.
LEMMA PercentIsCover ==
  ASSUME NEW i, IsPercent(i)
  PROVE  Platform(i) = "cover"
BY DEF IsPercent, PERCENT_TYPES, Platform, map_type_to_platform, MAPPING_TABLE

\* The CU takes nothing that is not a raw value.
LEMMA AcceptsRaws ==
  ASSUME NEW i
  PROVE  Accepts(i) \subseteq Raws
<1>1. Percents \subseteq Raws
  BY DEF Percents, Number, Raws
<1>2. ASSUME NEW w \in {"ON", "OFF", "OFFLINE"} \cup SOMFY_COMMANDS
      PROVE  Word(w) \in Raws
  BY DEF Word, Raws
<1>3. {Word(w) : w \in SOMFY_COMMANDS} \subseteq Raws
  BY <1>2
<1>4. {Word("ON"), Word("OFF"), Word("STOP")} \subseteq Raws
  BY <1>2 DEF SOMFY_COMMANDS
<1> QED
  BY <1>1, <1>3, <1>4 DEF Accepts

\* Each platform sends what the type of its item takes, or that STOP.
LEMMA PayloadAccepted ==
  ASSUME NEW i \in Items, NEW s \in ServicesOf(i)
  PROVE  /\ Payload(i, s) \in Accepts(i) \/ IsStopOfPercent(i, Payload(i, s))
         /\ Payload(i, s) \in Raws
<1> SUFFICES Payload(i, s) \in Accepts(i) \/ IsStopOfPercent(i, Payload(i, s))
  BY AcceptsRaws DEF IsStopOfPercent, Word, Raws, SOMFY_COMMANDS
<1>1. CASE Platform(i) = "switch"
  BY <1>1 DEF Payload, Accepts, SwitchPayload
<1>2. CASE Platform(i) = "light"
  <2>1. s.arg \in Int
    BY <1>2, BrightnessAssumption DEF ServicesOf, Service
  <2>2. TurnOnValue(s.arg) \in 0 .. 100
    BY <2>1, WireInRange
  <2> QED
    BY <1>2, <2>2 DEF Payload, Accepts, LightPayload, Percents
<1>3. CASE Platform(i) = "cover" /\ IsPercent(i)
  <2>1. s \in {Service(n, 0) : n \in {"open", "close", "stop"}}
              \cup {Service("set_position", p) : p \in Positions}
    BY <1>3 DEF ServicesOf
  <2>2. CASE s.name \in {"open", "close"}
    BY <1>3, <2>2 DEF Payload, Accepts, PercentPayload, Percents
  <2>4. CASE s.name = "stop"
    BY <1>3, <2>4 DEF Payload, IsStopOfPercent, PercentPayload
  <2>3. CASE s.name = "set_position"
    <3>1. s.arg \in Int
      BY <2>1, <2>3, PositionAssumption DEF Service
    <3>2. encode_percent(s.arg) \in 0 .. 100
      BY <3>1, WireInRange
    <3> QED
      BY <1>3, <2>3, <3>2 DEF Payload, Accepts, PercentPayload, Percents
  <2> QED
    BY <2>1, <2>2, <2>3, <2>4 DEF Service
<1>4. CASE Platform(i) = "cover" /\ ~IsPercent(i)
  <2>1. s \in {Service(n, 0) : n \in {"open", "close", "stop"}}
    BY <1>4 DEF ServicesOf
  <2>2. s.name \in {"open", "close", "stop"}
    BY <2>1 DEF Service
  <2> QED
    BY <1>4, <2>2 DEF Payload, Accepts, SomfyPayload, SOMFY_COMMANDS
<1>5. CASE Platform(i) = "scene"
  BY <1>5 DEF Payload, Accepts
<1> QED
  BY <1>1, <1>2, <1>3, <1>4, <1>5 DEF ServicesOf

\* What an entity shows of a raw value is a state of Home Assistant.
LEMMA DecodedType ==
  ASSUME NEW i, NEW raw \in Raws
  PROVE  Decoded(i, raw) \in States /\ Unavailable \in States
<1>1. raw \in Raws
  OBVIOUS
<1>2. ASSUME NEW st \in {"on", "off", "open", "closed", "unknown", "unavailable"},
             NEW level \in -1 .. 255
      PROVE  State(st, level) \in States
  BY DEF State, States
<1>3. SwitchState(raw) \in States
  BY <1>2 DEF SwitchState, NoLevel
<1>4. LightState(raw) \in States
  <2>1. CASE IsNumber(raw) /\ raw.num > 0
    <3>1. raw.num \in 1 .. 100
      BY <1>1, <2>1 DEF Raws
    <3>2. raw.num * 255 \in Nat
      BY <3>1
    <3>3. /\ RoundedQuotient(raw.num * 255, 100) \in Nat
          /\ 2 * 100 * RoundedQuotient(raw.num * 255, 100) <= 2 * (raw.num * 255) + 100
      BY <3>2, RoundedBounds
    <3>4. PercentToByte(raw.num) \in 0 .. 255
      BY <3>1, <3>3 DEF PercentToByte
    <3>5. PercentToByte(raw.num) \in -1 .. 255
      BY <3>4
    <3> QED
      BY <1>2, <2>1, <3>5 DEF LightState
  <2>2. CASE ~(IsNumber(raw) /\ raw.num > 0)
    BY <1>2, <2>2 DEF LightState, NoLevel
  <2> QED
    BY <2>1, <2>2
<1>5. CoverState(i, raw) \in States
  <2>1. raw.num \in -1 .. 255
    BY <1>1 DEF Raws
  <2> QED
    BY <1>2, <2>1 DEF CoverState, NoLevel
<1>6. State("unknown", NoLevel) \in States /\ Unavailable \in States
  BY <1>2 DEF NoLevel, Unavailable
<1> QED
  BY <1>3, <1>4, <1>5, <1>6 DEF Decoded

\* A change of the CU reaches the stream as reports of items, and nobody who does
\* not listen.
LEMMA BecomesKept ==
  ASSUME TypeOK, NetInv, NEW f, DOMAIN f \subseteq Items, \A j \in DOMAIN f : f[j] \in Raws,
         Becomes(f)
  PROVE  /\ truth' \in [Items -> Raws]
         /\ stream' \in Seq(Reported)
         /\ ~connected => stream' = <<>>
         /\ faults' \in 0 .. MaxFaults
<1> DEFINE changed == {i \in DOMAIN f : f[i] # truth[i]}
           message == [i \in changed |-> [item |-> i, raw |-> f[i]]]
           messages == {[item |-> i, raw |-> f[i]] : i \in changed}
<1>1. truth' \in [Items -> Raws]
  BY DEF Becomes, TypeOK, Raws
<1>2. IsFiniteSet(messages)
  <2>1. IsFiniteSet(changed)
    BY ItemsAssumption, FS_Subset
  <2>2. message \in Surjection(changed, messages)
    BY DEF Surjection
  <2> QED
    BY <2>1, <2>2, FS_Surjection
<1>3. messages \subseteq Reported
  BY DEF Reported
<1>4. SetToSeq(messages) \in Seq(Reported)
  <2>1. SetToSeq(messages) \in Seq(messages)
    BY <1>2, SetToSeqType
  <2> HIDE DEF messages
  <2> QED
    BY <1>3, <2>1
<1>5. faults' \in 0 .. MaxFaults
  BY BoundAssumption DEF Becomes, Fault, TypeOK
<1>6. stream \in Seq(Reported) /\ (~connected => stream = <<>>)
  BY DEF NetInv, TypeOK
<1>7. \/ stream' = stream \o (IF connected THEN SetToSeq(messages) ELSE <<>>)
      \/ connected /\ stream' = stream
  BY DEF Becomes
<1> HIDE DEF messages
<1>8. CASE connected
  BY <1>1, <1>4, <1>5, <1>6, <1>7, <1>8, ConcatProperties
<1>9. CASE ~connected
  <2>1. stream' = <<>> \o <<>>
    BY <1>6, <1>7, <1>9
  <2>2. stream' = <<>>
    BY <2>1, <1>6, <1>9, ConcatEmptySeq
  <2> QED
    BY <1>1, <1>5, <1>6, <1>9, <2>2
<1> QED
  BY <1>8, <1>9

-----------------------------------------------------------------------------
(* Invariants *)

\* The coordinator has just been built: nothing is shown yet.
LEMMA InitInv == Init => PlatformInv
<1> SUFFICES ASSUME Init
             PROVE  PlatformInv
  OBVIOUS
<1>1. \A i \in Items : AtRest(i) \in Raws /\ Unavailable \in States
  BY DEF AtRest, Number, Word, Raws, Unavailable, State, States, NoLevel
<1>2. TypeOK
  <2>1. MaxServices \in Nat /\ MaxChanges \in Nat /\ MaxFaults \in Nat
    BY BoundAssumption
  <2>2. /\ cache \in [Items -> Raws] /\ truth \in [Items -> Raws]
        /\ shown \in [Items -> States]
    BY <1>1 DEF Init
  <2>3. /\ services \in 0 .. MaxServices /\ changes \in 0 .. MaxChanges
        /\ faults \in 0 .. MaxFaults
    BY <2>1 DEF Init
  <2>4. \A i \in Items : motion[i] = Resting
    BY DEF Init
  <2>5. /\ ready \in BOOLEAN /\ connected \in BOOLEAN
        /\ ~connected => stream = <<>> /\ commands = <<>>
    BY DEF Init
  <2> QED
    BY <2>2, <2>3, <2>4, <2>5 DEF TypeOK
<1>3. NetInv
  BY DEF Init, NetInv
<1>4. PayloadUnderstood /\ OfflineNotShownAsState
  BY DEF Init, PayloadUnderstood, OfflineNotShownAsState, Entities
<1> QED
  BY <1>2, <1>3, <1>4 DEF PlatformInv

\* Whoever renders an entity asks first whether it is available.
LEMMA RenderedWell ==
  ASSUME NEW c \in [Items -> Raws], NEW i \in Items
  PROVE  Render(i, c) \in States /\ (c[i] \in OFFLINE_SENTINELS => Render(i, c) = Unavailable)
<1>1. Render(i, c) \in States
  BY DecodedType DEF Render
<1> QED
  BY <1>1 DEF Render, Available

\* After every entity wrote its state, none shows a sentinel as a state.
LEMMA RenderAllKept ==
  ASSUME PlatformInv, NEW c \in [Items -> Raws], cache' = c, RenderAll(c), ready' = ready
  PROVE  shown' \in [Items -> States] /\ OfflineNotShownAsState'
<1>1. \A i \in Entities :
        Render(i, c) \in States /\ (c[i] \in OFFLINE_SENTINELS => Render(i, c) = Unavailable)
  BY RenderedWell DEF Entities
<1>2. shown' \in [Items -> States]
  BY <1>1 DEF PlatformInv, TypeOK, RenderAll
<1>3. Entities' = Entities
  BY DEF Entities
<1> QED
  BY <1>1, <1>2, <1>3 DEF OfflineNotShownAsState, RenderAll, Entities

\* Nothing is shown, sent or attached by a step of the CU.
LEMMA CuStepKept ==
  ASSUME PlatformInv, UNCHANGED <<haVars, connected>>,
         commands' \in Seq(Commands), PayloadUnderstood', ~connected => commands' = <<>>,
         truth' \in [Items -> Raws], stream' \in Seq(Reported), ~connected => stream' = <<>>,
         motion' \in [Items -> Percents \cup {Resting}],
         \A i \in Items : motion'[i] = Resting \/ IsPercent(i),
         services' \in 0 .. MaxServices, changes' \in 0 .. MaxChanges, faults' \in 0 .. MaxFaults
  PROVE  PlatformInv'
<1>1. TypeOK'
  BY DEF PlatformInv, TypeOK, haVars
<1>2. NetInv'
  BY DEF NetInv
<1>3. OfflineNotShownAsState'
  BY DEF PlatformInv, OfflineNotShownAsState, Entities, haVars
<1> QED
  BY <1>1, <1>2, <1>3 DEF PlatformInv

\* A command that the CU takes from the queue: a cover gets a position to move to
\* only from a payload that is one, and a scene gives its members states they take.
LEMMA ExecuteKept == PlatformInv /\ Execute => PlatformInv'
<1> SUFFICES ASSUME PlatformInv, Execute
             PROVE  PlatformInv'
  OBVIOUS
<1> USE DEF PlatformInv
<1> DEFINE c == Head(commands)
           i == c.item
<1>1. /\ commands \in Seq(Commands) /\ commands # <<>>
      /\ commands' = Tail(commands)
      /\ UNCHANGED <<haVars, connected, services, changes>>
  BY DEF Execute, NetInv
<1>2. /\ c \in Commands
      /\ commands' \in Seq(Commands) /\ Len(commands') = Len(commands) - 1
      /\ \A k \in 1 .. Len(commands') : commands'[k] = commands[k + 1]
  BY <1>1, HeadTailProperties
<1>3. i \in Items /\ c.payload \in Raws
  BY <1>2 DEF Commands
<1>4. c.payload \in Accepts(i) \/ IsStopOfPercent(i, c.payload)
  <2>1. 1 \in DOMAIN commands /\ c = commands[1]
    BY <1>1
  <2> QED
    BY <2>1 DEF PayloadUnderstood
<1>5. PayloadUnderstood'
  BY <1>1, <1>2 DEF PayloadUnderstood
<1>6. connected
  BY <1>1 DEF TypeOK
\* What is left to show: what becomes of truth, of what is reported, and of motion.
<1>7. SUFFICES /\ truth' \in [Items -> Raws] /\ stream' \in Seq(Reported)
               /\ faults' \in 0 .. MaxFaults
               /\ motion' \in [Items -> Percents \cup {Resting}]
               /\ \A j \in Items : motion'[j] = Resting \/ IsPercent(j)
  BY <1>1, <1>2, <1>5, <1>6, CuStepKept DEF TypeOK
<1>8. /\ motion \in [Items -> Percents \cup {Resting}]
      /\ \A j \in Items : motion[j] = Resting \/ IsPercent(j)
  BY DEF TypeOK, NetInv
<1>9. Stays => /\ truth' \in [Items -> Raws] /\ stream' \in Seq(Reported)
               /\ faults' \in 0 .. MaxFaults
  BY DEF Stays, TypeOK, NetInv
<1> DEFINE members == {j \in DOMAIN Scenes[i] : truth[j] \notin OFFLINE_SENTINELS}
<1>10. \/ Stays /\ UNCHANGED motion
       \/ /\ IsPercent(i)
          /\ motion' = [motion EXCEPT ![i] = Resting]
          /\ IF motion[i] = Resting THEN Stays
             ELSE \E p \in Positions : Becomes([j \in {i} |-> Number(p)])
       \/ /\ IsPercent(i) /\ ~IsStopOfPercent(i, c.payload)
          /\ motion' = [motion EXCEPT ![i] = c.payload]
          /\ Stays
       \/ /\ Platform(i) = "scene"
          /\ motion' = [j \in Items |-> IF j \in members THEN Resting ELSE motion[j]]
          /\ Becomes([j \in members |-> Scenes[i][j]])
       \/ Becomes([j \in {i} |-> c.payload]) /\ UNCHANGED motion
  BY DEF Execute, IsStopOfPercent
<1> HIDE DEF c, i, members
<1>11. CASE Stays /\ UNCHANGED motion
  BY <1>8, <1>9, <1>11
<1>12. CASE /\ IsPercent(i)
            /\ motion' = [motion EXCEPT ![i] = Resting]
            /\ IF motion[i] = Resting THEN Stays
               ELSE \E p \in Positions : Becomes([j \in {i} |-> Number(p)])
  <2>1. ASSUME NEW p \in Positions, Becomes([j \in {i} |-> Number(p)])
        PROVE  /\ truth' \in [Items -> Raws] /\ stream' \in Seq(Reported)
               /\ faults' \in 0 .. MaxFaults
    <3>1. Number(p) \in Raws
      BY PositionAssumption DEF Number, Raws
    <3> QED
      BY <1>3, <2>1, <3>1, BecomesKept
  <2>2. /\ motion' \in [Items -> Percents \cup {Resting}]
        /\ \A j \in Items : motion'[j] = Resting \/ IsPercent(j)
    BY <1>3, <1>8, <1>12
  <2> QED
    BY <1>9, <1>12, <2>1, <2>2
<1>13. CASE /\ IsPercent(i) /\ ~IsStopOfPercent(i, c.payload)
            /\ motion' = [motion EXCEPT ![i] = c.payload]
            /\ Stays
  <2>1. c.payload \in Percents
    BY <1>4, <1>13, PercentIsCover DEF Accepts
  <2>2. /\ motion' \in [Items -> Percents \cup {Resting}]
        /\ \A j \in Items : motion'[j] = Resting \/ IsPercent(j)
    BY <1>3, <1>8, <1>13, <2>1
  <2> QED
    BY <1>9, <1>13, <2>2
<1>14. CASE /\ Platform(i) = "scene"
            /\ motion' = [j \in Items |-> IF j \in members THEN Resting ELSE motion[j]]
            /\ Becomes([j \in members |-> Scenes[i][j]])
  <2> DEFINE f == [j \in members |-> Scenes[i][j]]
  <2>1. DOMAIN f \subseteq Items /\ \A j \in DOMAIN f : f[j] \in Accepts(j)
    BY <1>3, <1>14, SceneAssumption DEF members
  <2>2. \A j \in DOMAIN f : f[j] \in Raws
    BY <2>1, AcceptsRaws
  <2>3. Becomes(f)
    BY <1>14
  <2> HIDE DEF f
  <2>4. /\ truth' \in [Items -> Raws] /\ stream' \in Seq(Reported)
        /\ faults' \in 0 .. MaxFaults
    BY <2>1, <2>2, <2>3, BecomesKept
  <2>5. /\ motion' \in [Items -> Percents \cup {Resting}]
        /\ \A j \in Items : motion'[j] = Resting \/ IsPercent(j)
    BY <1>8, <1>14
  <2> QED
    BY <2>4, <2>5
<1>15. CASE Becomes([j \in {i} |-> c.payload]) /\ UNCHANGED motion
  BY <1>3, <1>8, <1>15, BecomesKept
<1> QED
  BY <1>10, <1>11, <1>12, <1>13, <1>14, <1>15

\* Every step keeps it.
LEMMA NextInv == PlatformInv /\ [Next]_vars => PlatformInv'
<1> SUFFICES ASSUME PlatformInv, [Next]_vars
             PROVE  PlatformInv'
  OBVIOUS
<1> USE DEF PlatformInv
<1>1. CASE SetUpPlatforms
  <2>1. \A i \in Items : Platform(i) \in PLATFORMS =>
          /\ Render(i, cache) \in States
          /\ cache[i] \in OFFLINE_SENTINELS => Render(i, cache) = Unavailable
    BY RenderedWell DEF TypeOK
  <2>2. TypeOK'
    BY <1>1, <2>1 DEF SetUpPlatforms, TypeOK, cuVars
  <2>3. NetInv' /\ PayloadUnderstood'
    BY <1>1 DEF SetUpPlatforms, NetInv, PayloadUnderstood, cuVars
  <2>4. OfflineNotShownAsState'
    BY <1>1, <2>1, <2>2 DEF SetUpPlatforms, OfflineNotShownAsState, Entities
  <2> QED
    BY <2>2, <2>3, <2>4
<1>2. ASSUME NEW i \in Items, NEW s \in ServicesOf(i), CallService(i, s)
      PROVE  PlatformInv'
  <2> DEFINE command == [item |-> i, service |-> s, payload |-> Payload(i, s)]
  <2>1. /\ Payload(i, s) \in Accepts(i) \/ IsStopOfPercent(i, Payload(i, s))
        /\ Payload(i, s) \in Raws
    BY PayloadAccepted
  <2>2. command \in Commands
    BY <2>1 DEF Commands
  <2>3. \/ command.payload \in Accepts(command.item)
        \/ IsStopOfPercent(command.item, command.payload)
    BY <2>1
  <2>4. commands' = Append(commands, command)
    BY <1>2 DEF CallService
  <2> HIDE DEF command
  <2>5. commands' \in Seq(Commands)
    BY <2>2, <2>4, AppendProperties DEF NetInv
  <2>6. PayloadUnderstood'
    <3>1. commands \in Seq(Commands)
      BY DEF NetInv
    <3> QED
      BY <2>2, <2>3, <2>4, <2>5, <3>1, AppendProperties DEF PayloadUnderstood
  <2>7. connected
    BY <1>2 DEF CallService, Available
  <2>8. TypeOK'
    BY <1>2, <2>7, BoundAssumption DEF CallService, TypeOK, haVars, cuVars
  <2>9. NetInv' /\ OfflineNotShownAsState'
    BY <1>2, <2>5
       DEF CallService, NetInv, OfflineNotShownAsState, Entities, haVars, cuVars
  <2> QED
    BY <2>6, <2>8, <2>9
<1>3. ASSUME NEW i \in Items, Arrive(i)
      PROVE  PlatformInv'
  <2>1. IsPercent(i) /\ motion[i] \in Percents /\ motion[i] \in Raws
    BY <1>3 DEF Arrive, TypeOK, Percents, Number, Raws
  <2>2. Becomes([j \in {i} |-> motion[i]])
    BY <1>3 DEF Arrive
  <2>3. /\ truth' \in [Items -> Raws] /\ stream' \in Seq(Reported)
        /\ ~connected => stream' = <<>>
        /\ faults' \in 0 .. MaxFaults
    BY <2>1, <2>2, BecomesKept
  <2>4. /\ motion' \in [Items -> Percents \cup {Resting}]
        /\ \A j \in Items : motion'[j] = Resting \/ IsPercent(j)
    BY <1>3 DEF Arrive, NetInv, TypeOK
  <2> QED
    BY <1>3, <2>3, <2>4, CuStepKept DEF Arrive, TypeOK, NetInv, PayloadUnderstood
<1>4. ASSUME NEW i \in Items, NEW raw \in Reports(i), ChangedByOthers(i, raw)
      PROVE  PlatformInv'
  <2>1. raw \in Raws
    BY PositionAssumption
       DEF Reports, OFFLINE_SENTINELS, Number, Word, Raws, SOMFY_COMMANDS
  <2>2. Becomes([j \in {i} |-> raw])
    BY <1>4 DEF ChangedByOthers
  <2>3. /\ truth' \in [Items -> Raws] /\ stream' \in Seq(Reported)
        /\ ~connected => stream' = <<>>
        /\ faults' \in 0 .. MaxFaults
    BY <2>1, <2>2, BecomesKept
  <2>4. /\ motion' \in [Items -> Percents \cup {Resting}]
        /\ \A j \in Items : motion'[j] = Resting \/ IsPercent(j)
    BY <1>4 DEF ChangedByOthers, NetInv, TypeOK
  <2>5. changes' \in 0 .. MaxChanges
    BY <1>4, BoundAssumption DEF ChangedByOthers, TypeOK
  <2> QED
    BY <1>4, <2>3, <2>4, <2>5, CuStepKept
       DEF ChangedByOthers, TypeOK, NetInv, PayloadUnderstood
<1>5. CASE Report
  <2>1. Head(stream) \in Reported /\ Tail(stream) \in Seq(Reported)
    BY <1>5, HeadTailProperties DEF Report, NetInv
  <2>2. cache' \in [Items -> Raws]
    BY <1>5, <2>1 DEF Report, TypeOK, Reported
  <2>3. shown' \in [Items -> States] /\ OfflineNotShownAsState'
    BY <1>5, <2>2, RenderAllKept DEF Report
  <2>4. connected
    BY <1>5 DEF Report, TypeOK
  <2>5. TypeOK' /\ NetInv' /\ PayloadUnderstood'
    BY <1>5, <2>1, <2>2, <2>3, <2>4 DEF Report, TypeOK, NetInv, PayloadUnderstood, cuVars
  <2> QED
    BY <2>3, <2>5
<1>6. CASE Poll
  <2>1. cache' \in [Items -> Raws]
    BY <1>6 DEF Poll, TypeOK
  <2>2. shown' \in [Items -> States] /\ OfflineNotShownAsState'
    BY <1>6, <2>1, RenderAllKept DEF Poll
  <2>3. TypeOK' /\ NetInv' /\ PayloadUnderstood'
    BY <1>6, <2>1, <2>2 DEF Poll, TypeOK, NetInv, PayloadUnderstood, cuVars
  <2> QED
    BY <2>2, <2>3
<1>7. CASE Drop
  <2>1. /\ UNCHANGED <<ready, cache, shown, truth, motion, services, changes>>
        /\ connected' = FALSE /\ stream' = <<>> /\ commands' = <<>>
    BY <1>7 DEF Drop, haVars, cuVars
  <2>2. faults' \in 0 .. MaxFaults
    BY <1>7, BoundAssumption DEF Drop, Fault, TypeOK
  <2>3. TypeOK'
    BY <2>1, <2>2 DEF TypeOK
  <2>4. NetInv' /\ PayloadUnderstood'
    BY <2>1 DEF NetInv, PayloadUnderstood
  <2>5. OfflineNotShownAsState'
    BY <2>1 DEF OfflineNotShownAsState, Entities
  <2> QED
    BY <2>3, <2>4, <2>5
<1>8. CASE Reconnect
  <2>1. /\ UNCHANGED <<ready, cache, shown, stream, commands, truth, motion>>
        /\ UNCHANGED <<services, changes, faults>> /\ connected' = TRUE
    BY <1>8 DEF Reconnect, haVars, cuVars
  <2> QED
    BY <2>1 DEF TypeOK, NetInv, PayloadUnderstood, OfflineNotShownAsState, Entities
<1>9. CASE Execute
  BY <1>9, ExecuteKept
<1>10. CASE UNCHANGED vars
  BY <1>10 DEF vars, haVars, cuVars, TypeOK, NetInv, PayloadUnderstood,
              OfflineNotShownAsState, Entities
<1> QED
  BY <1>1, <1>2, <1>3, <1>4, <1>5, <1>6, <1>7, <1>8, <1>9, <1>10
     DEF Next

-----------------------------------------------------------------------------
(* What was meant *)

\* A state that Home Assistant shows is as itself was meant.
LEMMA AsItself ==
  ASSUME NEW st \in States
  PROVE  AsMeant(st, st)
BY DEF AsMeant, Near, States

\* The CU that does what it was sent does what the caller meant, in the eyes of
\* Home Assistant, for every brightness and every position: the payload and the
\* two conversions belong together.
THEOREM PayloadMeansWhatWasAsked ==
  ASSUME NEW i \in Items, NEW s \in ServicesOf(i), Meaning(i, s) # Anything
  PROVE  AsMeant(Decoded(i, Payload(i, s)), Meaning(i, s))
<1>1. CASE Platform(i) = "switch"
  <2>1. s.name \in {"turn_on", "turn_off"}
    BY <1>1 DEF ServicesOf, Service
  <2>2. Decoded(i, Payload(i, s)) = SwitchState(SwitchPayload(s))
    BY <1>1 DEF Decoded, Payload
  <2>3. Meaning(i, s) = State(IF s.name = "turn_on" THEN "on" ELSE "off", NoLevel)
    BY <1>1, PercentIsCover DEF Meaning
  <2>4. SwitchState(SwitchPayload(s)) = Meaning(i, s)
    BY <2>1, <2>3 DEF SwitchState, SwitchPayload, Word
  <2> QED
    BY <2>2, <2>3, <2>4 DEF AsMeant, Near, State, NoLevel
<1>2. CASE Platform(i) = "light"
  <2>1. \/ s.name = "turn_on" /\ s.arg \in 1 .. 255
        \/ s.name = "turn_off"
    BY <1>2, BrightnessAssumption DEF ServicesOf, Service
  <2>2. Decoded(i, Payload(i, s)) = LightState(LightPayload(s))
    BY <1>2 DEF Decoded, Payload
  <2>3. Meaning(i, s) = IF s.name = "turn_on" /\ s.arg > 1 THEN State("on", s.arg)
                                                          ELSE State("off", NoLevel)
    BY <1>2, PercentIsCover DEF Meaning
  <2>4. CASE s.name = "turn_on" /\ s.arg > 1
    <3> DEFINE v == TurnOnValue(s.arg)
    <3>1. s.arg \in 2 .. 255
      BY <2>1, <2>4
    <3>2. v \in 0 .. 100 /\ v # 0
      BY <3>1, WireInRange, OnlyLowestBrightnessTurnsOff
    <3>3. PercentToByte(v) - s.arg \in -1 .. 1
      BY <3>1, BrightnessComesBack
    <3> HIDE DEF v
    <3>4. LightState(Number(v)) = State("on", PercentToByte(v))
      BY <3>2 DEF LightState, IsNumber, Number
    <3>5. LightPayload(s) = Number(v)
      BY <2>4 DEF LightPayload, v
    <3> QED
      BY <2>2, <2>3, <2>4, <3>3, <3>4, <3>5 DEF AsMeant, Near, State
  <2>5. CASE ~(s.name = "turn_on" /\ s.arg > 1)
    <3>1. LightPayload(s) = Number(0)
      <4>1. s.name = "turn_on" => s.arg = 1
        BY <2>1, <2>5
      <4>2. TurnOnValue(1) = 0
        BY OnlyLowestBrightnessTurnsOff
      <4> QED
        BY <4>1, <4>2 DEF LightPayload
    <3>2. LightState(Number(0)) = State("off", NoLevel)
      BY DEF LightState, IsNumber, Number
    <3> QED
      BY <2>2, <2>3, <2>5, <3>1, <3>2 DEF AsMeant, Near, State, NoLevel
  <2> QED
    BY <2>4, <2>5
<1>3. CASE Platform(i) = "cover" /\ IsPercent(i) /\ s.name # "stop"
  <2> DEFINE p == CASE s.name = "open"  -> 100
                    [] s.name = "close" -> 0
                    [] OTHER            -> s.arg
  <2>1. \/ s.name = "open" \/ s.name = "close"
        \/ s.name = "set_position" /\ s.arg \in 0 .. 100
    BY <1>3, PositionAssumption DEF ServicesOf, Service
  <2>2. p \in 0 .. 100
    BY <2>1
  <2>3. PercentPayload(s) = Number(p)
    BY <2>1 DEF PercentPayload, encode_percent, Clamp
  <2>4. Meaning(i, s) = State(IF p = 0 THEN "closed" ELSE "open", p)
    BY <1>3 DEF Meaning
  <2> HIDE DEF p
  <2>5. Decoded(i, Payload(i, s)) = CoverState(i, Number(p))
    BY <1>3, <2>3 DEF Decoded, Payload
  <2>6. CoverState(i, Number(p)) = State(IF p = 0 THEN "closed" ELSE "open", p)
    BY <1>3 DEF CoverState, IsNumber, Number
  <2> QED
    BY <2>2, <2>4, <2>5, <2>6 DEF AsMeant, Near, State
<1>4. CASE ~(Platform(i) \in {"switch", "light"} \/ (IsPercent(i) /\ s.name # "stop"))
  BY <1>4 DEF Meaning
<1> QED
  BY <1>1, <1>2, <1>3, <1>4, PercentIsCover

\* A command on its way is that of a service of its item.
SentInv ==
  \A k \in DOMAIN commands :
    /\ commands[k].service \in ServicesOf(commands[k].item)
    /\ commands[k].payload = Payload(commands[k].item, commands[k].service)

MeantInv == SentInv /\ CuHoldsWhatWasMeant /\ DOMAIN meant = Items

\* Nothing is meant before the first service call.
LEMMA InitMeant == Init => MeantInv
BY DEF Init, MeantInv, SentInv, CuHoldsWhatWasMeant

\* The CU executes a command: what it means is what its payload shows.
LEMMA ExecuteMeant == PlatformInv /\ MeantInv /\ Execute => MeantInv'
<1> SUFFICES ASSUME PlatformInv, MeantInv, Execute
             PROVE  MeantInv'
  OBVIOUS
<1> USE DEF PlatformInv, MeantInv
<1> DEFINE c == Head(commands)
           i == c.item
           members == {j \in DOMAIN Scenes[i] : truth[j] \notin OFFLINE_SENTINELS}
<1>1. commands \in Seq(Commands) /\ commands # <<>> /\ commands' = Tail(commands)
  BY DEF Execute, NetInv
<1>2. /\ c \in Commands /\ commands' \in Seq(Commands)
      /\ Len(commands') = Len(commands) - 1
      /\ \A k \in 1 .. Len(commands') : commands'[k] = commands[k + 1]
  BY <1>1, HeadTailProperties
<1>3. SentInv'
  BY <1>1, <1>2 DEF SentInv
<1>4. i \in Items /\ c.service \in ServicesOf(i) /\ c.payload = Payload(i, c.service)
  <2>1. 1 \in DOMAIN commands /\ c = commands[1]
    BY <1>1
  <2> QED
    BY <1>2, <2>1 DEF SentInv, Commands
<1>5. Meaning(i, c.service) # Anything => AsMeant(Decoded(i, c.payload), Meaning(i, c.service))
  BY <1>4, PayloadMeansWhatWasAsked
<1>6. truth \in [Items -> Raws] /\ motion \in [Items -> Percents \cup {Resting}]
  BY DEF TypeOK, NetInv
<1>7. \/ UNCHANGED <<truth, motion, meant>>
      \/ /\ meant' = [meant EXCEPT ![i] = Anything]
         /\ motion' = [motion EXCEPT ![i] = Resting]
         /\ \A j \in Items \ {i} : truth'[j] = truth[j]
      \/ /\ meant' = [meant EXCEPT ![i] = Meaning(i, c.service)]
         /\ motion' = [motion EXCEPT ![i] = c.payload] /\ truth' = truth
         /\ IsPercent(i) /\ ~IsStopOfPercent(i, c.payload)
      \/ /\ Platform(i) = "scene"
         /\ meant' = [j \in Items |->
                        IF j \in members THEN Decoded(j, Scenes[i][j]) ELSE meant[j]]
         /\ motion' = [j \in Items |-> IF j \in members THEN Resting ELSE motion[j]]
         /\ truth' = [j \in Items |-> IF j \in members THEN Scenes[i][j] ELSE truth[j]]
      \/ /\ meant' = [meant EXCEPT ![i] = Meaning(i, c.service)]
         /\ truth' = [j \in Items |-> IF j = i THEN c.payload ELSE truth[j]]
         /\ motion' = motion /\ ~IsPercent(i)
  BY DEF Execute, Stays, Becomes
<1> HIDE DEF c, i, members
<1>8. CASE UNCHANGED <<truth, motion, meant>>
  BY <1>3, <1>8 DEF CuHoldsWhatWasMeant
<1>9. CASE /\ meant' = [meant EXCEPT ![i] = Anything]
           /\ motion' = [motion EXCEPT ![i] = Resting]
           /\ \A j \in Items \ {i} : truth'[j] = truth[j]
  BY <1>3, <1>6, <1>9 DEF CuHoldsWhatWasMeant
<1>10. CASE /\ meant' = [meant EXCEPT ![i] = Meaning(i, c.service)]
            /\ motion' = [motion EXCEPT ![i] = c.payload] /\ truth' = truth
            /\ IsPercent(i) /\ ~IsStopOfPercent(i, c.payload)
  <2>1. c.payload # Resting
    <3>1. c.payload \in Raws
      BY <1>2 DEF Commands
    <3>2. c.payload.num \in -1 .. 100
      BY <3>1 DEF Raws
    <3>3. Resting.num = -2
      BY DEF Resting, Number
    <3> QED
      BY <3>2, <3>3
  <2>2. ASSUME NEW j \in Items, meant'[j] # Anything, j # i
        PROVE  IF motion'[j] # Resting THEN AsMeant(Decoded(j, motion'[j]), meant'[j])
               ELSE \/ truth'[j] \in OFFLINE_SENTINELS
                    \/ AsMeant(Decoded(j, truth'[j]), meant'[j])
    <3>1. meant'[j] = meant[j] /\ motion'[j] = motion[j] /\ truth'[j] = truth[j]
      BY <1>4, <1>6, <1>10, <2>2
    <3> QED
      BY <2>2, <3>1 DEF CuHoldsWhatWasMeant
  <2>3. meant'[i] # Anything =>
          motion'[i] # Resting /\ AsMeant(Decoded(i, motion'[i]), meant'[i])
    BY <1>4, <1>5, <1>6, <1>10, <2>1
  <2>4. CuHoldsWhatWasMeant'
    BY <2>2, <2>3 DEF CuHoldsWhatWasMeant
  <2>5. DOMAIN meant' = Items
    BY <1>10
  <2> QED
    BY <1>3, <2>4, <2>5
<1>11. CASE /\ Platform(i) = "scene"
            /\ meant' = [j \in Items |->
                           IF j \in members THEN Decoded(j, Scenes[i][j]) ELSE meant[j]]
            /\ motion' = [j \in Items |-> IF j \in members THEN Resting ELSE motion[j]]
            /\ truth' = [j \in Items |-> IF j \in members THEN Scenes[i][j] ELSE truth[j]]
  <2>1. ASSUME NEW j \in members
        PROVE  AsMeant(Decoded(j, Scenes[i][j]), Decoded(j, Scenes[i][j]))
    <3>1. Scenes[i][j] \in Raws
      BY <1>4, <1>11, SceneAssumption, AcceptsRaws DEF members
    <3> QED
      BY <3>1, DecodedType, AsItself
  <2> QED
    BY <1>3, <1>11, <2>1 DEF CuHoldsWhatWasMeant
<1>12. CASE /\ meant' = [meant EXCEPT ![i] = Meaning(i, c.service)]
            /\ truth' = [j \in Items |-> IF j = i THEN c.payload ELSE truth[j]]
            /\ motion' = motion /\ ~IsPercent(i)
  <2>1. motion[i] = Resting
    BY <1>4, <1>12 DEF TypeOK
  <2> QED
    BY <1>3, <1>4, <1>5, <1>12, <2>1 DEF CuHoldsWhatWasMeant
<1> QED
  BY <1>7, <1>8, <1>9, <1>10, <1>11, <1>12

\* Every step keeps it: whoever else changes an item, nothing is meant of it any more.
LEMMA NextMeant == PlatformInv /\ MeantInv /\ [Next]_vars => MeantInv'
<1> SUFFICES ASSUME PlatformInv, MeantInv, [Next]_vars
             PROVE  MeantInv'
  OBVIOUS
<1> USE DEF PlatformInv, MeantInv
<1>1. CASE SetUpPlatforms \/ Report \/ Poll \/ Reconnect \/ UNCHANGED vars
  <2>1. UNCHANGED <<commands, cuVars>>
    BY <1>1 DEF SetUpPlatforms, Report, Poll, Reconnect, vars
  <2> QED
    BY <2>1 DEF SentInv, CuHoldsWhatWasMeant, cuVars
<1>2. CASE Drop
  BY <1>2 DEF Drop, SentInv, CuHoldsWhatWasMeant, cuVars
<1>3. ASSUME NEW i \in Items, NEW s \in ServicesOf(i), CallService(i, s)
      PROVE  MeantInv'
  <2> DEFINE command == [item |-> i, service |-> s, payload |-> Payload(i, s)]
  <2>1. command \in Commands
    BY PayloadAccepted DEF Commands
  <2>2. /\ command.service \in ServicesOf(command.item)
        /\ command.payload = Payload(command.item, command.service)
    OBVIOUS
  <2>3. commands' = Append(commands, command) /\ UNCHANGED cuVars
    BY <1>3 DEF CallService
  <2> HIDE DEF command
  <2>4. commands \in Seq(Commands) /\ commands' \in Seq(Commands)
    BY <2>1, <2>3, AppendProperties DEF NetInv
  <2>5. SentInv'
    BY <2>1, <2>2, <2>3, <2>4, AppendProperties DEF SentInv
  <2> QED
    BY <2>3, <2>5 DEF CuHoldsWhatWasMeant, cuVars
<1>4. ASSUME NEW i \in Items, Arrive(i)
      PROVE  MeantInv'
  <2>1. /\ UNCHANGED <<commands, meant>>
        /\ motion[i] # Resting /\ motion' = [motion EXCEPT ![i] = Resting]
        /\ truth' = [j \in Items |-> IF j = i THEN motion[i] ELSE truth[j]]
    BY <1>4 DEF Arrive, Becomes
  <2> QED
    BY <2>1 DEF SentInv, CuHoldsWhatWasMeant, NetInv
<1>5. ASSUME NEW i \in Items, NEW raw \in Reports(i), ChangedByOthers(i, raw)
      PROVE  MeantInv'
  <2>1. /\ UNCHANGED commands
        /\ meant' = [meant EXCEPT ![i] = Anything]
        /\ motion' = [motion EXCEPT ![i] = Resting]
        /\ truth' = [j \in Items |-> IF j = i THEN raw ELSE truth[j]]
    BY <1>5 DEF ChangedByOthers, Becomes
  <2> QED
    BY <2>1 DEF SentInv, CuHoldsWhatWasMeant, NetInv
<1>6. CASE Execute
  BY <1>6, ExecuteMeant
<1> QED
  BY <1>1, <1>2, <1>3, <1>4, <1>5, <1>6 DEF Next

-----------------------------------------------------------------------------
(* Theorems *)

\* The invariant below all that follows, for any configuration.
THEOREM Invariant == Spec => []PlatformInv
BY InitInv, NextInv, PTL DEF Spec

\* Raw values, positions, brightnesses and what is shown stay in their ranges,
\* through every conversion, and no report or command outlives its connection.
THEOREM TypeCorrect == Spec => []TypeOK
<1>1. PlatformInv => TypeOK
  BY DEF PlatformInv
<1> QED
  BY <1>1, Invariant, PTL

\* Whatever services are called on whatever items, the CU is never sent a payload
\* that the docstrings do not give the type of the item, but for the STOP of a cover
\* with a position.
THEOREM PayloadsUnderstood == Spec => []PayloadUnderstood
<1>1. PlatformInv => PayloadUnderstood
  BY DEF PlatformInv
<1> QED
  BY <1>1, Invariant, PTL

\* No entity shows a sentinel as off, closed or on, whatever reports, polls, drops
\* and set-ups come in whatever order.
THEOREM OfflineShownAsUnavailable == Spec => []OfflineNotShownAsState
<1>1. PlatformInv => OfflineNotShownAsState
  BY DEF PlatformInv
<1> QED
  BY <1>1, Invariant, PTL

\* For every configuration, brightness, position and scene: what the CU holds, or is
\* on its way to, is what the last caller meant, as Home Assistant shows it, to one
\* step of the brightness.
THEOREM CommandsHaveTheirMeaning == Spec => []CuHoldsWhatWasMeant
<1>1. MeantInv => CuHoldsWhatWasMeant
  BY DEF MeantInv
<1> QED
  BY <1>1, InitInv, NextInv, InitMeant, NextMeant, PTL DEF Spec

=============================================================================
