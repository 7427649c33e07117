------------------------------- MODULE Migration -------------------------------
(***************************************************************************)
(* The cutover of a Home Assistant from homekit_controller to ha_switchbee:*)
(* tools/migrate.py (backup, mapping, rewrite of the entity registry,      *)
(* cleaning of the device registry) and tools/_migrate/restore_areas.py,   *)
(* run any number of times, each of which may die between two of its       *)
(* writes; and Home Assistant, which adopts the rewritten rows: it looks   *)
(* for a row of the domain and unique id of an entity before it makes one. *)
(*                                                                         *)
(* A file is replaced atomically (write to .tmp, fsync, rename) and is one *)
(* variable here.  The rows of a registry keep what the properties tell    *)
(* apart: platform, unique id, config entry, device and area.  A unique id *)
(* of ha_switchbee is the MAC of the CU, in some form, and an item.        *)
(***************************************************************************)
EXTENDS Naturals, FiniteSets

CONSTANTS Entities,   \* rows of the entity registry
          Identify,   \* the button.*_identify ones
          Foreign,    \* those of other platforms or of another bridge
          Devices,    \* rows of the device registry
          DeviceOf,   \* per entity: its device_id, or NoDevice
          Shared,     \* devices another config entry refers to too
          Items,      \* items of the CU
          Serial,     \* per device: the item in its serial_number, or NoItem
          Named,      \* per entity: the items whose name and zone match its name
          Zone,       \* per item: its zone, as an area
          KeptItems,  \* items of a type in _KEEP_HOMEKIT_TYPES
          Domain,     \* per entity: the domain of its entity_id
          Platform,   \* per item: that of its entity, or NoPlatform (MAPPING_TABLE)
          CuMac,      \* the form of --cu-mac
          Areas,
          Dirs,       \* output directories
          TmpDirs,    \* those under /tmp, which a reboot empties
          MaxRuns,    \* bound: runs of the tools
          NoItem, NoDevice, NoArea, NoDir, NoPlatform

MaybeItem == Items \cup {NoItem}
MaybeArea == Areas \cup {NoArea}

ASSUME EntityAssumption == Identify \cup Foreign \subseteq Entities
ASSUME DeviceAssumption ==
  /\ DeviceOf \in [Entities -> Devices \cup {NoDevice}] /\ NoDevice \notin Devices
  /\ Shared \subseteq Devices /\ "item" \notin Devices \cup {NoDevice}
\* homebridge-switchbee gives each accessory the serial number of its item.
ASSUME SerialAssumption ==
  /\ Serial \in [Devices -> MaybeItem] /\ NoItem \notin Items
  /\ \A d, e \in Devices : Serial[d] = Serial[e] /\ Serial[d] # NoItem => d = e
ASSUME ItemAssumption ==
  /\ Named \in [Entities -> SUBSET Items] /\ Zone \in [Items -> Areas]
  /\ KeptItems \subseteq Items /\ IsFiniteSet(Items) /\ {"delete", "keep"} \cap Items = {}
  /\ NoArea \notin Areas /\ MaxRuns \in Nat
ASSUME AdoptionAssumption ==
  /\ CuMac \in {"normalized", "raw"} /\ TmpDirs \subseteq Dirs
  /\ DOMAIN Domain = Entities /\ DOMAIN Platform = Items

VARIABLES
  er,       \* core.entity_registry: the rows that exist
  dr,       \* core.device_registry: the areas of the devices that exist
  itemArea, \* the same of the devices Home Assistant made for ha_switchbee
  fresh,    \* items for whose entity it made a row of its own
  backups,  \* per output directory: what backup.tar.gz holds
  pc,       \* the next write of the running tool
  apply,    \* its --apply
  dir,      \* its --output-dir or --backup
  rows,     \* what map_entities returned
  ha,       \* external: is Home Assistant running?
  mem,      \* external: the registries it holds in memory while it runs
  adopted,  \* external: has it an entry of ha_switchbee, and since when?
  orig,     \* history: both registries before the first run
  done,     \* history: applies that ended: none, the first, and one after it
  restored, \* history: restore_areas ran to its end since
  runs      \* runs of the tools

files == <<er, dr, itemArea, fresh>>
tool == <<apply, dir, rows>>
home == <<ha, mem, adopted>>
history == <<done, restored>>
vars == <<files, backups, pc, tool, home, orig, history, runs>>

UniqueIds == [mac : {"normalized", "raw", "bridge"}, item : MaybeItem]

Row == [platform : {"homekit", "switchbee", "other"}, uid : UniqueIds,
        entry : {"set", "none"}, device : Devices \cup {NoDevice, "item"},
        area : MaybeArea]

\* A row that was migrated names its item.
Registries(s) ==
  /\ DOMAIN s.er \subseteq Entities /\ s.er \in [DOMAIN s.er -> Row]
  /\ \A e \in DOMAIN s.er : s.er[e].platform = "switchbee" => s.er[e].uid.item \in Items
  /\ DOMAIN s.dr \subseteq Devices /\ s.dr \in [DOMAIN s.dr -> MaybeArea]
  /\ DOMAIN s.itemArea \subseteq Items /\ s.itemArea \in [DOMAIN s.itemArea -> MaybeArea]
  /\ s.fresh \subseteq Items

Now == [er |-> er, dr |-> dr, itemArea |-> itemArea, fresh |-> fresh]
Nothing == [er |-> << >>, dr |-> << >>, itemArea |-> << >>, fresh |-> {}]
NoBackup == [files |-> Nothing, adopted |-> "no"]

\* The backup d is one from before the first rewrite.
Pristine(d) == backups[d].files.er = orig.er /\ backups[d].files.dr = orig.dr

TypeOK ==
  /\ DOMAIN backups = Dirs
  /\ \A s \in {Now, mem, orig} \cup {backups[d].files : d \in Dirs} : Registries(s)
  /\ pc \in {"idle", "backup", "map", "entities", "devices", "areas", "item_areas"}
  /\ apply \in BOOLEAN /\ dir \in Dirs \cup {NoDir}
  /\ \A e \in DOMAIN rows : rows[e] \in Items \cup {"delete", "keep"}
  /\ ha \in BOOLEAN /\ adopted \in {"no", "early", "late"} /\ restored \in BOOLEAN
  /\ done \in {"none", "once", "again"} /\ runs \in 0 .. MaxRuns

\* A paired bridge with any areas, of the devices and of the entities themselves
\* (but for the rows that are never migrated).
Init ==
  /\ \E own \in [Entities -> MaybeArea] :
       /\ \A e \in Identify \cup Foreign : own[e] = NoArea
       /\ er = [e \in Entities |->
                 [platform |-> IF e \in Foreign THEN "other" ELSE "homekit",
                  uid |-> [mac |-> "bridge", item |-> NoItem], entry |-> "set",
                  device |-> DeviceOf[e], area |-> own[e]]]
  /\ dr \in [Devices -> MaybeArea] /\ itemArea = << >> /\ fresh = {}
  /\ backups = [d \in Dirs |-> NoBackup]
  /\ pc = "idle" /\ apply = FALSE /\ dir = NoDir /\ rows = << >>
  /\ ha = TRUE /\ mem = Now /\ adopted = "no"
  /\ orig = Now /\ done = "none" /\ restored = FALSE /\ runs = 0

-----------------------------------------------------------------------------
(* map_entities *)

\* What is left of a row's device in a device registry.
SerialItem(row, devices) ==
  IF row.device \in DOMAIN devices THEN Serial[row.device] ELSE NoItem

TieBreak(e, area) == {i \in Named[e] : Zone[i] = area}

\* The items an entity may stand for: by serial number, else by name, else, if
\* the name is that of several, by area.  Only a single one is used.
Candidates(e, row, devices) ==
  IF SerialItem(row, devices) # NoItem THEN {SerialItem(row, devices)}
  ELSE IF Cardinality(Named[e]) = 1 THEN Named[e]
  ELSE TieBreak(e, row.area)

MapRow(e, row, devices) ==
  LET candidates == Candidates(e, row, devices)
  IN  IF e \in Identify THEN "delete"
      ELSE IF Cardinality(candidates) = 1 /\ candidates \cap KeptItems = {}
           THEN CHOOSE i \in candidates : TRUE
           ELSE "keep"

\* filter_homekit_switchbee, then map_entities.
MapEntities(s) ==
  [e \in {e \in DOMAIN s.er : s.er[e].platform = "homekit"} |->
     MapRow(e, s.er[e], s.dr)]

-----------------------------------------------------------------------------
(* migrate.py *)

StartRun == pc = "idle" /\ runs < MaxRuns /\ runs' = runs + 1

EndRun == pc' = "idle" /\ apply' = FALSE /\ dir' = NoDir /\ rows' = << >>

Gate_Missing(d, applies) == TRUE
Gate_AnyDir(d, applies) == applies => ~ha

\* check_safety_gates: a dry run passes.  A probe of Home Assistant that fails
\* counts as running; with --ha-stopped-check skip the operator has looked.
Gate(d, applies) == applies => d \notin TmpDirs /\ ~ha

\* The operator takes a new directory for each run, as the runbook has it; any.
NewDir(d) ==
  LET unused == {e \in Dirs : backups[e] = NoBackup /\ (e \in TmpDirs <=> d \in TmpDirs)}
  IN  d \in unused /\ d = CHOOSE e \in unused : TRUE

Migrate(d, applies) ==
  /\ StartRun /\ Gate(d, applies) /\ NewDir(d)
  /\ pc' = "backup" /\ apply' = applies /\ dir' = d
  /\ done' = IF applies /\ done = "once" THEN "again" ELSE done
  /\ restored' = (restored /\ ~applies)
  /\ UNCHANGED <<files, backups, rows, home, orig>>

\* The files create_backup puts into the tarball,
\* core.config_entries among them.
Saved == [files |-> Now, adopted |-> adopted]

CreateBackup ==
  /\ pc = "backup"
  /\ backups' = [backups EXCEPT ![dir] = Saved]
  /\ pc' = "map"
  /\ UNCHANGED <<files, tool, home, orig, history, runs>>

\* The reports are written; a dry run ends.
Map ==
  /\ pc = "map"
  /\ IF apply
       THEN pc' = "entities" /\ rows' = MapEntities(Now) /\ UNCHANGED <<apply, dir>>
       ELSE EndRun
  /\ UNCHANGED <<files, backups, home, orig, history, runs>>

Rewrites_AllRows == {e \in DOMAIN rows : rows[e] # "delete"}

\* The rows main() passes to the applier: action migrate.
Rewrites == {e \in DOMAIN rows : rows[e] \in Items}

NewUniqueId_BridgeMac(item) == [mac |-> "bridge", item |-> item]

\* The MAC is used as it was given.
NewUniqueId(item) == [mac |-> CuMac, item |-> item]

\* apply_entity_registry: three fields, and the identify buttons go.
Rewritten ==
  [e \in {e \in DOMAIN er : ~(e \in DOMAIN rows /\ rows[e] = "delete")} |->
     IF e \in Rewrites
     THEN [er[e] EXCEPT !.platform = "switchbee", !.uid = NewUniqueId(rows[e]),
                        !.entry = "none"]
     ELSE er[e]]

ApplyEntities ==
  /\ pc = "entities"
  /\ er' = Rewritten
  /\ pc' = "devices"
  /\ UNCHANGED <<dr, itemArea, fresh, backups, tool, home, orig, history, runs>>

\* clean_orphan_devices: those that refer to the bridge alone, whatever entities
\* still refer to them.
CleanDevices ==
  /\ pc = "devices"
  /\ dr' = [d \in DOMAIN dr \cap Shared |-> dr[d]]
  /\ EndRun
  /\ done' = IF done = "none" THEN "once" ELSE done
  /\ UNCHANGED <<er, itemArea, fresh, backups, home, orig, restored, runs>>

\* The process dies between two writes.
Crash ==
  /\ pc # "idle"
  /\ EndRun
  /\ UNCHANGED <<files, backups, home, orig, history, runs>>

-----------------------------------------------------------------------------
(* restore_areas.py *)

\* The operator stops Home Assistant (the tool does not look) and names a
\* backup from before the cutover.
RestoreAreas(d) ==
  /\ StartRun /\ ~ha /\ Pristine(d)
  /\ pc' = "areas" /\ dir' = d
  /\ UNCHANGED <<files, backups, apply, rows, home, orig, history>>

BackupDevices_Live == dr

BackupDevices == backups[dir].files.dr

\* _build_item_to_area_map; NoArea also for an item no device has.
BackupArea(i) ==
  LET devices == {d \in DOMAIN BackupDevices : Serial[d] = i}
  IN  IF devices = {} THEN NoArea ELSE BackupDevices[CHOOSE d \in devices : TRUE]

RestoredRow(row) ==
  [row EXCEPT !.device = NoDevice,
              !.area = IF BackupArea(row.uid.item) = NoArea THEN @
                      ELSE BackupArea(row.uid.item)]

RestoreEntityAreas ==
  /\ pc = "areas"
  /\ er' = [e \in DOMAIN er |-> IF er[e].platform = "switchbee" THEN RestoredRow(er[e])
                                                               ELSE er[e]]
  /\ pc' = "item_areas"
  /\ UNCHANGED <<dr, itemArea, fresh, backups, tool, home, orig, history, runs>>

\* Of an entity only the item is compared, of a device the MAC too.
RestoreDeviceAreas ==
  /\ pc = "item_areas"
  /\ itemArea' = [i \in DOMAIN itemArea |->
                    IF CuMac # "normalized" \/ BackupArea(i) = NoArea THEN itemArea[i]
                    ELSE BackupArea(i)]
  /\ EndRun /\ restored' = TRUE
  /\ UNCHANGED <<er, dr, fresh, backups, home, orig, done, runs>>

-----------------------------------------------------------------------------
(* The operator and Home Assistant (external) *)

\* What section 6 of the runbook is for.  Its commands name members ./core.* and
\* ./homebridge/config.json, which backup.py stores as core.* and config.json: tar finds
\* none of them.  The operator of the model uses the names that are in the tarball.
Rollback(d) ==
  LET old == backups[d].files
  IN
  /\ pc = "idle" /\ ~ha /\ Pristine(d)
  /\ er' = old.er /\ dr' = old.dr /\ itemArea' = old.itemArea /\ fresh' = old.fresh
  /\ done' = "none" /\ restored' = FALSE /\ adopted' = backups[d].adopted
  /\ UNCHANGED <<backups, pc, tool, ha, mem, orig, runs>>

Served == {i \in Items : Platform[i] # NoPlatform}

\* The rows that were migrated to the entity of an item.
RowsFor(s, i) ==
  {e \in DOMAIN s.er : /\ s.er[e].platform = "switchbee" /\ Domain[e] = Platform[i]
                       /\ s.er[e].uid = [mac |-> "normalized", item |-> i]}

\* The row an entity gets: Home Assistant's own, which comes last in the file, else
\* one that was migrated.
Adopts(s) ==
  {CHOOSE e \in RowsFor(s, i) : TRUE : i \in {i \in Served \ s.fresh : RowsFor(s, i) # {}}}

\* The entities of the items get their rows, and each a device if it has none.
SetUp(s) ==
  [s EXCEPT
     !.er = [e \in DOMAIN s.er |->
               IF e \notin Adopts(s) THEN s.er[e]
               ELSE [s.er[e] EXCEPT !.entry = "set",
                                    !.device = IF @ = NoDevice THEN "item" ELSE @]],
     !.fresh = @ \cup {i \in Served : RowsFor(s, i) = {}},
     !.itemArea = [i \in Served |-> IF i \in DOMAIN s.itemArea THEN s.itemArea[i]
                                                              ELSE NoArea]]

\* Nobody starts it while a tool runs.
HaStarts ==
  /\ ~ha /\ pc = "idle"
  /\ ha' = TRUE /\ mem' = IF adopted = "no" THEN Now ELSE SetUp(Now)
  /\ UNCHANGED <<files, backups, pc, tool, adopted, orig, history, runs>>

AddIntegration ==
  /\ ha /\ adopted = "no"
  /\ adopted' = (IF done = "none" THEN "early" ELSE "late") /\ mem' = SetUp(mem)
  /\ UNCHANGED <<files, backups, pc, tool, ha, orig, history, runs>>

\* It writes the registries it has in memory.
HaStops ==
  /\ ha
  /\ ha' = FALSE /\ mem' = Nothing
  /\ er' = mem.er /\ dr' = mem.dr /\ itemArea' = mem.itemArea
  /\ fresh' = mem.fresh
  /\ UNCHANGED <<backups, pc, tool, adopted, orig, history, runs>>

\* The machine reboots, with Home Assistant stopped: tools die, /tmp is empty.
Reboot ==
  /\ ~ha /\ \E d \in TmpDirs : backups[d] # NoBackup
  /\ backups' = [d \in Dirs |-> IF d \in TmpDirs THEN NoBackup ELSE backups[d]]
  /\ EndRun
  /\ UNCHANGED <<files, home, orig, history, runs>>

-----------------------------------------------------------------------------
Next ==
  \/ \E d \in Dirs : \/ \E applies \in BOOLEAN : Migrate(d, applies)
                     \/ RestoreAreas(d) \/ Rollback(d)
  \/ CreateBackup \/ Map \/ ApplyEntities \/ CleanDevices \/ Crash
  \/ RestoreEntityAreas \/ RestoreDeviceAreas
  \/ HaStarts \/ AddIntegration \/ HaStops \/ Reboot

Spec == Init /\ [][Next]_vars

-----------------------------------------------------------------------------
(* Properties *)

\* As long as a registry on disk differs from what it was before the cutover,
\* some backup still has what it was, however many runs died where.
BackupKept == er # orig.er \/ dr # orig.dr => \E d \in Dirs : Pristine(d)

Expected(e) == MapEntities(orig)[e]

\* The rows that are migrated are those the report of the first run said, to the
\* items it said.
MigratedAsMapped ==
  \A e \in DOMAIN er : er[e].platform = "switchbee" => Expected(e) = er[e].uid.item

\* After an apply that ended, also one that followed others that died, all of
\* them are; the identify buttons are gone and no other entity's row was touched.
AppliedWhole ==
  \A e \in Entities :
    LET target == IF e \in Foreign THEN "keep" ELSE Expected(e)
    IN  /\ target = "delete" <=> e \notin DOMAIN er
        /\ target = "keep" => er[e] = orig.er[e]
        /\ target \in Items => er[e].platform = "switchbee"

\* Whatever runs died before, one apply that ended leaves what it would have left
\* had none of them been started; and Home Assistant does not undo it.  This compares
\* the rows of entities: the device rows of entities that are kept go as well.
ConvergesToMapping ==
  /\ done # "again" => MigratedAsMapped
  /\ done = "once" => AppliedWhole

\* The area Home Assistant shows: the entity's own, else its device's.
AreaOf(s, e) ==
  LET row == s.er[e]
  IN  IF row.area # NoArea THEN row.area
      ELSE IF row.device \in DOMAIN s.dr THEN s.dr[row.device]
      ELSE IF row.device = "item" THEN s.itemArea[row.uid.item]
      ELSE NoArea

\* After restore_areas an entity that had its area from its device is shown in
\* that area again, also when Home Assistant made devices before or after.
AreasComeBack ==
  restored => \A e \in DOMAIN er :
    /\ er[e].platform = "switchbee" /\ orig.er[e].area = NoArea
    /\ SerialItem(orig.er[e], orig.dr) = er[e].uid.item
    => AreaOf(Now, e) = AreaOf(orig, e)

\* When the integration is set up after the cutover, no item gets a second row
\* beside the one that was migrated for it, which keeps its entity_id: "HA's
\* async_get_or_create will adopt the orphan entity_registry rows written by step
\* 4.3, preserving every entity_id" (docs/cutover-runbook.md:328).  Runs that died,
\* restore_areas and restarts in between do not matter.
RowsAdopted ==
  ha /\ adopted = "late" /\ done = "once" =>
    \A e \in DOMAIN mem.er :
      LET item == mem.er[e].uid.item
      IN  mem.er[e].platform = "switchbee" /\ Domain[e] = Platform[item]
          => item \notin mem.fresh

=============================================================================
