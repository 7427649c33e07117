--------------------------- MODULE MigrationProofs ---------------------------
(***************************************************************************)
(* The properties of the cutover, for all registries, relations of the     *)
(* mapper and output directories, and for any number of runs.              *)
(*                                                                         *)
(* The invariant has three copies of the registries in view: s, on disk or *)
(* in the memory of Home Assistant, the backups, and o, what was there     *)
(* before the first run.                                                   *)
(***************************************************************************)
EXTENDS Migration, FiniteSetTheorems, TLAPS

Migrated(s, e) == s.er[e].platform = "switchbee"

\* The area of an item's device before the cutover.
OrigArea(o, i) ==
  LET devices == {d \in DOMAIN o.dr : Serial[d] = i}
  IN  IF devices = {} THEN NoArea ELSE o.dr[CHOOSE d \in devices : TRUE]

\* What the report of the first run says of a row of the bridge.
Target(o, e) == MapEntities(o)[e]

NothingToMigrate(o) == \A e \in Entities \ Foreign : Target(o, e) \notin Items

\* What Init has.
Original(o) ==
  /\ DOMAIN o.er = Entities /\ DOMAIN o.dr = Devices
  /\ \A e \in Entities :
       /\ o.er[e].platform = (IF e \in Foreign THEN "other" ELSE "homekit")
       /\ o.er[e].device = DeviceOf[e]

-----------------------------------------------------------------------------
(* A copy of the registries *)

\* A row is as it was, or was migrated and perhaps given an area and a device.
RowOf(s, o, e) ==
  IF Migrated(s, e)
  THEN /\ e \notin Foreign
       /\ s.er[e].uid.mac = CuMac
       /\ s.er[e].area \in {o.er[e].area, OrigArea(o, s.er[e].uid.item)}
       /\ s.er[e].device = "item" => s.er[e].uid.item \in DOMAIN s.itemArea
  ELSE s.er[e] = o.er[e]

ItemAreasOf(s, o) ==
  \A i \in DOMAIN s.itemArea : i \in Served /\ s.itemArea[i] \in {NoArea, OrigArea(o, i)}

RowsOf(s, o) == ItemAreasOf(s, o) /\ \A e \in DOMAIN s.er : RowOf(s, o, e)

\* Whatever died on the way, what was done is what the first report said.
AsMapped(s, o) ==
  /\ \A e \in Entities \ DOMAIN s.er : e \notin Foreign /\ Target(o, e) = "delete"
  /\ \A e \in DOMAIN s.er : Migrated(s, e) => s.er[e].uid.item = Target(o, e)

\* What an apply that ended has done, and nothing but a rollback takes back.
Applied(s, o) ==
  \A e \in Entities \ Foreign :
    /\ Target(o, e) = "delete" => e \notin DOMAIN s.er
    /\ Target(o, e) \in Items => e \in DOMAIN s.er /\ Migrated(s, e)

\* The migrated rows have the areas of their devices back.
Restored(s, o) ==
  \A e \in DOMAIN s.er : Migrated(s, e) =>
    /\ s.er[e].device \in {NoDevice, "item"}
    /\ OrigArea(o, s.er[e].uid.item) \in {NoArea, s.er[e].area}

\* Beside no migrated row that an entity can adopt is there one of Home Assistant.
NoSecondRow(s) ==
  \A e \in DOMAIN s.er :
    Migrated(s, e) /\ Domain[e] = Platform[s.er[e].uid.item]
    => s.er[e].uid.item \notin s.fresh

Same(s, o) == s.er = o.er /\ s.dr = o.dr

\* A backup that a reboot does not take and no run overwrites.
Kept == \E d \in Dirs \ TmpDirs : Pristine(d) /\ (pc = "backup" => d # dir)

CopyInv(s) ==
  /\ RowsOf(s, orig)
  /\ done # "again" => AsMapped(s, orig)
  /\ done = "none" => s.dr = orig.dr
  /\ done # "none" => Applied(s, orig)
  /\ restored => Restored(s, orig)
  /\ adopted = "no" => s.fresh = {}
  /\ CuMac = "normalized" /\ adopted = "late" /\ done = "once" => NoSecondRow(s)
  /\ Same(s, orig) \/ Kept

-----------------------------------------------------------------------------
(* The tools, the backups, Home Assistant *)

TypeInv ==
  /\ DOMAIN backups = Dirs
  /\ Registries(Now) /\ Registries(mem) /\ Registries(orig)
  /\ mem = [er |-> mem.er, dr |-> mem.dr, itemArea |-> mem.itemArea, fresh |-> mem.fresh]
  /\ \A d \in Dirs : /\ Registries(backups[d].files)
                     /\ backups[d].adopted \in {"no", "early", "late"}
  /\ pc \in {"idle", "backup", "map", "entities", "devices", "areas", "item_areas"}
  /\ apply \in BOOLEAN /\ dir \in Dirs \cup {NoDir}
  /\ \A e \in DOMAIN rows : rows[e] \in Items \cup {"delete", "keep"}
  /\ ha \in BOOLEAN /\ adopted \in {"no", "early", "late"} /\ restored \in BOOLEAN
  /\ done \in {"none", "once", "again"} /\ runs \in 0 .. MaxRuns

ToolInv ==
  /\ IF pc = "idle" THEN ~apply ELSE dir \in Dirs
  /\ apply => ~ha /\ ~restored /\ done # "once" /\ dir \notin TmpDirs
  /\ pc \in {"entities", "devices"} => apply
  /\ pc = "backup" => backups[dir] = NoBackup
  /\ apply /\ pc \in {"map", "entities", "devices"} => Kept
  /\ pc = "devices" => Applied(Now, orig)
  /\ pc \in {"areas", "item_areas"} => ~ha /\ ~apply /\ Pristine(dir)
  /\ pc = "item_areas" => Restored(Now, orig)

\* What the next write will do to the rows.
RowsInv ==
  pc = "entities" =>
    /\ \A e \in DOMAIN rows : e \in DOMAIN er /\ er[e].platform = "homekit"
    /\ done = "none" => \A e \in DOMAIN er :
         er[e].platform = "homekit" => e \in DOMAIN rows /\ rows[e] = Target(orig, e)

\* What a rollback would bring back.
BackupsInv ==
  \A d \in Dirs : Pristine(d) =>
    /\ ItemAreasOf(backups[d].files, orig)
    /\ backups[d].adopted = "no" => backups[d].files.fresh = {}
    /\ backups[d].adopted = "late" => NothingToMigrate(orig)

AdoptionInv == adopted = "late" => done # "none" \/ NothingToMigrate(orig)

MigrationInv ==
  /\ TypeInv /\ Original(orig) /\ ToolInv /\ RowsInv /\ BackupsInv /\ AdoptionInv
  /\ CopyInv(Now) /\ (ha => CopyInv(mem))

-----------------------------------------------------------------------------
(* The mapper *)

\* The mapper answers with an item, or with what else is to be done with a row.
LEMMA MapRowType ==
  ASSUME NEW e \in Entities, NEW row, NEW devices, DOMAIN devices \subseteq Devices
  PROVE  MapRow(e, row, devices) \in Items \cup {"delete", "keep"}
<1> DEFINE c == Candidates(e, row, devices)
<1>1. c \subseteq Items
  BY SerialAssumption, ItemAssumption
     DEF Candidates, SerialItem, TieBreak, MaybeItem
<1>2. Cardinality(c) = 1 => \E x : c = {x}
  <2>1. IsFiniteSet(c)
    BY <1>1, ItemAssumption, FS_Subset
  <2> HIDE DEF c
  <2> QED
    BY <2>1, FS_Singleton
<1> HIDE DEF c
<1>3. MapRow(e, row, devices) = IF e \in Identify THEN "delete"
        ELSE IF Cardinality(c) = 1 /\ c \cap KeptItems = {}
             THEN CHOOSE i \in c : TRUE ELSE "keep"
  BY DEF MapRow, c
<1> QED
  BY <1>1, <1>2, <1>3

\* The report of the first run has a line for each row of the bridge.
LEMMA TargetType ==
  ASSUME NEW o, Registries(o), Original(o), NEW e \in Entities \ Foreign
  PROVE  /\ Target(o, e) = MapRow(e, o.er[e], o.dr)
         /\ Target(o, e) \in Items \cup {"delete", "keep"}
<1>1. e \in DOMAIN o.er /\ o.er[e].platform = "homekit"
  BY DEF Original
<1>2. Target(o, e) = MapRow(e, o.er[e], o.dr)
  BY <1>1 DEF Target, MapEntities
<1> QED
  BY <1>2, MapRowType DEF Registries

-----------------------------------------------------------------------------
(* Home Assistant sets the integration up *)

Copy(s) == s = [er |-> s.er, dr |-> s.dr, itemArea |-> s.itemArea, fresh |-> s.fresh]

\* Only migrated rows are adopted, each by the entity of its item.
LEMMA AdoptsMigrated ==
  ASSUME NEW s, NEW e \in Adopts(s)
  PROVE  /\ e \in DOMAIN s.er /\ Migrated(s, e)
         /\ s.er[e].uid.item \in Served
<1>1. PICK i \in Served : RowsFor(s, i) # {} /\ e = CHOOSE x \in RowsFor(s, i) : TRUE
  BY DEF Adopts
<1>2. e \in RowsFor(s, i)
  BY <1>1
<1> QED
  BY <1>1, <1>2 DEF RowsFor, Migrated

\* An adopted row keeps its area, its item and, if it has one, its device.
LEMMA SetUpCopy ==
  ASSUME NEW s, Registries(s), Copy(s)
  PROVE  LET t == SetUp(s)
         IN  /\ Copy(t) /\ Registries(t)
             /\ DOMAIN t.er = DOMAIN s.er /\ t.dr = s.dr
             /\ \A e \in DOMAIN s.er :
                  \/ t.er[e] = s.er[e]
                  \/ /\ Migrated(s, e) /\ s.er[e].uid.item \in Served
                     /\ Migrated(t, e)
                     /\ t.er[e].uid = s.er[e].uid /\ t.er[e].area = s.er[e].area
                     /\ t.er[e].device = IF s.er[e].device = NoDevice THEN "item"
                                         ELSE s.er[e].device
             /\ DOMAIN t.itemArea = Served
             /\ \A i \in Served : t.itemArea[i] \in {NoArea} \cup
                  (IF i \in DOMAIN s.itemArea THEN {s.itemArea[i]} ELSE {})
             /\ \A i \in t.fresh : i \in s.fresh \/ RowsFor(s, i) = {}
<1> DEFINE t == SetUp(s)
           ter == [e \in DOMAIN s.er |->
                    IF e \notin Adopts(s) THEN s.er[e]
                    ELSE [s.er[e] EXCEPT !.entry = "set",
                                         !.device = IF @ = NoDevice THEN "item" ELSE @]]
           tarea == [i \in Served |->
                      IF i \in DOMAIN s.itemArea THEN s.itemArea[i] ELSE NoArea]
           tfresh == s.fresh \cup {i \in Served : RowsFor(s, i) = {}}
<1>1. t = [er |-> ter, dr |-> s.dr, itemArea |-> tarea, fresh |-> tfresh]
  <2>1. t = [s EXCEPT !.er = ter, !.fresh = tfresh, !.itemArea = tarea]
    BY DEF SetUp
  <2> HIDE DEF t, ter, tfresh, tarea
  <2> QED
    BY <2>1 DEF Copy
<1>2. \A e \in DOMAIN s.er :
        \/ ter[e] = s.er[e]
        \/ /\ Migrated(s, e) /\ s.er[e].uid.item \in Served
           /\ ter[e] = [s.er[e] EXCEPT !.entry = "set",
                         !.device = IF s.er[e].device = NoDevice THEN "item" ELSE s.er[e].device]
  BY AdoptsMigrated
<1>3. DOMAIN ter = DOMAIN s.er /\ ter = [e \in DOMAIN ter |-> ter[e]]
  OBVIOUS
<1> HIDE DEF ter
<1>4. \A e \in DOMAIN s.er : s.er[e] \in Row
  BY DEF Registries
<1>5. ASSUME NEW e \in DOMAIN s.er, ter[e] # s.er[e]
      PROVE  /\ Migrated(s, e) /\ s.er[e].uid.item \in Served
             /\ ter[e].platform = "switchbee" /\ ter[e] \in Row
             /\ ter[e].uid = s.er[e].uid /\ ter[e].area = s.er[e].area
             /\ ter[e].device = IF s.er[e].device = NoDevice THEN "item"
                                ELSE s.er[e].device
  BY <1>2, <1>4, <1>5 DEF Migrated, Row
<1>6. ter \in [DOMAIN ter -> Row]
  BY <1>3, <1>4, <1>5
<1>7. Served \subseteq Items
  BY DEF Served
<1>8. tarea \in [Served -> MaybeArea]
  BY <1>7 DEF Registries, MaybeArea
<1>9. tfresh \subseteq Items
  BY <1>7 DEF Registries
<1>10. /\ \A i \in Served : tarea[i] \in {NoArea} \cup
            (IF i \in DOMAIN s.itemArea THEN {s.itemArea[i]} ELSE {})
       /\ \A i \in tfresh : i \in s.fresh \/ RowsFor(s, i) = {}
  OBVIOUS
<1> HIDE DEF tarea, tfresh, t
<1>11. t.er = ter /\ t.dr = s.dr /\ t.itemArea = tarea /\ t.fresh = tfresh
  BY <1>1
<1>12. Copy(t)
  BY <1>1, <1>11 DEF Copy
<1>13. Registries(t)
  BY <1>3, <1>5, <1>6, <1>7, <1>8, <1>9, <1>11 DEF Registries
<1> QED
  BY <1>3, <1>5, <1>8, <1>10, <1>11, <1>12, <1>13 DEF Migrated, t

\* What was true of the registries is true after the entities were set up.
LEMMA SetUpKeeps ==
  ASSUME NEW s, NEW o, Registries(s), Copy(s), Original(o)
  PROVE  LET t == SetUp(s)
         IN  /\ RowsOf(s, o) => RowsOf(t, o)
             /\ AsMapped(s, o) => AsMapped(t, o)
             /\ Applied(s, o) => Applied(t, o)
             /\ Restored(s, o) => Restored(t, o)
             /\ RowsOf(s, o) /\ NoSecondRow(s) /\ CuMac = "normalized" => NoSecondRow(t)
             /\ RowsOf(s, o) /\ Same(s, o) => Same(t, o)
<1> DEFINE t == SetUp(s)
<1>1. /\ DOMAIN t.er = DOMAIN s.er /\ t.dr = s.dr /\ DOMAIN t.itemArea = Served
      /\ \A i \in Served : t.itemArea[i] \in {NoArea} \cup
           (IF i \in DOMAIN s.itemArea THEN {s.itemArea[i]} ELSE {})
      /\ \A i \in t.fresh : i \in s.fresh \/ RowsFor(s, i) = {}
      /\ Registries(t)
  BY SetUpCopy
<1>2. ASSUME NEW e \in DOMAIN s.er
      PROVE  \/ t.er[e] = s.er[e]
             \/ /\ Migrated(s, e) /\ s.er[e].uid.item \in Served
                /\ Migrated(t, e)
                /\ t.er[e].uid = s.er[e].uid /\ t.er[e].area = s.er[e].area
                /\ t.er[e].device = IF s.er[e].device = NoDevice THEN "item"
                                    ELSE s.er[e].device
  BY SetUpCopy
<1> HIDE DEF t
<1>3. ASSUME NEW e \in DOMAIN s.er
      PROVE  /\ Migrated(t, e) <=> Migrated(s, e)
             /\ Migrated(s, e) => /\ t.er[e].uid = s.er[e].uid
                                  /\ t.er[e].area = s.er[e].area
             /\ ~Migrated(s, e) => t.er[e] = s.er[e]
  BY <1>2 DEF Migrated
<1>4. ASSUME RowsOf(s, o) PROVE RowsOf(t, o)
  <2>1. ItemAreasOf(t, o)
    BY <1>1, <1>4 DEF RowsOf, ItemAreasOf
  <2>2. ASSUME NEW e \in DOMAIN t.er PROVE RowOf(t, o, e)
    <3>1. e \in DOMAIN s.er /\ RowOf(s, o, e)
      BY <1>1, <1>4, <2>2 DEF RowsOf
    <3>2. CASE Migrated(s, e)
      <4>1. t.er[e].device = "item" => t.er[e].uid.item \in Served
        BY <1>2, <1>4, <3>1, <3>2 DEF RowOf, RowsOf, ItemAreasOf
      <4> QED
        BY <1>1, <1>3, <3>1, <3>2, <4>1 DEF RowOf
    <3>3. CASE ~Migrated(s, e)
      BY <1>3, <3>1, <3>3 DEF RowOf
    <3> QED
      BY <3>2, <3>3
  <2> QED
    BY <2>1, <2>2 DEF RowsOf
<1>5. AsMapped(s, o) => AsMapped(t, o)
  BY <1>1, <1>3 DEF AsMapped
<1>6. Applied(s, o) => Applied(t, o)
  BY <1>1, <1>3 DEF Applied
<1>7. Restored(s, o) => Restored(t, o)
  BY <1>1, <1>2, <1>3 DEF Restored
<1>8. ASSUME RowsOf(s, o), NoSecondRow(s), CuMac = "normalized"
      PROVE  NoSecondRow(t)
  <2> SUFFICES ASSUME NEW e \in DOMAIN t.er, Migrated(t, e),
                      Domain[e] = Platform[t.er[e].uid.item], t.er[e].uid.item \in t.fresh
               PROVE  FALSE
    BY DEF NoSecondRow
  <2>1. /\ e \in DOMAIN s.er /\ Migrated(s, e) /\ t.er[e].uid = s.er[e].uid
        /\ s.er[e].uid \in UniqueIds
    BY <1>1, <1>3 DEF Registries, Row
  <2>2. s.er[e].uid = [mac |-> "normalized", item |-> s.er[e].uid.item]
    BY <1>8, <2>1 DEF RowsOf, RowOf, UniqueIds
  <2>3. e \in RowsFor(s, s.er[e].uid.item)
    BY <2>1, <2>2 DEF RowsFor, Migrated
  <2> QED
    BY <1>1, <1>8, <2>1, <2>3 DEF NoSecondRow
<1>9. ASSUME RowsOf(s, o), Same(s, o)
      PROVE  Same(t, o)
  <2>1. \A e \in DOMAIN s.er : ~Migrated(s, e)
    BY <1>9 DEF Same, Original, Migrated, Registries
  <2>2. \A e \in DOMAIN s.er : t.er[e] = s.er[e]
    BY <1>3, <2>1
  <2>3. s.er = [e \in DOMAIN s.er |-> s.er[e]] /\ t.er = [e \in DOMAIN t.er |-> t.er[e]]
    BY <1>1 DEF Registries
  <2>4. t.er = s.er
    BY <1>1, <2>2, <2>3
  <2> QED
    BY <1>1, <1>9, <2>4 DEF Same
<1> QED
  BY <1>4, <1>5, <1>6, <1>7, <1>8, <1>9 DEF t

-----------------------------------------------------------------------------
(* The first state, and the steps that write no registry *)

\* Registries that are as they were have no migrated row.
LEMMA UntouchedCopy ==
  ASSUME NEW s, NEW o, Original(o), Same(s, o), ItemAreasOf(s, o)
  PROVE  /\ RowsOf(s, o) /\ AsMapped(s, o)
         /\ \A e \in DOMAIN s.er : ~Migrated(s, e)
<1>1. \A e \in DOMAIN s.er : ~Migrated(s, e) /\ s.er[e] = o.er[e]
  BY DEF Same, Original, Migrated
<1>2. RowsOf(s, o)
  BY <1>1 DEF RowsOf, RowOf
<1>3. AsMapped(s, o)
  BY <1>1 DEF AsMapped, Same, Original
<1> QED
  BY <1>1, <1>2, <1>3

\* So are no registries at all.
LEMMA NothingType == Registries(Nothing)
<1>1. DOMAIN Nothing.er = {} /\ DOMAIN Nothing.dr = {} /\ DOMAIN Nothing.itemArea = {}
  BY DEF Nothing
<1> QED
  BY <1>1 DEF Nothing, Registries

\* A paired bridge, and no run yet.
LEMMA InitInv == Init => MigrationInv
<1> SUFFICES ASSUME Init
             PROVE  MigrationInv
  OBVIOUS
<1>1. PICK own \in [Entities -> MaybeArea] :
        er = [e \in Entities |->
               [platform |-> IF e \in Foreign THEN "other" ELSE "homekit",
                uid |-> [mac |-> "bridge", item |-> NoItem], entry |-> "set",
                device |-> DeviceOf[e], area |-> own[e]]]
  BY DEF Init
<1>2. /\ DOMAIN er = Entities /\ DOMAIN dr = Devices
      /\ \A e \in Entities : /\ er[e] \in Row /\ er[e].device = DeviceOf[e]
                             /\ er[e].platform = (IF e \in Foreign THEN "other" ELSE "homekit")
  BY <1>1, DeviceAssumption DEF Init, Row, UniqueIds, MaybeItem
<1>3. orig = Now /\ mem = Now /\ Original(orig)
  BY <1>2 DEF Init, Now, Original
<1>4. Registries(Now)
  BY <1>1, <1>2 DEF Init, Now, Registries
<1>5. \A d \in Dirs : backups[d] = NoBackup
  BY DEF Init
<1>6. TypeInv
  <2>1. \A d \in Dirs : /\ Registries(backups[d].files)
                        /\ backups[d].adopted \in {"no", "early", "late"}
    BY <1>5, NothingType DEF NoBackup
  <2>2. mem = [er |-> mem.er, dr |-> mem.dr, itemArea |-> mem.itemArea, fresh |-> mem.fresh]
    BY <1>3 DEF Now
  <2>3. runs \in 0 .. MaxRuns
    BY ItemAssumption DEF Init
  <2>4. /\ DOMAIN backups = Dirs /\ DOMAIN rows = {}
        /\ pc = "idle" /\ done = "none" /\ adopted = "no" /\ dir = NoDir
    BY DEF Init
  <2>5. apply = FALSE /\ ha = TRUE /\ restored = FALSE
    BY DEF Init
  <2>6. Registries(orig) /\ Registries(mem)
    BY <1>3, <1>4
  <2> QED
    BY <1>4, <2>1, <2>2, <2>3, <2>4, <2>5, <2>6 DEF TypeInv
<1>7. ToolInv /\ RowsInv /\ AdoptionInv
  BY DEF Init, ToolInv, RowsInv, AdoptionInv
<1>8. BackupsInv
  BY <1>5 DEF BackupsInv, ItemAreasOf, NoBackup, Nothing
<1>9. CopyInv(Now)
  <2>1. Same(Now, orig)
    BY <1>3 DEF Same
  <2>2. ItemAreasOf(Now, orig)
    BY DEF Init, Now, ItemAreasOf
  <2>3. RowsOf(Now, orig) /\ AsMapped(Now, orig)
    BY <1>3, <2>1, <2>2, UntouchedCopy
  <2>4. done = "none" /\ restored = FALSE /\ adopted = "no" /\ Now.fresh = {}
    BY DEF Init, Now
  <2> QED
    BY <2>1, <2>3, <2>4 DEF CopyInv, Same
<1> QED
  BY <1>3, <1>6, <1>7, <1>8, <1>9 DEF MigrationInv

\* A directory that was not used yet is no backup of registries that changed.
LEMMA UnusedNotKept ==
  ASSUME NEW s, Registries(s), Registries(orig), Original(orig), NEW d \in Dirs,
         Pristine(d), backups[d] = NoBackup
  PROVE  Same(s, orig)
<1>1. DOMAIN orig.er = {} /\ DOMAIN orig.dr = {}
  BY DEF Pristine, NoBackup, Nothing
<1>2. DOMAIN s.er = {} /\ DOMAIN s.dr = {}
  BY <1>1 DEF Registries, Original
<1>3. /\ s.er = [e \in DOMAIN s.er |-> s.er[e]] /\ s.dr = [d1 \in DOMAIN s.dr |-> s.dr[d1]]
      /\ orig.er = [e \in DOMAIN orig.er |-> orig.er[e]]
      /\ orig.dr = [d1 \in DOMAIN orig.dr |-> orig.dr[d1]]
  BY DEF Registries
<1>4. s.er = orig.er
  BY <1>1, <1>2, <1>3
<1>5. s.dr = orig.dr
  BY <1>1, <1>2, <1>3
<1> QED
  BY <1>4, <1>5 DEF Same

\* What a step does that writes neither a registry nor the memory of Home Assistant.
LEMMA CopiesKept ==
  ASSUME MigrationInv, UNCHANGED <<files, home, orig, history>>, Kept => Kept'
  PROVE  /\ CopyInv(Now)' /\ (ha' => CopyInv(mem)')
         /\ AdoptionInv' /\ Original(orig)'
<1>1. Now' = Now
  BY DEF Now, files
<1>2. /\ mem' = mem /\ ha' = ha /\ orig' = orig /\ done' = done /\ restored' = restored
      /\ adopted' = adopted
  BY DEF home, history
<1> QED
  BY <1>1, <1>2 DEF MigrationInv, CopyInv, AdoptionInv

\* A backup is kept as long as no new one is about to be written over it.
LEMMA KeptStays ==
  ASSUME UNCHANGED <<backups, orig>>, pc' # "backup", Kept
  PROVE  Kept'
BY DEF Kept, Pristine

\* Nor does it matter what else happens while the tool does nothing.
LEMMA KeptAlike ==
  ASSUME UNCHANGED <<backups, orig, pc, dir>>, Kept
  PROVE  Kept'
BY DEF Kept, Pristine

\* A run starts: it writes into a directory that was not used yet.
LEMMA MigrateKept ==
  ASSUME MigrationInv, NEW d \in Dirs, NEW applies \in BOOLEAN, Migrate(d, applies)
  PROVE  MigrationInv'
<1> USE DEF MigrationInv
<1>1. /\ pc = "idle" /\ pc' = "backup" /\ apply' = applies /\ dir' = d
      /\ done' = (IF applies /\ done = "once" THEN "again" ELSE done)
      /\ restored' = (restored /\ ~applies)
      /\ runs < MaxRuns /\ runs' = runs + 1
      /\ applies => d \notin TmpDirs /\ ~ha
      /\ backups[d] = NoBackup
      /\ UNCHANGED <<er, dr, itemArea, fresh, backups, rows, ha, mem, adopted, orig>>
  BY DEF Migrate, StartRun, Gate, NewDir, files, home
<1>2. Now' = Now
  BY <1>1 DEF Now
<1>3. TypeInv'
  BY <1>1, <1>2, ItemAssumption DEF TypeInv
<1>4. ToolInv'
  BY <1>1 DEF ToolInv
<1>5. RowsInv' /\ BackupsInv' /\ AdoptionInv' /\ Original(orig)'
  BY <1>1 DEF RowsInv, BackupsInv, AdoptionInv, Pristine
<1>6. ASSUME NEW s, Registries(s), ~Same(s, orig), Kept PROVE Kept'
  <2>1. PICK k \in Dirs \ TmpDirs : Pristine(k)
    BY <1>6 DEF Kept
  <2>2. k # d
    BY <1>1, <1>6, <2>1, UnusedNotKept DEF TypeInv
  <2> QED
    BY <1>1, <2>1, <2>2 DEF Kept, Pristine
<1>7. CopyInv(Now)'
  <2>1. Same(Now, orig) \/ Kept'
    BY <1>6 DEF CopyInv, TypeInv
  <2> QED
    BY <1>1, <1>2, <2>1 DEF CopyInv
<1>8. ha' => CopyInv(mem)'
  <2>1. ha => Same(mem, orig) \/ Kept'
    BY <1>6 DEF CopyInv, TypeInv
  <2> QED
    BY <1>1, <2>1 DEF CopyInv
<1> QED
  BY <1>3, <1>4, <1>5, <1>7, <1>8

\* The backup of registries that are as they were is one that is kept.
LEMMA CreateBackupKept == MigrationInv /\ CreateBackup => MigrationInv'
<1> SUFFICES ASSUME MigrationInv, CreateBackup
             PROVE  MigrationInv'
  OBVIOUS
<1> USE DEF MigrationInv
<1>1. /\ pc = "backup" /\ pc' = "map"
      /\ backups' = [backups EXCEPT ![dir] = Saved]
      /\ UNCHANGED <<files, tool, home, orig, history, runs>>
  BY DEF CreateBackup
<1>2. /\ UNCHANGED <<apply, dir, rows, ha, mem, adopted, orig, done, restored, runs>>
      /\ Now' = Now /\ er' = er
  BY <1>1 DEF files, tool, home, history, Now
<1>3. dir \in Dirs /\ DOMAIN backups = Dirs
  BY <1>1 DEF ToolInv, TypeInv
<1>4. /\ DOMAIN backups' = Dirs /\ backups'[dir] = Saved
      /\ \A d \in Dirs : d # dir => backups'[d] = backups[d]
  BY <1>1, <1>3
<1>5. Saved.files = Now /\ Saved.adopted = adopted
  BY DEF Saved
<1>6. Kept => Kept'
  BY <1>1, <1>2, <1>4 DEF Kept, Pristine
<1>7. apply => Kept'
  <2>1. CASE Same(Now, orig)
    <3>1. Pristine(dir)'
      BY <1>2, <1>4, <1>5, <2>1 DEF Pristine, Same
    <3> QED
      BY <1>1, <1>2, <1>3, <3>1 DEF Kept, ToolInv
  <2>2. CASE ~Same(Now, orig)
    BY <1>6, <2>2 DEF CopyInv
  <2> QED
    BY <2>1, <2>2
<1>8. BackupsInv'
  <2>1. ASSUME NEW d \in Dirs, d # dir, Pristine(d)'
        PROVE  /\ ItemAreasOf(backups[d].files, orig)'
               /\ backups'[d].adopted = "no" => backups'[d].files.fresh = {}
               /\ backups'[d].adopted = "late" => NothingToMigrate(orig)'
    BY <1>2, <1>4, <2>1 DEF BackupsInv, Pristine
  <2>2. ASSUME Pristine(dir)'
        PROVE  /\ ItemAreasOf(backups[dir].files, orig)'
               /\ backups'[dir].adopted = "no" => backups'[dir].files.fresh = {}
               /\ backups'[dir].adopted = "late" => NothingToMigrate(orig)'
    <3>1. Same(Now, orig)
      BY <1>2, <1>4, <1>5, <2>2 DEF Pristine, Same
    <3>2. ItemAreasOf(Now, orig) /\ (adopted = "no" => Now.fresh = {})
      BY DEF CopyInv, RowsOf
    <3>3. \A e \in DOMAIN Now.er : ~Migrated(Now, e)
      BY <3>1, <3>2, UntouchedCopy
    <3>4. done # "none" => NothingToMigrate(orig)
      BY <3>3 DEF CopyInv, Applied, NothingToMigrate
    <3> QED
      BY <1>2, <1>4, <1>5, <3>2, <3>4 DEF AdoptionInv
  <2> QED
    BY <1>2, <2>1, <2>2 DEF BackupsInv
<1>9. TypeInv'
  <2>1. \A d \in Dirs : /\ Registries(backups'[d].files)
                        /\ backups'[d].adopted \in {"no", "early", "late"}
    BY <1>4, <1>5 DEF TypeInv
  <2> QED
    BY <1>1, <1>2, <1>4, <2>1 DEF TypeInv
<1>10. ToolInv' /\ RowsInv'
  BY <1>1, <1>2, <1>3, <1>7 DEF ToolInv, RowsInv
<1> QED
  BY <1>1, <1>6, <1>8, <1>9, <1>10, CopiesKept

\* A run ends, at its end or wherever it dies: what it has written stays.
LEMMA EndKept ==
  ASSUME MigrationInv, EndRun, UNCHANGED <<files, backups, home, orig, history, runs>>
  PROVE  MigrationInv'
<1> USE DEF MigrationInv
<1>1. /\ pc' = "idle" /\ apply' = FALSE /\ dir' = NoDir /\ DOMAIN rows' = {}
  BY DEF EndRun
<1>2. UNCHANGED <<ha, mem, adopted, done, restored>> /\ Now' = Now
  BY DEF files, home, history, Now
<1>3. Kept => Kept'
  BY <1>1, KeptStays
<1>4. TypeInv'
  BY <1>1, <1>2 DEF TypeInv
<1>5. ToolInv' /\ RowsInv' /\ BackupsInv'
  BY <1>1 DEF ToolInv, RowsInv, BackupsInv, Pristine
<1> QED
  BY <1>3, <1>4, <1>5, CopiesKept

\* The rows are mapped: as in the first report, unless an apply has ended.
LEMMA MapKept == MigrationInv /\ Map => MigrationInv'
<1> SUFFICES ASSUME MigrationInv, Map
             PROVE  MigrationInv'
  OBVIOUS
<1> USE DEF MigrationInv
<1>1. /\ pc = "map"
      /\ UNCHANGED <<files, backups, home, orig, history, runs>>
  BY DEF Map
<1>2. /\ UNCHANGED <<er, dr, ha, mem, adopted, done, restored>>
      /\ Now' = Now /\ dir \in Dirs
  BY <1>1 DEF files, home, history, Now, ToolInv
<1>3. CASE apply
  <2>1. pc' = "entities" /\ rows' = MapEntities(Now) /\ UNCHANGED <<apply, dir>>
    BY <1>3 DEF Map
  <2>2. Kept => Kept'
    BY <1>1, <2>1, KeptStays
  <2>3. /\ DOMAIN rows' = {e \in DOMAIN er : er[e].platform = "homekit"}
        /\ \A e \in DOMAIN rows' : rows'[e] = MapRow(e, er[e], dr)
    BY <2>1 DEF MapEntities, Now
  <2>4. \A e \in DOMAIN rows' : rows'[e] \in Items \cup {"delete", "keep"}
    <3>1. DOMAIN er \subseteq Entities /\ DOMAIN dr \subseteq Devices
      BY DEF TypeInv, Registries, Now
    <3> QED
      BY <2>3, <3>1, MapRowType
  <2>5. RowsInv'
    <3> SUFFICES ASSUME done = "none", NEW e \in DOMAIN er, er[e].platform = "homekit"
                 PROVE  rows'[e] = Target(orig, e)
      BY <1>1, <1>2, <2>3 DEF RowsInv
    <3>1. dr = orig.dr /\ RowOf(Now, orig, e) /\ e \in Entities
      BY DEF CopyInv, RowsOf, Now, TypeInv, Registries
    <3>2. er[e] = orig.er[e]
      BY <3>1 DEF RowOf, Migrated, Now
    <3>3. e \in Entities \ Foreign
      BY <3>1, <3>2 DEF Original
    <3>4. Target(orig, e) = MapRow(e, orig.er[e], orig.dr)
      BY <3>3, TargetType DEF TypeInv
    <3> QED
      BY <2>3, <3>1, <3>2, <3>4
  <2>6. TypeInv'
    BY <1>1, <1>2, <2>1, <2>4 DEF TypeInv
  <2>7. ToolInv'
    BY <1>1, <1>2, <1>3, <2>1, <2>2 DEF ToolInv
  <2>8. BackupsInv'
    BY <1>1 DEF BackupsInv, Pristine
  <2> QED
    BY <1>1, <2>2, <2>5, <2>6, <2>7, <2>8, CopiesKept
<1>4. CASE ~apply
  <2>1. EndRun
    BY <1>4 DEF Map
  <2> QED
    BY <1>1, <2>1, EndKept
<1> QED
  BY <1>3, <1>4

\* Three fields of the rows are rewritten, and the identify buttons are removed.
LEMMA ApplyEntitiesKept == MigrationInv /\ ApplyEntities => MigrationInv'
<1> SUFFICES ASSUME MigrationInv, ApplyEntities
             PROVE  MigrationInv'
  OBVIOUS
<1> USE DEF MigrationInv
<1>1. /\ pc = "entities" /\ pc' = "devices" /\ er' = Rewritten
      /\ UNCHANGED <<dr, itemArea, fresh, backups, apply, dir, rows, ha, mem, adopted, orig,
                     done, restored, runs>>
  BY DEF ApplyEntities, tool, home, history
<1>2. /\ apply /\ ~ha /\ ~restored /\ done # "once" /\ Kept
  BY <1>1 DEF ToolInv
<1>3. Kept'
  BY <1>1, <1>2, KeptStays
<1>4. /\ DOMAIN er' = {e \in DOMAIN er : ~(e \in DOMAIN rows /\ rows[e] = "delete")}
      /\ er' = [e \in DOMAIN er' |-> er'[e]]
  BY <1>1 DEF Rewritten
<1>5. ASSUME NEW e \in DOMAIN er'
      PROVE  \/ e \notin Rewrites /\ er'[e] = er[e]
             \/ /\ e \in Rewrites
                /\ er'[e] = [er[e] EXCEPT !.platform = "switchbee",
                               !.uid = [mac |-> CuMac, item |-> rows[e]], !.entry = "none"]
  BY <1>1, <1>4 DEF Rewritten, NewUniqueId
<1>6. \A e \in DOMAIN er : e \in Entities /\ er[e] \in Row /\ RowOf(Now, orig, e)
  BY DEF TypeInv, Registries, Now, CopyInv, RowsOf
<1>7. ASSUME NEW e \in Rewrites
      PROVE  /\ e \in DOMAIN er /\ er[e].platform = "homekit" /\ rows[e] \in Items
             /\ er[e] = orig.er[e] /\ e \in Entities \ Foreign
  <2>1. e \in DOMAIN rows /\ rows[e] \in Items
    BY <1>7 DEF Rewrites
  <2>2. e \in DOMAIN er /\ er[e].platform = "homekit"
    BY <1>1, <2>1 DEF RowsInv
  <2>3. er[e] = orig.er[e]
    BY <1>6, <2>2 DEF RowOf, Migrated, Now
  <2> QED
    BY <1>6, <2>1, <2>2, <2>3 DEF Original
<1>8. ASSUME NEW e \in DOMAIN er', e \in Rewrites
      PROVE  /\ er'[e] \in Row /\ er'[e].platform = "switchbee"
             /\ er'[e].uid.mac = CuMac /\ er'[e].uid.item = rows[e]
             /\ er'[e].area = orig.er[e].area /\ er'[e].device = DeviceOf[e]
  <2>1. er[e] \in Row /\ rows[e] \in Items /\ er[e] = orig.er[e] /\ e \in Entities
    BY <1>6, <1>7, <1>8
  <2>2. er'[e] = [er[e] EXCEPT !.platform = "switchbee",
                    !.uid = [mac |-> CuMac, item |-> rows[e]], !.entry = "none"]
    BY <1>5, <1>8
  <2>3. [mac |-> CuMac, item |-> rows[e]] \in UniqueIds
    BY <2>1, AdoptionAssumption DEF UniqueIds, MaybeItem
  <2>4. er'[e] \in Row
    BY <2>1, <2>2, <2>3 DEF Row
  <2>5. /\ er'[e].platform = "switchbee" /\ er'[e].area = er[e].area
        /\ er'[e].device = er[e].device
        /\ er'[e].uid = [mac |-> CuMac, item |-> rows[e]]
    BY <2>1, <2>2 DEF Row
  <2> QED
    BY <2>1, <2>4, <2>5 DEF Original
<1>9. ASSUME NEW e \in DOMAIN er', e \notin Rewrites
      PROVE  er'[e] = er[e] /\ e \in DOMAIN er
  BY <1>4, <1>5, <1>9
<1>10. \A e \in DOMAIN er' : er'[e] \in Row
  BY <1>6, <1>8, <1>9
<1>11. Registries(Now')
  <2>1. \A e \in DOMAIN er : er[e].platform = "switchbee" => er[e].uid.item \in Items
    BY DEF TypeInv, Registries, Now
  <2>2. \A e \in DOMAIN er' : er'[e].platform = "switchbee" => er'[e].uid.item \in Items
    BY <1>7, <1>8, <1>9, <2>1
  <2>3. er' \in [DOMAIN er' -> Row] /\ DOMAIN er' \subseteq Entities
    BY <1>4, <1>6, <1>10
  <2> QED
    BY <1>1, <2>2, <2>3 DEF TypeInv, Registries, Now
<1>12. RowsOf(Now', orig)
  <2>1. ASSUME NEW e \in DOMAIN er' PROVE RowOf(Now', orig, e)
    <3>1. CASE e \in Rewrites
      <4>1. e \in Entities \ Foreign /\ DeviceOf[e] # "item"
        BY <1>7, <3>1, DeviceAssumption
      <4> QED
        BY <1>8, <3>1, <4>1 DEF RowOf, Migrated, Now
    <3>2. CASE e \notin Rewrites
      BY <1>1, <1>6, <1>9, <3>2 DEF RowOf, Migrated, Now
    <3> QED
      BY <3>1, <3>2
  <2> QED
    BY <1>1, <2>1 DEF RowsOf, ItemAreasOf, CopyInv, Now
<1>13. ASSUME done = "none"
       PROVE  AsMapped(Now', orig) /\ Applied(Now', orig)
  <2>1. /\ \A e \in DOMAIN rows : rows[e] = Target(orig, e)
        /\ \A e \in DOMAIN er : er[e].platform = "homekit" => e \in DOMAIN rows
    BY <1>1, <1>13 DEF RowsInv
  <2>2. /\ \A e \in Entities \ DOMAIN er : e \notin Foreign /\ Target(orig, e) = "delete"
        /\ \A e \in DOMAIN er :
             er[e].platform = "switchbee" => er[e].uid.item = Target(orig, e)
    BY <1>13 DEF CopyInv, AsMapped, Migrated, Now
  <2>3. AsMapped(Now', orig)
    <3>1. ASSUME NEW e \in Entities \ DOMAIN er'
          PROVE  e \notin Foreign /\ Target(orig, e) = "delete"
      <4>1. CASE e \notin DOMAIN er
        BY <2>2, <4>1
      <4>2. CASE e \in DOMAIN er
        <5>1. e \in DOMAIN rows /\ rows[e] = "delete"
          BY <1>4, <3>1, <4>2
        <5>2. er[e].platform = "homekit"
          BY <1>1, <5>1 DEF RowsInv
        <5>3. er[e] = orig.er[e]
          BY <1>6, <4>2, <5>2 DEF RowOf, Migrated, Now
        <5> QED
          BY <2>1, <5>1, <5>2, <5>3 DEF Original
      <4> QED
        BY <4>1, <4>2
    <3>2. ASSUME NEW e \in DOMAIN er', er'[e].platform = "switchbee"
          PROVE  er'[e].uid.item = Target(orig, e)
      BY <1>8, <1>9, <2>1, <2>2, <3>2 DEF Rewrites
    <3> QED
      BY <3>1, <3>2 DEF AsMapped, Migrated, Now
  <2>4. Applied(Now', orig)
    <3> SUFFICES ASSUME NEW e \in Entities \ Foreign
                 PROVE  /\ Target(orig, e) = "delete" => e \notin DOMAIN er'
                        /\ Target(orig, e) \in Items =>
                             e \in DOMAIN er' /\ er'[e].platform = "switchbee"
      BY DEF Applied, Migrated, Now
    <3>1. e \in DOMAIN er => \/ er[e].platform = "switchbee" /\ er[e].uid.item \in Items
                                                          /\ er[e].uid.item = Target(orig, e)
                             \/ /\ e \in DOMAIN rows /\ rows[e] = Target(orig, e)
                                /\ er[e].platform = "homekit"
      <4>1. e \in DOMAIN er /\ er[e].platform # "switchbee" => er[e].platform = "homekit"
        BY <1>6 DEF RowOf, Migrated, Now, Original
      <4>2. e \in DOMAIN er /\ er[e].platform = "switchbee" => er[e].uid.item \in Items
        BY DEF TypeInv, Registries, Now
      <4> QED
        BY <2>1, <2>2, <4>1, <4>2
    <3>2. ASSUME Target(orig, e) = "delete" PROVE e \notin DOMAIN er'
      BY <1>4, <3>1, <3>2, ItemAssumption
    <3>3. ASSUME Target(orig, e) \in Items
          PROVE  e \in DOMAIN er' /\ er'[e].platform = "switchbee"
      <4>1. e \in DOMAIN er
        BY <2>2, <3>3, ItemAssumption
      <4>2. e \in DOMAIN er'
        BY <1>1, <1>4, <3>1, <3>3, <4>1, ItemAssumption DEF RowsInv
      <4> QED
        BY <1>8, <1>9, <3>1, <3>3, <4>1, <4>2 DEF Rewrites
    <3> QED
      BY <3>2, <3>3
  <2> QED
    BY <2>3, <2>4
<1>14. ASSUME done # "none"
       PROVE  Applied(Now', orig)
  <2> SUFFICES ASSUME NEW e \in Entities \ Foreign
               PROVE  /\ Target(orig, e) = "delete" => e \notin DOMAIN er'
                      /\ Target(orig, e) \in Items =>
                           e \in DOMAIN er' /\ er'[e].platform = "switchbee"
    BY DEF Applied, Migrated, Now
  <2>1. /\ Target(orig, e) = "delete" => e \notin DOMAIN er
        /\ Target(orig, e) \in Items => e \in DOMAIN er /\ er[e].platform = "switchbee"
    BY <1>14 DEF CopyInv, Applied, Migrated, Now
  <2>2. e \in DOMAIN er /\ er[e].platform = "switchbee" =>
          e \in DOMAIN er' /\ er'[e].platform = "switchbee"
    <3>1. e \in DOMAIN er /\ er[e].platform = "switchbee" => e \notin DOMAIN rows
      BY <1>1 DEF RowsInv
    <3> QED
      BY <1>4, <1>8, <1>9, <3>1
  <2> QED
    BY <1>4, <2>1, <2>2
<1>15. CopyInv(Now)' /\ ToolInv'
  <2>1. /\ Now'.dr = Now.dr /\ Now'.fresh = Now.fresh
    BY <1>1 DEF Now
  <2>2. CopyInv(Now)'
    BY <1>1, <1>2, <1>3, <1>12, <1>13, <1>14, <2>1 DEF CopyInv, TypeInv
  <2>3. ToolInv'
    BY <1>1, <1>2, <1>3, <1>13, <1>14 DEF ToolInv
  <2> QED
    BY <2>2, <2>3
<1>16. TypeInv'
  BY <1>1, <1>11 DEF TypeInv
<1>17. RowsInv' /\ BackupsInv' /\ AdoptionInv' /\ Original(orig)'
  BY <1>1 DEF RowsInv, BackupsInv, AdoptionInv, Pristine
<1> QED
  BY <1>1, <1>2, <1>15, <1>16, <1>17

\* The apply ends: from here on what it did stays.
LEMMA CleanDevicesKept == MigrationInv /\ CleanDevices => MigrationInv'
<1> SUFFICES ASSUME MigrationInv, CleanDevices
             PROVE  MigrationInv'
  OBVIOUS
<1> USE DEF MigrationInv
<1>1. /\ pc = "devices" /\ dr' = [d \in DOMAIN dr \cap Shared |-> dr[d]]
      /\ pc' = "idle" /\ apply' = FALSE /\ dir' = NoDir /\ DOMAIN rows' = {}
      /\ done' = (IF done = "none" THEN "once" ELSE done)
      /\ UNCHANGED <<er, itemArea, fresh, backups, ha, mem, adopted, orig, restored, runs>>
  BY DEF CleanDevices, EndRun, home
<1>2. /\ apply /\ ~ha /\ ~restored /\ done # "once" /\ Kept /\ Applied(Now, orig)
  BY <1>1 DEF ToolInv
<1>3. Kept'
  BY <1>1, <1>2, KeptStays
<1>4. /\ Now'.er = Now.er /\ Now'.itemArea = Now.itemArea /\ Now'.fresh = Now.fresh
      /\ Now'.dr = dr'
  BY <1>1 DEF Now
<1>5. Registries(Now')
  <2>1. DOMAIN dr' \subseteq Devices /\ dr' \in [DOMAIN dr' -> MaybeArea]
    BY <1>1 DEF TypeInv, Registries, Now
  <2> QED
    BY <1>4, <2>1 DEF TypeInv, Registries
<1>6. TypeInv'
  BY <1>1, <1>5 DEF TypeInv
<1>7. RowsOf(Now', orig)
  BY <1>4 DEF CopyInv, RowsOf, ItemAreasOf, RowOf, Migrated
<1>8. Applied(Now', orig) /\ (done # "again" => AsMapped(Now', orig))
  BY <1>2, <1>4 DEF CopyInv, Applied, AsMapped, Migrated
<1>9. adopted = "late" /\ done = "none" => NoSecondRow(Now')
  <2> SUFFICES ASSUME adopted = "late", done = "none", NEW e \in DOMAIN er, Migrated(Now, e)
               PROVE  FALSE
    BY <1>4 DEF NoSecondRow, Migrated, Now
  <2>1. NothingToMigrate(orig)
    BY DEF AdoptionInv
  <2>2. Now.er[e].uid.item = Target(orig, e) /\ RowOf(Now, orig, e)
    BY DEF CopyInv, AsMapped, RowsOf, Now
  <2>3. Now.er[e].uid.item \in Items /\ e \in Entities
    BY DEF TypeInv, Registries, Now, Migrated
  <2> QED
    BY <2>1, <2>2, <2>3 DEF NothingToMigrate, RowOf
<1>10. CopyInv(Now)'
  BY <1>1, <1>2, <1>3, <1>4, <1>7, <1>8, <1>9 DEF CopyInv, TypeInv
<1>11. ToolInv' /\ RowsInv' /\ BackupsInv' /\ AdoptionInv' /\ Original(orig)'
  BY <1>1 DEF ToolInv, RowsInv, BackupsInv, AdoptionInv, Pristine
<1> QED
  BY <1>1, <1>2, <1>6, <1>10, <1>11

\* restore_areas starts, with a backup from before the cutover.
LEMMA RestoreAreasKept ==
  ASSUME MigrationInv, NEW d \in Dirs, RestoreAreas(d)
  PROVE  MigrationInv'
<1> USE DEF MigrationInv
<1>1. /\ pc = "idle" /\ pc' = "areas" /\ dir' = d /\ ~ha /\ Pristine(d)
      /\ runs < MaxRuns /\ runs' = runs + 1
      /\ UNCHANGED <<files, backups, apply, rows, home, orig, history>>
  BY DEF RestoreAreas, StartRun
<1>2. UNCHANGED <<er, ha, mem, adopted, done, restored>> /\ Now' = Now
  BY <1>1 DEF files, home, history, Now
<1>3. Kept => Kept'
  BY <1>1, KeptStays
<1>4. TypeInv'
  BY <1>1, <1>2, ItemAssumption DEF TypeInv
<1>5. ToolInv' /\ RowsInv' /\ BackupsInv'
  BY <1>1, <1>2 DEF ToolInv, RowsInv, BackupsInv, Pristine
<1> QED
  BY <1>1, <1>3, <1>4, <1>5, CopiesKept

\* The areas in a backup from before the cutover are those from before.
LEMMA BackupAreaOriginal ==
  ASSUME Pristine(dir), NEW i
  PROVE  BackupArea(i) = OrigArea(orig, i)
BY DEF Pristine, BackupArea, BackupDevices, OrigArea

\* The migrated rows get the areas of their devices.
LEMMA RestoreEntityAreasKept == MigrationInv /\ RestoreEntityAreas => MigrationInv'
<1> SUFFICES ASSUME MigrationInv, RestoreEntityAreas
             PROVE  MigrationInv'
  OBVIOUS
<1> USE DEF MigrationInv
<1>1. /\ pc = "areas" /\ pc' = "item_areas"
      /\ er' = [e \in DOMAIN er |-> IF er[e].platform = "switchbee" THEN RestoredRow(er[e])
                                                                   ELSE er[e]]
      /\ UNCHANGED <<dr, itemArea, fresh, backups, apply, dir, rows, ha, mem, adopted, orig,
                     done, restored, runs>>
  BY DEF RestoreEntityAreas, tool, home, history
<1>2. ~ha /\ ~apply /\ Pristine(dir) /\ dir \in Dirs
  BY <1>1 DEF ToolInv
<1>3. DOMAIN er' = DOMAIN er /\ er' = [e \in DOMAIN er' |-> er'[e]]
  BY <1>1
<1>4. \A e \in DOMAIN er :
        /\ e \in Entities /\ er[e] \in Row /\ RowOf(Now, orig, e)
        /\ er[e].platform = "switchbee" => er[e].uid.item \in Items
  BY DEF TypeInv, Registries, Now, CopyInv, RowsOf
<1>5. ASSUME NEW e \in DOMAIN er, er[e].platform = "switchbee"
      PROVE  /\ er'[e] \in Row /\ er'[e].platform = "switchbee"
             /\ er'[e].uid = er[e].uid /\ er'[e].device = NoDevice
             /\ er'[e].area = (IF OrigArea(orig, er[e].uid.item) = NoArea THEN er[e].area
                               ELSE OrigArea(orig, er[e].uid.item))
  <2> DEFINE a == OrigArea(orig, er[e].uid.item)
  <2>1. BackupArea(er[e].uid.item) = a
    BY <1>2, BackupAreaOriginal
  <2>2. a \in MaybeArea
    BY DEF OrigArea, TypeInv, Registries, MaybeArea
  <2> HIDE DEF a
  <2>3. er'[e] = [er[e] EXCEPT !.device = NoDevice,
                               !.area = IF a = NoArea THEN er[e].area ELSE a]
    BY <1>1, <1>5, <2>1 DEF RestoredRow
  <2>4. er[e] \in Row
    BY <1>4
  <2>5. er'[e] \in Row
    BY <2>2, <2>3, <2>4 DEF Row
  <2> QED
    BY <1>5, <2>3, <2>4, <2>5 DEF Row, a
<1>6. ASSUME NEW e \in DOMAIN er, er[e].platform # "switchbee"
      PROVE  er'[e] = er[e]
  BY <1>1, <1>6
<1>7. /\ Now'.dr = Now.dr /\ Now'.itemArea = Now.itemArea /\ Now'.fresh = Now.fresh
      /\ Now'.er = er' /\ Now.er = er
  BY <1>1 DEF Now
<1>8. Registries(Now')
  <2>1. er' \in [DOMAIN er' -> Row]
    BY <1>3, <1>4, <1>5, <1>6
  <2>2. \A e \in DOMAIN er' : er'[e].platform = "switchbee" => er'[e].uid.item \in Items
    BY <1>3, <1>4, <1>5, <1>6
  <2> QED
    BY <1>3, <1>7, <2>1, <2>2 DEF TypeInv, Registries
<1>9. TypeInv'
  BY <1>1, <1>8 DEF TypeInv
<1>10. /\ \A e \in DOMAIN er : /\ Migrated(Now', e) <=> Migrated(Now, e)
                               /\ Migrated(Now, e) => er'[e].uid = er[e].uid
  BY <1>5, <1>6, <1>7 DEF Migrated
<1>11. RowsOf(Now', orig)
  <2>1. ItemAreasOf(Now', orig)
    BY <1>7 DEF CopyInv, RowsOf, ItemAreasOf
  <2>2. ASSUME NEW e \in DOMAIN er PROVE RowOf(Now', orig, e)
    <3>1. CASE er[e].platform = "switchbee"
      BY <1>4, <1>5, <1>7, <3>1, DeviceAssumption DEF RowOf, Migrated
    <3>2. CASE er[e].platform # "switchbee"
      BY <1>4, <1>6, <1>7, <3>2 DEF RowOf, Migrated
    <3> QED
      BY <3>1, <3>2
  <2> QED
    BY <1>3, <1>7, <2>1, <2>2 DEF RowsOf
<1>12. /\ AsMapped(Now, orig) => AsMapped(Now', orig)
       /\ Applied(Now, orig) => Applied(Now', orig)
       /\ NoSecondRow(Now) => NoSecondRow(Now')
  BY <1>3, <1>7, <1>10 DEF AsMapped, Applied, NoSecondRow
<1>13. Restored(Now', orig)
  BY <1>3, <1>5, <1>7, <1>10 DEF Restored, Migrated
<1>14. Same(Now, orig) => Same(Now', orig)
  <2> SUFFICES ASSUME Same(Now, orig)
               PROVE  Same(Now', orig)
    OBVIOUS
  <2>1. \A e \in DOMAIN er : ~Migrated(Now, e)
    BY <1>7, UntouchedCopy DEF CopyInv, RowsOf
  <2>2. er = [e \in DOMAIN er |-> er[e]]
    BY DEF TypeInv, Registries, Now
  <2>3. er' = er
    BY <1>3, <1>6, <1>7, <2>1, <2>2 DEF Migrated
  <2> QED
    BY <1>7, <2>3 DEF Same
<1>15. Kept => Kept'
  BY <1>1, KeptStays
<1>16. CopyInv(Now)'
  BY <1>1, <1>7, <1>11, <1>12, <1>13, <1>14, <1>15 DEF CopyInv
<1>17. ToolInv' /\ RowsInv' /\ BackupsInv' /\ AdoptionInv' /\ Original(orig)'
  BY <1>1, <1>2, <1>13 DEF ToolInv, RowsInv, BackupsInv, AdoptionInv, Pristine
<1> QED
  BY <1>1, <1>2, <1>9, <1>16, <1>17

\* The devices that Home Assistant made for the items get theirs.
LEMMA RestoreDeviceAreasKept == MigrationInv /\ RestoreDeviceAreas => MigrationInv'
<1> SUFFICES ASSUME MigrationInv, RestoreDeviceAreas
             PROVE  MigrationInv'
  OBVIOUS
<1> USE DEF MigrationInv
<1>1. /\ pc = "item_areas"
      /\ itemArea' = [i \in DOMAIN itemArea |->
                       IF CuMac # "normalized" \/ BackupArea(i) = NoArea THEN itemArea[i]
                       ELSE BackupArea(i)]
      /\ pc' = "idle" /\ apply' = FALSE /\ dir' = NoDir /\ DOMAIN rows' = {}
      /\ restored' = TRUE
      /\ UNCHANGED <<er, dr, fresh, backups, ha, mem, adopted, orig, done, runs>>
  BY DEF RestoreDeviceAreas, EndRun, home
<1>2. ~ha /\ Pristine(dir) /\ Restored(Now, orig)
  BY <1>1 DEF ToolInv
<1>3. Kept => Kept'
  BY <1>1, KeptStays
<1>4. /\ Now'.er = Now.er /\ Now'.dr = Now.dr /\ Now'.fresh = Now.fresh
      /\ Now'.itemArea = itemArea' /\ Now.itemArea = itemArea
  BY <1>1 DEF Now
<1>5. \A i : BackupArea(i) = OrigArea(orig, i) /\ OrigArea(orig, i) \in MaybeArea
  BY <1>2, BackupAreaOriginal DEF OrigArea, TypeInv, Registries, MaybeArea
<1>6. /\ DOMAIN itemArea' = DOMAIN itemArea
      /\ \A i \in DOMAIN itemArea : itemArea'[i] \in {itemArea[i], OrigArea(orig, i)}
      /\ itemArea' \in [DOMAIN itemArea' -> MaybeArea]
  BY <1>1, <1>4, <1>5 DEF TypeInv, Registries
<1>7. TypeInv'
  <2>1. Registries(Now')
    BY <1>4, <1>6 DEF TypeInv, Registries
  <2> QED
    BY <1>1, <2>1 DEF TypeInv
<1>8. RowsOf(Now', orig)
  BY <1>4, <1>6 DEF CopyInv, RowsOf, ItemAreasOf, RowOf, Migrated
<1>9. /\ AsMapped(Now, orig) => AsMapped(Now', orig)
      /\ Applied(Now, orig) => Applied(Now', orig)
      /\ NoSecondRow(Now) => NoSecondRow(Now')
      /\ Restored(Now', orig)
      /\ Same(Now, orig) => Same(Now', orig)
  BY <1>2, <1>4 DEF AsMapped, Applied, NoSecondRow, Restored, Same, Migrated
<1>10. CopyInv(Now)'
  BY <1>1, <1>3, <1>4, <1>8, <1>9 DEF CopyInv
<1>11. ToolInv' /\ RowsInv' /\ BackupsInv' /\ AdoptionInv' /\ Original(orig)'
  BY <1>1 DEF ToolInv, RowsInv, BackupsInv, AdoptionInv, Pristine
<1> QED
  BY <1>1, <1>2, <1>7, <1>10, <1>11

-----------------------------------------------------------------------------
(* The operator and Home Assistant *)

\* A rollback brings back what was there before, and forgets the applies.
LEMMA RollbackKept ==
  ASSUME MigrationInv, NEW d \in Dirs, Rollback(d)
  PROVE  MigrationInv'
<1> USE DEF MigrationInv
<1> DEFINE old == backups[d].files
<1>1. /\ pc = "idle" /\ ~ha /\ Pristine(d)
      /\ er' = old.er /\ dr' = old.dr /\ itemArea' = old.itemArea /\ fresh' = old.fresh
      /\ done' = "none" /\ restored' = FALSE /\ adopted' = backups[d].adopted
      /\ UNCHANGED <<backups, pc, apply, dir, rows, ha, mem, orig, runs>>
  BY DEF Rollback, tool
<1>2. /\ Registries(old) /\ ItemAreasOf(old, orig)
      /\ backups[d].adopted \in {"no", "early", "late"}
      /\ backups[d].adopted = "no" => old.fresh = {}
      /\ backups[d].adopted = "late" => NothingToMigrate(orig)
  BY <1>1 DEF TypeInv, BackupsInv
<1>3. old.er = orig.er /\ old.dr = orig.dr
  BY <1>1 DEF Pristine
<1> HIDE DEF old
<1>4. /\ Now'.er = orig.er /\ Now'.dr = orig.dr /\ Now'.itemArea = old.itemArea
      /\ Now'.fresh = old.fresh
  BY <1>1, <1>3 DEF Now
<1>5. Registries(Now') /\ ItemAreasOf(Now', orig)
  BY <1>2, <1>3, <1>4 DEF Registries, ItemAreasOf
<1>6. TypeInv'
  BY <1>1, <1>2, <1>5 DEF TypeInv
<1>7. Same(Now', orig)
  BY <1>4 DEF Same
<1>8. RowsOf(Now', orig) /\ AsMapped(Now', orig)
  BY <1>5, <1>7, UntouchedCopy
<1>9. CopyInv(Now)'
  BY <1>1, <1>2, <1>4, <1>7, <1>8 DEF CopyInv
<1>10. ToolInv' /\ RowsInv' /\ BackupsInv' /\ AdoptionInv' /\ Original(orig)'
  BY <1>1, <1>2 DEF ToolInv, RowsInv, BackupsInv, AdoptionInv, Pristine
<1> QED
  BY <1>1, <1>6, <1>9, <1>10

\* What was true of a copy is true of it after the entities were set up.
LEMMA SetUpInv ==
  ASSUME MigrationInv, NEW s, Registries(s), Copy(s), CopyInv(s), adopted # "no"
  PROVE  Registries(SetUp(s)) /\ Copy(SetUp(s)) /\ CopyInv(SetUp(s))
<1> DEFINE t == SetUp(s)
<1>1. Registries(t) /\ Copy(t) /\ t.dr = s.dr
  BY SetUpCopy
<1>2. /\ RowsOf(s, orig) => RowsOf(t, orig)
      /\ AsMapped(s, orig) => AsMapped(t, orig)
      /\ Applied(s, orig) => Applied(t, orig)
      /\ Restored(s, orig) => Restored(t, orig)
      /\ RowsOf(s, orig) /\ NoSecondRow(s) /\ CuMac = "normalized" => NoSecondRow(t)
      /\ RowsOf(s, orig) /\ Same(s, orig) => Same(t, orig)
  BY SetUpKeeps DEF MigrationInv
<1> HIDE DEF t
<1>3. CopyInv(t)
  BY <1>1, <1>2 DEF CopyInv
<1> QED
  BY <1>1, <1>3 DEF t

\* Home Assistant starts and sets the integration up, if it has it.
LEMMA HaStartsKept == MigrationInv /\ HaStarts => MigrationInv'
<1> SUFFICES ASSUME MigrationInv, HaStarts
             PROVE  MigrationInv'
  OBVIOUS
<1> USE DEF MigrationInv
<1>1. /\ ~ha /\ pc = "idle" /\ ha' = TRUE
      /\ mem' = (IF adopted = "no" THEN Now ELSE SetUp(Now))
      /\ UNCHANGED <<files, backups, pc, apply, dir, rows, adopted, orig, done, restored, runs>>
  BY DEF HaStarts, tool, history
<1>2. Now' = Now /\ UNCHANGED er
  BY <1>1 DEF files, Now
<1>3. Registries(mem') /\ Copy(mem') /\ CopyInv(mem')
  <2>1. Registries(Now) /\ Copy(Now) /\ CopyInv(Now)
    BY DEF TypeInv, Copy, Now
  <2> QED
    BY <1>1, <2>1, SetUpInv
<1>4. Kept => Kept'
  BY <1>1, KeptStays
<1>5. CopyInv(Now)' /\ CopyInv(mem)'
  BY <1>1, <1>2, <1>3, <1>4 DEF CopyInv
<1>6. TypeInv'
  BY <1>1, <1>2, <1>3 DEF TypeInv, Copy
<1>7. ToolInv' /\ RowsInv' /\ BackupsInv' /\ AdoptionInv' /\ Original(orig)'
  BY <1>1, <1>2 DEF ToolInv, RowsInv, BackupsInv, AdoptionInv, Pristine
<1> QED
  BY <1>5, <1>6, <1>7

\* The integration is set up for the first time.
LEMMA AddIntegrationKept == MigrationInv /\ AddIntegration => MigrationInv'
<1> SUFFICES ASSUME MigrationInv, AddIntegration
             PROVE  MigrationInv'
  OBVIOUS
<1> USE DEF MigrationInv
<1>1. /\ ha /\ adopted = "no" /\ adopted' = (IF done = "none" THEN "early" ELSE "late")
      /\ mem' = SetUp(mem)
      /\ UNCHANGED <<files, backups, pc, apply, dir, rows, ha, orig, done, restored, runs>>
  BY DEF AddIntegration, tool, history
<1>2. Now' = Now /\ UNCHANGED er
  BY <1>1 DEF files, Now
<1>3. Registries(mem) /\ Copy(mem) /\ CopyInv(mem)
  BY <1>1 DEF TypeInv, Copy
<1>4. Registries(mem') /\ Copy(mem') /\ mem'.dr = mem.dr
  BY <1>1, <1>3, SetUpCopy
<1>5. /\ RowsOf(mem, orig) => RowsOf(mem', orig)
      /\ AsMapped(mem, orig) => AsMapped(mem', orig)
      /\ Applied(mem, orig) => Applied(mem', orig)
      /\ Restored(mem, orig) => Restored(mem', orig)
      /\ RowsOf(mem, orig) /\ NoSecondRow(mem) /\ CuMac = "normalized" => NoSecondRow(mem')
      /\ RowsOf(mem, orig) /\ Same(mem, orig) => Same(mem', orig)
  BY <1>1, <1>3, SetUpKeeps
<1>6. NoSecondRow(Now) /\ NoSecondRow(mem)
  BY <1>1, <1>3 DEF CopyInv, NoSecondRow
<1>7. Kept => Kept'
  BY <1>1, <1>2, KeptAlike
<1>8. CopyInv(mem)'
  BY <1>1, <1>3, <1>4, <1>5, <1>6, <1>7 DEF CopyInv
<1>9. CopyInv(Now)'
  BY <1>1, <1>2, <1>6, <1>7 DEF CopyInv
<1>10. TypeInv'
  BY <1>1, <1>2, <1>4 DEF TypeInv, Copy
<1>11. ToolInv' /\ RowsInv' /\ BackupsInv' /\ AdoptionInv' /\ Original(orig)'
  BY <1>1, <1>2, <1>7 DEF ToolInv, RowsInv, BackupsInv, AdoptionInv, Pristine
<1> QED
  BY <1>8, <1>9, <1>10, <1>11

\* Home Assistant writes what it has in memory; no apply is under way meanwhile.
LEMMA HaStopsKept == MigrationInv /\ HaStops => MigrationInv'
<1> SUFFICES ASSUME MigrationInv, HaStops
             PROVE  MigrationInv'
  OBVIOUS
<1> USE DEF MigrationInv
<1>1. /\ ha /\ ha' = FALSE /\ mem' = Nothing
      /\ er' = mem.er /\ dr' = mem.dr /\ itemArea' = mem.itemArea /\ fresh' = mem.fresh
      /\ UNCHANGED <<backups, pc, apply, dir, rows, adopted, orig, done, restored, runs>>
  BY DEF HaStops, tool, history
<1>2. Now' = mem
  BY <1>1 DEF TypeInv, Now
<1>3. Kept => Kept'
  BY <1>1, KeptAlike
<1>4. CopyInv(Now)'
  BY <1>1, <1>2, <1>3 DEF CopyInv
<1>5. TypeInv'
  <2>1. mem' = [er |-> mem'.er, dr |-> mem'.dr, itemArea |-> mem'.itemArea,
                fresh |-> mem'.fresh]
    BY <1>1 DEF Nothing
  <2>2. Registries(mem')
    BY <1>1, NothingType
  <2> QED
    BY <1>1, <1>2, <2>1, <2>2 DEF TypeInv
<1>6. ToolInv' /\ RowsInv' /\ BackupsInv' /\ AdoptionInv' /\ Original(orig)'
  BY <1>1, <1>3 DEF ToolInv, RowsInv, BackupsInv, AdoptionInv, Pristine
<1> QED
  BY <1>1, <1>4, <1>5, <1>6

\* What a reboot takes was in /tmp, where no apply has its backup.
LEMMA RebootKept == MigrationInv /\ Reboot => MigrationInv'
<1> SUFFICES ASSUME MigrationInv, Reboot
             PROVE  MigrationInv'
  OBVIOUS
<1> USE DEF MigrationInv
<1>1. /\ backups' = [d \in Dirs |-> IF d \in TmpDirs THEN NoBackup ELSE backups[d]]
      /\ pc' = "idle" /\ apply' = FALSE /\ dir' = NoDir /\ DOMAIN rows' = {}
      /\ UNCHANGED <<files, home, orig, history, runs>>
  BY DEF Reboot, EndRun
<1>2. UNCHANGED <<ha, mem, adopted, done, restored>> /\ Now' = Now
  BY <1>1 DEF files, home, history, Now
<1>3. Kept => Kept'
  BY <1>1 DEF Kept, Pristine
<1>4. TypeInv'
  <2>1. \A d \in Dirs : /\ Registries(backups'[d].files)
                        /\ backups'[d].adopted \in {"no", "early", "late"}
    BY <1>1, NothingType DEF TypeInv, NoBackup
  <2> QED
    BY <1>1, <1>2, <2>1 DEF TypeInv
<1>5. BackupsInv'
  <2>1. /\ NoBackup.adopted = "no" /\ NoBackup.files.fresh = {}
        /\ ItemAreasOf(NoBackup.files, orig)
    BY DEF NoBackup, Nothing, ItemAreasOf
  <2> QED
    BY <1>1, <2>1 DEF BackupsInv, Pristine
<1>6. ToolInv' /\ RowsInv'
  BY <1>1 DEF ToolInv, RowsInv
<1> QED
  BY <1>1, <1>3, <1>4, <1>5, <1>6, CopiesKept

\* Every step keeps it.
LEMMA NextInv == MigrationInv /\ [Next]_vars => MigrationInv'
<1> SUFFICES ASSUME MigrationInv, [Next]_vars
             PROVE  MigrationInv'
  OBVIOUS
<1>1. CASE Crash
  BY <1>1, EndKept DEF Crash
<1>2. CASE UNCHANGED vars
  <2>1. UNCHANGED <<files, backups, pc, tool, home, orig, history, runs>>
    BY <1>2 DEF vars
  <2>2. /\ UNCHANGED <<er, apply, dir, rows, ha, mem, adopted, done, restored>> /\ Now' = Now
    BY <2>1 DEF files, tool, home, history, Now
  <2>3. Kept => Kept'
    BY <2>1, <2>2, KeptAlike
  <2>4. TypeInv' /\ ToolInv' /\ RowsInv' /\ BackupsInv'
    BY <2>1, <2>2, <2>3
       DEF MigrationInv, TypeInv, ToolInv, RowsInv, BackupsInv, Pristine
  <2> QED
    BY <2>1, <2>3, <2>4, CopiesKept DEF MigrationInv
<1> QED
  BY <1>1, <1>2, MigrateKept, CreateBackupKept, MapKept, ApplyEntitiesKept, CleanDevicesKept,
     RestoreAreasKept, RestoreEntityAreasKept, RestoreDeviceAreasKept, RollbackKept,
     HaStartsKept, AddIntegrationKept, HaStopsKept, RebootKept
     DEF Next

-----------------------------------------------------------------------------
(* Theorems *)

\* The invariant that the theorems below rest on, for any registries and mapping.
THEOREM Invariant == Spec => []MigrationInv
BY InitInv, NextInv, PTL DEF Spec

\* Disk, memory and backups hold registries at any time, and a row that was
\* migrated names an item of the CU.
THEOREM TypeCorrect == Spec => []TypeOK
<1>1. MigrationInv => TypeOK
  BY DEF MigrationInv, TypeInv, TypeOK
<1> QED
  BY <1>1, Invariant, PTL

\* While a registry on disk differs from what it was before the cutover, a backup
\* has what it was: runs that died, dry runs, rollbacks and reboots do not matter.
THEOREM BackupSurvives == Spec => []BackupKept
<1>1. MigrationInv => BackupKept
  BY DEF MigrationInv, CopyInv, Same, Now, Kept, BackupKept
<1> QED
  BY <1>1, Invariant, PTL

\* The invariant tells of each row of the first report what became of it.
LEMMA MappingFollows == MigrationInv => ConvergesToMapping
<1> SUFFICES ASSUME MigrationInv
             PROVE  ConvergesToMapping
  OBVIOUS
<1> USE DEF MigrationInv
<1>1. \A e \in DOMAIN er :
        /\ e \in Entities /\ RowOf(Now, orig, e)
        /\ er[e].platform = "switchbee" => er[e].uid.item \in Items
  BY DEF TypeInv, Registries, Now, CopyInv, RowsOf
<1>2. done # "again" =>
        /\ \A e \in Entities \ DOMAIN er : e \notin Foreign /\ Expected(e) = "delete"
        /\ \A e \in DOMAIN er : er[e].platform = "switchbee" => er[e].uid.item = Expected(e)
  BY DEF CopyInv, AsMapped, Target, Expected, Migrated, Now
<1>3. done # "again" => MigratedAsMapped
  BY <1>2 DEF MigratedAsMapped
<1>4. ASSUME done = "once" PROVE AppliedWhole
  <2>1. \A e \in Entities \ Foreign :
          /\ Expected(e) = "delete" => e \notin DOMAIN er
          /\ Expected(e) \in Items => e \in DOMAIN er /\ er[e].platform = "switchbee"
    BY <1>4 DEF CopyInv, Applied, Target, Expected, Migrated, Now
  <2> SUFFICES ASSUME NEW e \in Entities
               PROVE  LET target == IF e \in Foreign THEN "keep" ELSE Expected(e)
                      IN  /\ target = "delete" <=> e \notin DOMAIN er
                          /\ target = "keep" => er[e] = orig.er[e]
                          /\ target \in Items => er[e].platform = "switchbee"
    BY DEF AppliedWhole
  <2>2. CASE e \in Foreign
    <3>1. e \in DOMAIN er
      BY <1>2, <1>4, <2>2
    <3>2. er[e] = orig.er[e]
      BY <1>1, <2>2, <3>1 DEF RowOf, Now
    <3> QED
      BY <2>2, <3>1, <3>2, ItemAssumption
  <2>3. CASE e \notin Foreign
    <3>1. Expected(e) = "delete" <=> e \notin DOMAIN er
      BY <1>2, <1>4, <2>1, <2>3
    <3>2. ASSUME Expected(e) = "keep" PROVE er[e] = orig.er[e]
      <4>1. e \in DOMAIN er
        BY <3>1, <3>2
      <4>2. er[e].platform # "switchbee"
        BY <1>1, <1>2, <1>4, <3>2, <4>1, ItemAssumption
      <4> QED
        BY <1>1, <4>1, <4>2 DEF RowOf, Migrated, Now
    <3> QED
      BY <2>1, <2>3, <3>1, <3>2
  <2> QED
    BY <2>2, <2>3
<1> QED
  BY <1>3, <1>4 DEF ConvergesToMapping

\* Until a second apply starts, every migrated row is that of the item the first
\* report names, and after the first apply that ended all of the report is done
\* and nothing else, however many applies died before.
THEOREM Converges == Spec => []ConvergesToMapping
BY MappingFollows, Invariant, PTL

\* The invariant has the old area of an item either in the row or in the device.
LEMMA AreasFollow == MigrationInv => AreasComeBack
<1> SUFFICES ASSUME MigrationInv
             PROVE  AreasComeBack
  OBVIOUS
<1> USE DEF MigrationInv
<1> SUFFICES ASSUME restored, NEW e \in DOMAIN er,
                    er[e].platform = "switchbee", orig.er[e].area = NoArea,
                    SerialItem(orig.er[e], orig.dr) = er[e].uid.item
             PROVE  AreaOf(Now, e) = AreaOf(orig, e)
  BY DEF AreasComeBack
<1> DEFINE row == er[e]
           i == row.uid.item
           d == DeviceOf[e]
<1>1. i \in Items /\ e \in Entities /\ row.area \in MaybeArea
  BY DEF TypeInv, Registries, Now, Row
<1>2. orig.er[e].device = d /\ DOMAIN orig.dr = Devices
  BY <1>1 DEF Original
<1>3. d \in Devices /\ Serial[d] = i
  BY <1>1, <1>2, SerialAssumption DEF SerialItem
<1>4. OrigArea(orig, i) = orig.dr[d]
  <2>1. {x \in DOMAIN orig.dr : Serial[x] = i} = {d}
    BY <1>1, <1>2, <1>3, SerialAssumption
  <2> HIDE DEF i
  <2> QED
    BY <2>1 DEF OrigArea
<1>5. AreaOf(orig, e) = orig.dr[d]
  BY <1>2, <1>3 DEF AreaOf
<1>6. /\ row.area \in {NoArea, OrigArea(orig, i)}
      /\ row.device = "item" => i \in DOMAIN itemArea
      /\ row.device \in {NoDevice, "item"}
      /\ OrigArea(orig, i) \in {NoArea, row.area}
      /\ \A j \in DOMAIN itemArea : itemArea[j] \in {NoArea, OrigArea(orig, j)}
  BY DEF CopyInv, RowsOf, RowOf, ItemAreasOf, Restored, Migrated, Now
<1>7. row.device \notin DOMAIN dr
  <2>1. DOMAIN dr \subseteq Devices
    BY DEF TypeInv, Registries, Now
  <2> QED
    BY <1>6, <2>1, DeviceAssumption
<1>8. AreaOf(Now, e) = IF row.area # NoArea THEN row.area
                      ELSE IF row.device = "item" THEN itemArea[i] ELSE NoArea
  BY <1>7 DEF AreaOf, Now
<1> QED
  BY <1>4, <1>5, <1>6, <1>8

\* After restore_areas every migrated entity that took its area from its device is
\* shown in that area, from its row or from the device Home Assistant made for it.
THEOREM AreasRestored == Spec => []AreasComeBack
BY AreasFollow, Invariant, PTL

\* With the MAC in the form the integration uses, an integration that is set up
\* after a cutover that ended makes no second row for an entity that has one.
THEOREM MigratedRowsAdopted ==
  ASSUME CuMac = "normalized"
  PROVE  Spec => []RowsAdopted
<1>1. MigrationInv => RowsAdopted
  BY DEF MigrationInv, CopyInv, NoSecondRow, Migrated, RowsAdopted
<1> QED
  BY <1>1, Invariant, PTL

=============================================================================
