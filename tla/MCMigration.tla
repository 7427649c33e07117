----------------------------- MODULE MCMigration -----------------------------
(***************************************************************************)
(* A paired bridge with one row for each branch of the mapper: an identify *)
(* button and a light of the same accessory, a sensor that stays with      *)
(* homekit_controller, a switch without a serial number whose name two     *)
(* items have, and a row of another platform.  The sensor was renamed: its *)
(* old name is now that of the light's item.  One of the two items is a    *)
(* scene, whose entity cannot adopt the row of a switch.                   *)
(***************************************************************************)
EXTENDS Migration

CONSTANTS button, light, sensor, switch, foreign, lamp, probe, relay,
          lampItem, probeItem, relayItem, twinItem, hall, attic, noPlatform

AllEntities == {button, light, sensor, switch, foreign}
AllDevices == {lamp, probe, relay}
AllItems == {lampItem, probeItem, relayItem, twinItem}

DeviceOfEntity ==
  [e \in AllEntities |-> CASE e \in {button, light} -> lamp
                           [] e = sensor            -> probe
                           [] e = switch            -> relay
                           [] e = foreign           -> NoDevice]

SerialOfDevice ==
  [d \in AllDevices |-> CASE d = lamp  -> lampItem
                          [] d = probe -> probeItem
                          [] d = relay -> NoItem]

NamesOfEntity ==
  [e \in AllEntities |-> CASE e = switch -> {relayItem, twinItem}
                           [] e = sensor -> {lampItem}
                           [] OTHER      -> {}]

DomainOfEntity ==
  [e \in AllEntities |-> CASE e = button -> "button" [] e = light -> "light"
                           [] e = switch -> "switch" [] OTHER -> "sensor"]

PlatformOfItem ==
  [i \in AllItems |-> CASE i = lampItem  -> "light"  [] i = probeItem -> noPlatform
                        [] i = relayItem -> "switch" [] i = twinItem  -> "scene"]

ZoneOfItem == [i \in AllItems |-> IF i = twinItem THEN attic ELSE hall]

=============================================================================
