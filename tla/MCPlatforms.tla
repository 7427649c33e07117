----------------------------- MODULE MCPlatforms -----------------------------
(***************************************************************************)
(* An item of each kind of type, one that no platform takes, and a scene   *)
(* that dims the lamp and switches the boiler off.                         *)
(***************************************************************************)
EXTENDS Platforms

CONSTANTS boiler, lamp, blind, awning, evening, sensor

AllItems == {boiler, lamp, blind, awning, evening, sensor}

TypeOfItem ==
  [i \in AllItems |-> CASE i = boiler  -> "TIMED_POWER"
                        [] i = lamp    -> "DIMMER"
                        [] i = blind   -> "LOUVERED_SHUTTER"
                        [] i = awning  -> "SOMFY"
                        [] i = evening -> "ROLLING_SCENARIO"
                        [] i = sensor  -> "SENSOR"]

AllScenes ==
  [s \in {evening} |-> [i \in {boiler, lamp} |-> IF i = lamp THEN Number(40) ELSE Word("OFF")]]

=============================================================================
