--------------------------- MODULE MCSensorScripts ---------------------------
(* Two sensors and three runs of the scripts, in any order and overlap. *)
EXTENDS SensorScriptsProperties, TLC

CONSTANTS s1, s2, r1, r2, r3

MCSensors == {s1, s2}
MCRuns == {r1, r2, r3}

\* The scripts treat all sensors and all runs alike.
Symmetric == Permutations(MCSensors) \union Permutations(MCRuns)
=============================================================================
