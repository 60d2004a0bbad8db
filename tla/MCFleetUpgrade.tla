--------------------------- MODULE MCFleetUpgrade ---------------------------
(* Three nodes at any of five versions, two of them not the .0 patch, on   *)
(* the way to a patch release three minors up.                             *)
EXTENDS FleetUpgrade

MCNode == 1..3

MCVersion == {V(1, 27, 3), V(1, 28, 0), V(1, 28, 4), V(1, 30, 1), V(1, 30, 2)}

MCStartVersions == [MCNode -> MCVersion]

MCTargetVersion == V(1, 30, 2)
=============================================================================
