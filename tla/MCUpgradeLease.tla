-------------------------- MODULE MCUpgradeLease ----------------------------
(* Instances of UpgradeLease for TLC: two upgrades, one hop apart. *)
EXTENDS UpgradeLease, TLC

v27 == V(1, 27, 0)

Targets == "a" :> V(1, 28, 0) @@ "b" :> V(1, 29, 0)
=============================================================================
