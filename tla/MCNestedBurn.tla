----------------------------- MODULE MCNestedBurn -----------------------------
(* NestedBurn with the answers of MCUpgradeProcess. *)
EXTENDS MCUpgradeProcess, NestedBurn
===============================================================================
