----------------------------- MODULE MCCoupled -----------------------------
(* Three components: one can fail while two others are started or stopped, *)
(* and a run can couple some of those the manifest names.                  *)
EXTENDS Coupled

CONSTANTS a, b, c
Three == {a, b, c}
=============================================================================
