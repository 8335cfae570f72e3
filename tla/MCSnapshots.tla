---------------------------- MODULE MCSnapshots ----------------------------
(* The rows on which Snapshots is model-checked.                           *)
EXTENDS Snapshots, TLC

CONSTANTS u, a

SplitAmounts == {-2, 1}
=============================================================================
