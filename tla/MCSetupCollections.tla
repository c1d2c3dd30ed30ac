------------------------- MODULE MCSetupCollections -------------------------
(***************************************************************************)
(* The setup script for TLC: three collection ids per chain, one for each  *)
(* run, whether the run completed or exited after its create took effect,  *)
(* the three item ids main() mints, and three runs of the script.          *)
(***************************************************************************)
EXTENDS SetupCollections

MCCollections == 0 .. 2
MCItems == 1 .. 3
MCMaxSetupRuns == 3
=============================================================================
