------------------------ MODULE MCSetupThenTransfer -------------------------
(***************************************************************************)
(* Setup followed by the transfer for TLC: the bounds of MCSetupCollections*)
(* and MCReserveTransfer, one run of the transfer script, no registry.     *)
(***************************************************************************)
EXTENDS SetupThenTransfer

MCNftsPalletIndex == 51
MCIdWidth == 3
MCIndexWidth == 5
MCParaA == 1000
MCParaB == 1001
MCCollections == 0 .. 2
MCItems == 1 .. 3
MCMaxSetupRuns == 2
MCMaxRuns == 1
MCMaxCollectionsB == 3
=============================================================================
