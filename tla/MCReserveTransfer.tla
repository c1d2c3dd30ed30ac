------------------------- MODULE MCReserveTransfer --------------------------
(***************************************************************************)
(* Instances of the transfer for TLC: ids scaled to 3 bits (u32 in the     *)
(* code), two collections per chain plus one the B admin may create,       *)
(* items 1..3 as setup-collections.js mints them, and three runs of the    *)
(* script: a rerun after success or error, and one more after that.        *)
(***************************************************************************)
EXTENDS ReserveTransfer

MCNftsPalletIndex == 51
MCIdWidth == 3
MCIndexWidth == 5
MCParaA == 1000
MCParaB == 1001
MCCollections == 0 .. 2
MCItems == 1 .. 3
MCMaxRuns == 3

\* With the ReserveRegistry extension: the B admin created collection 1 for
\* A's NFTs and registered A's collection 0 on it before any transfer.
MCRegisteredCollectionsB == 2
MCRegisteredRegistry == {[foreign |-> ForeignCollection(0), local |-> 1]}
MCRegisteredTargets == {1, 2}

\* The runtime as the repository configures it: no registry, only the
\* collection setup-collections.js created on B.
MCPlainCollectionsB == 1
MCNoRegistry == {}
MCNoTargets == {}

\* The B admin registers A's collection on the collection the setup script
\* created on B "for receiving foreign NFTs".
MCSetupTargets == {0}

MCMaxCollectionsB == 3
=============================================================================
