\* A registry entry onto the collection setup-collections.js made on B.
CONSTANTS
    Alice = Alice
    Bob = Bob
    SovereignB = SovereignB
    NoOwner = NoOwner
    NftsPalletIndex <- MCNftsPalletIndex
    IdWidth <- MCIdWidth
    IndexWidth <- MCIndexWidth
    ParaA <- MCParaA
    ParaB <- MCParaB
    Collections <- MCCollections
    Items <- MCItems
    MaxRuns <- MCMaxRuns
    InitialCollectionsB <- MCPlainCollectionsB
    MaxCollectionsB <- MCMaxCollectionsB
    InitialRegistry <- MCNoRegistry
    RegisterTargets <- MCSetupTargets
    NftBuysExecutionOnB = TRUE

SPECIFICATION Spec

\* The script ends after its last run; the chains then have nothing to do.
CHECK_DEADLOCK FALSE

INVARIANT DerivativeBackedByReserve
