\* The transfer with the ReserveRegistry extension: safety and delivery.
CONSTANTS
    Alice = Alice
    Bob = Bob
    SovereignB = SovereignB
    NoOwner = NoOwner
    NftsPalletIndex <- MCNftsPalletIndex
    IdWidth <- MCIdWidth
    IndexWidth <- MCIndexWidth
    ParaA <- MCParaA
    ParaB <- MCParaB
    Collections <- MCCollections
    Items <- MCItems
    MaxRuns <- MCMaxRuns
    InitialCollectionsB <- MCRegisteredCollectionsB
    MaxCollectionsB <- MCMaxCollectionsB
    InitialRegistry <- MCRegisteredRegistry
    RegisterTargets <- MCRegisteredTargets
    NftBuysExecutionOnB = TRUE

SPECIFICATION Spec

\* The script ends after its last run; the chains then have nothing to do.
CHECK_DEADLOCK FALSE

INVARIANT TypeOK
INVARIANT DerivativeBackedByReserve
PROPERTY
    TransferredEventuallyUsable
    ScriptRunTerminates
    CustodyRefinement
