\* The script's report of the owner on A after the transfer.
CONSTANTS
    Alice = Alice
    Bob = Bob
    SovereignB = SovereignB
    NoOwner = NoOwner
    NftsPalletIndex <- MCNftsPalletIndex
    IdWidth <- MCIdWidth
    IndexWidth <- MCIndexWidth
    ParaA <- MCParaA
    ParaB <- MCParaB
    Collections <- MCCollections
    Items <- MCItems
    MaxRuns <- MCMaxRuns
    InitialCollectionsB <- MCPlainCollectionsB
    MaxCollectionsB <- MCMaxCollectionsB
    InitialRegistry <- MCNoRegistry
    RegisterTargets <- MCNoTargets
    NftBuysExecutionOnB = TRUE

SPECIFICATION Spec

\* The script ends after its last run; the chains then have nothing to do.
CHECK_DEADLOCK FALSE

INVARIANT LockedReportMeansLocked
