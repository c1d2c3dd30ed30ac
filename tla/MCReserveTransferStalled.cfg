\* Does every run of the script end when chain A stops producing blocks?
CONSTANTS
    Alice = Alice
    Bob = Bob
    SovereignB = SovereignB
    NoOwner = NoOwner
    NftsPalletIndex <- MCNftsPalletIndex
    IdWidth <- MCIdWidth
    IndexWidth <- MCIndexWidth
    ParaA <- MCParaA
    ParaB <- MCParaB
    Collections <- MCCollections
    Items <- MCItems
    MaxRuns <- MCMaxRuns
    InitialCollectionsB <- MCRegisteredCollectionsB
    MaxCollectionsB <- MCMaxCollectionsB
    InitialRegistry <- MCRegisteredRegistry
    RegisterTargets <- MCRegisteredTargets
    NftBuysExecutionOnB = TRUE

SPECIFICATION SpecStalledA
CHECK_DEADLOCK FALSE

PROPERTY ScriptRunTerminates
