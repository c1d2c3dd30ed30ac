\* Does the transfer script move the NFT the setup script reported?
CONSTANTS
    Alice = Alice
    Bob = Bob
    SovereignB = SovereignB
    NoOwner = NoOwner
    Null = Null
    NftsPalletIndex <- MCNftsPalletIndex
    IdWidth <- MCIdWidth
    IndexWidth <- MCIndexWidth
    ParaA <- MCParaA
    ParaB <- MCParaB
    Collections <- MCCollections
    Items <- MCItems
    MaxSetupRuns <- MCMaxSetupRuns
    MaxRuns <- MCMaxRuns
    InitialCollectionsB = 0
    MaxCollectionsB <- MCMaxCollectionsB
    InitialRegistry = {}
    RegisterTargets = {}
    NftBuysExecutionOnB = TRUE

SPECIFICATION Spec
CHECK_DEADLOCK FALSE

INVARIANT TransferTargetsSetupNft
