\* The setup script over reruns, failed dispatches and rejected awaits.
CONSTANTS
    Alice = Alice
    Bob = Bob
    NoOwner = NoOwner
    Null = Null
    Collections <- MCCollections
    Items <- MCItems
    MaxSetupRuns <- MCMaxSetupRuns

INIT SetupInit
NEXT SetupNext

\* The script ends after its last run.
CHECK_DEADLOCK FALSE

INVARIANT TypeOK
INVARIANT FreshCollectionPerRun
