------------------------- MODULE SetupThenTransfer -------------------------
(***************************************************************************)
(* The tutorial as a user runs it: scripts/setup-collections.js on fresh   *)
(* chains, as many times as it takes, then scripts/transfer-nft.js.  The   *)
(* two scripts share only the chains: setup reports the collection ids it  *)
(* got from the Created events, the transfer script moves the hard-coded   *)
(* collectionId = 0, itemId = 1.                                           *)
(***************************************************************************)
EXTENDS Naturals, Sequences

CONSTANTS
    Alice, Bob, SovereignB, NoOwner, Null, ParaA, ParaB,
    NftsPalletIndex, IdWidth, IndexWidth,
    Collections, Items, MaxSetupRuns, MaxRuns,
    InitialCollectionsB, MaxCollectionsB, InitialRegistry, RegisterTargets,
    NftBuysExecutionOnB

VARIABLES
    ownerA, itemsB, nextCollectionA, nextCollectionB, metadata,
    spc, collectionId, setupRun,
    txStatus, hrmp, registry, trapped, pc, run, ownerBefore, ownerAfter

Setup    == INSTANCE SetupCollections
Transfer == INSTANCE ReserveTransfer

setupOnlyVars    == <<nextCollectionA, metadata, spc, collectionId, setupRun>>
transferOnlyVars == <<txStatus, hrmp, registry, trapped, pc, run, ownerBefore, ownerAfter>>

\* The transfer script has not been started yet.
TransferNotStarted == pc = "queryBefore" /\ run = 1

\* No setup process is running.
SetupIdle == spc \in {Setup!Complete, Setup!Exited}

Init ==
    /\ Setup!SetupInit
    /\ txStatus = [r \in Transfer!Runs |-> "none"]
    /\ hrmp = <<>>
    /\ registry = InitialRegistry
    /\ trapped = 0
    /\ pc = "queryBefore"
    /\ run = 1
    /\ ownerBefore = NoOwner
    /\ ownerAfter = NoOwner

\* The user runs the setup script (again) before the transfer script; the
\* chains and the B admin act once no setup process is running.
Next ==
    \/ TransferNotStarted /\ Setup!SetupNext /\ UNCHANGED transferOnlyVars
    \/ SetupIdle /\ Transfer!Next /\ UNCHANGED setupOnlyVars

Spec == Init /\ [][Next]_<<Setup!setupVars, transferOnlyVars>>

(***************************************************************************)
(* The transfer moves the NFT setup minted (transfer-nft.js "First         *)
(* collection created", "First NFT"; setup-collections.js "You can now run *)
(* the transfer script"): when setup has printed "Setup complete!" after   *)
(* minting Alice's #1 into the collection its Created event named, the     *)
(* item the transfer script is about to move is Alice's.                   *)
(***************************************************************************)
TransferTargetsSetupNft ==
    /\ TransferNotStarted
    /\ spc = Setup!Complete
    /\ collectionId["A"] # Null
    /\ ownerA[<<collectionId["A"], 1>>] = Alice
    => ownerA[Transfer!TransferKey] = Alice

=============================================================================
