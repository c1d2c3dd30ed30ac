-------------------------- MODULE SetupCollections --------------------------
(***************************************************************************)
(* scripts/setup-collections.js: main() creates a collection on A as       *)
(* Alice, mints #1 and #2 to Alice and #3 to Bob, sets metadata on #1 and  *)
(* #2, then creates a collection on B as Bob, mints Bob's local #1 and     *)
(* sets its metadata, and prints a summary and "Setup complete!".          *)
(*                                                                         *)
(* Every call is an extrinsic awaited through signAndSubmit, which either  *)
(* resolves once the extrinsic is included (its dispatch succeeded or      *)
(* failed) or rejects (dropped, connection lost), in which case the catch  *)
(* exits the process whether or not the extrinsic took effect.             *)
(* createCollection returns the id of the Created event, or null; mintNft  *)
(* returns whether an Issued event was emitted and main() ignores it;      *)
(* setMetadata always returns true.  The user may run the script again.    *)
(***************************************************************************)
EXTENDS Naturals, Sequences, FiniteSets

CONSTANTS
    Alice, Bob,      \* the //Alice and //Bob signers
    NoOwner,         \* model value: no such item
    Null,            \* model value: createCollection's null
    Collections,     \* collection ids the model tracks on each chain
    Items,           \* item ids the model tracks in each collection
    MaxSetupRuns     \* how many times the user runs the setup script

ASSUME MaxSetupRuns \in Nat \ {0}

VARIABLES
    ownerA,          \* chain A: Nfts.Item owner per <<collection, item>>
    itemsB,          \* chain B: Nfts.Item owner per <<collection, item>>
    nextCollectionA, \* chain A: Nfts NextCollectionId
    nextCollectionB, \* chain B: Nfts NextCollectionId
    metadata,        \* both chains: <<chain, key>> with ItemMetadataOf set
    spc,             \* script: the call of main() it awaits, or where it ended
    collectionId,    \* script: collectionIdA and collectionIdB of main()
    setupRun         \* script: which run of the script this is

setupChainVars  == <<ownerA, itemsB, nextCollectionA, nextCollectionB, metadata>>
setupScriptVars == <<spc, collectionId, setupRun>>
setupVars == <<setupChainVars, setupScriptVars>>

Keys == Collections \X Items
Chains == {"A", "B"}

\* The calls of main(), in order; mints and metadata name the item of the
\* collection that the chain's createCollection returned.
SetupCalls ==
    << [chain |-> "A", op |-> "create"],
       [chain |-> "A", op |-> "mint", item |-> 1, to |-> Alice],
       [chain |-> "A", op |-> "mint", item |-> 2, to |-> Alice],
       [chain |-> "A", op |-> "mint", item |-> 3, to |-> Bob],
       [chain |-> "A", op |-> "metadata", item |-> 1],
       [chain |-> "A", op |-> "metadata", item |-> 2],
       [chain |-> "B", op |-> "create"],
       [chain |-> "B", op |-> "mint", item |-> 1, to |-> Bob],
       [chain |-> "B", op |-> "metadata", item |-> 1] >>

\* Where main() is: the call it awaits, the summary, or where it ended.
Summary  == Len(SetupCalls) + 1
Complete == Summary + 1
Exited   == 0

TypeOK ==
    /\ ownerA \in [Keys -> {Alice, Bob, NoOwner}]
    /\ itemsB \in [Keys -> {Alice, Bob, NoOwner}]
    /\ nextCollectionA \in Collections \cup {Cardinality(Collections)}
    /\ nextCollectionB \in Collections \cup {Cardinality(Collections)}
    /\ metadata \subseteq Chains \X Keys
    /\ spc \in Exited .. Complete
    /\ collectionId \in [Chains -> Collections \cup {Null}]
    /\ setupRun \in 1 .. MaxSetupRuns

\* Fresh chains: no collections, no items.
SetupInit ==
    /\ ownerA = [k \in Keys |-> NoOwner]
    /\ itemsB = [k \in Keys |-> NoOwner]
    /\ nextCollectionA = 0
    /\ nextCollectionB = 0
    /\ metadata = {}
    /\ spc = 1
    /\ collectionId = [ch \in Chains |-> Null]
    /\ setupRun = 1

-----------------------------------------------------------------------------
(***************************************************************************)
(* The ledgers of the two chains (pallet-nfts), as the calls change them.  *)
(***************************************************************************)

Owner(ch, k) == IF ch = "A" THEN ownerA[k] ELSE itemsB[k]
NextCollection(ch) == IF ch = "A" THEN nextCollectionA ELSE nextCollectionB

\* The item a call names: <<collectionIdX, itemId>>.
CallKey(c) == <<collectionId[c.chain], c.item>>

\* Whether the extrinsic of call c can dispatch successfully: a new id is
\* within the ids the model tracks; mint needs an existing collection and a
\* free item id; set_metadata needs the item.
Dispatchable(c) ==
    CASE c.op = "create"   -> NextCollection(c.chain) \in Collections
      [] c.op = "mint"     -> /\ CallKey(c) \in Keys
                              /\ CallKey(c)[1] < NextCollection(c.chain)
                              /\ Owner(c.chain, CallKey(c)) = NoOwner
      [] c.op = "metadata" -> /\ CallKey(c) \in Keys
                              /\ Owner(c.chain, CallKey(c)) # NoOwner

\* The chain state after the extrinsic of call c dispatched successfully.
Dispatch(c) ==
    /\ nextCollectionA' = IF c.op = "create" /\ c.chain = "A"
                          THEN nextCollectionA + 1 ELSE nextCollectionA
    /\ nextCollectionB' = IF c.op = "create" /\ c.chain = "B"
                          THEN nextCollectionB + 1 ELSE nextCollectionB
    /\ ownerA' = IF c.op = "mint" /\ c.chain = "A"
                 THEN [ownerA EXCEPT ![CallKey(c)] = c.to] ELSE ownerA
    /\ itemsB' = IF c.op = "mint" /\ c.chain = "B"
                 THEN [itemsB EXCEPT ![CallKey(c)] = c.to] ELSE itemsB
    /\ metadata' = IF c.op = "metadata"
                   THEN metadata \cup {<<c.chain, CallKey(c)>>} ELSE metadata

-----------------------------------------------------------------------------
(***************************************************************************)
(* The script.                                                             *)
(***************************************************************************)

\* spc names a call of main() whose result it awaits.
Calling == spc \in 1 .. Len(SetupCalls)
Call == SetupCalls[spc]

\* `if (collectionIdX !== null)`: a collection is known for the call's chain.
Guarded(c) == c.op = "create" \/ collectionId[c.chain] # Null

\* The mints and metadata of a chain whose createCollection returned null
\* are skipped.
Setup_Skip ==
    /\ Calling
    /\ ~Guarded(Call)
    /\ spc' = spc + 1
    /\ UNCHANGED <<setupChainVars, collectionId, setupRun>>

\* Mutant of Setup_Succeeded: createCollection takes the first collection,
\* 0, instead of the id of the Created event.
SucceededFirstCollection ==
    /\ Calling
    /\ Guarded(Call)
    /\ Dispatchable(Call)
    /\ Dispatch(Call)
    /\ collectionId' = IF Call.op = "create"
                       THEN [collectionId EXCEPT ![Call.chain] = 0]
                       ELSE collectionId
    /\ spc' = spc + 1
    /\ UNCHANGED setupRun

(***************************************************************************)
(* signAndSubmit resolves and the dispatch succeeded: createCollection     *)
(* finds the Created event and returns its collection id (the chain's      *)
(* NextCollectionId); mintNft finds Issued; setMetadata returns true.      *)
(***************************************************************************)
Setup_Succeeded ==
    /\ Calling
    /\ Guarded(Call)
    /\ Dispatchable(Call)
    /\ Dispatch(Call)
    /\ collectionId' = IF Call.op = "create"
                       THEN [collectionId EXCEPT ![Call.chain] = NextCollection(Call.chain)]
                       ELSE collectionId
    /\ spc' = spc + 1
    /\ UNCHANGED setupRun

\* signAndSubmit resolves but the dispatch failed (no Created or Issued
\* event): createCollection returns null, mintNft false, which main()
\* ignores, setMetadata true; nothing changes on the chain.
Setup_Failed ==
    /\ Calling
    /\ Guarded(Call)
    /\ spc' = spc + 1
    /\ UNCHANGED <<setupChainVars, collectionId, setupRun>>

\* signAndSubmit rejects: the catch prints the error and the process exits;
\* the extrinsic may have been included and dispatched all the same.
Setup_Rejected ==
    /\ Calling
    /\ Guarded(Call)
    /\ \/ Dispatchable(Call) /\ Dispatch(Call)
       \/ UNCHANGED setupChainVars
    /\ spc' = Exited
    /\ UNCHANGED <<collectionId, setupRun>>

\* The summary (queryNftOwner swallows its errors; only logged) and
\* "Setup complete! You can now run the transfer script."
Setup_Finish ==
    /\ spc = Summary
    /\ spc' = Complete
    /\ UNCHANGED <<setupChainVars, collectionId, setupRun>>

\* Mutant of Setup_Rerun: no bound on runs.
SetupRerunUnbounded ==
    /\ spc \in {Complete, Exited}
    /\ spc' = 1
    /\ collectionId' = [ch \in Chains |-> Null]
    /\ setupRun' = setupRun + 1
    /\ UNCHANGED setupChainVars

\* The user runs the setup script again: a fresh process on the same chains.
Setup_Rerun ==
    /\ spc \in {Complete, Exited}
    /\ setupRun < MaxSetupRuns
    /\ spc' = 1
    /\ collectionId' = [ch \in Chains |-> Null]
    /\ setupRun' = setupRun + 1
    /\ UNCHANGED setupChainVars

SetupNext ==
    \/ Setup_Skip \/ Setup_Succeeded \/ Setup_Failed \/ Setup_Rejected
    \/ Setup_Finish \/ Setup_Rerun

SetupSpec == SetupInit /\ [][SetupNext]_setupVars

-----------------------------------------------------------------------------
(***************************************************************************)
(* Properties.                                                             *)
(***************************************************************************)

\* The calls of main() already made in this run that mint item i on ch.
MintedThisRun(ch, i) ==
    \E j \in 1 .. Len(SetupCalls) :
        /\ Calling => j < spc
        /\ SetupCalls[j].op = "mint"
        /\ SetupCalls[j].chain = ch
        /\ SetupCalls[j].item = i

(***************************************************************************)
(* A fresh collection per run (spec §6 "event-stream ... used to confirm   *)
(* Created"): the collection a run mints into holds only the items that    *)
(* run minted, however earlier runs ended.  Taking the id from the Created *)
(* event is what keeps a rerun from minting into the collection of an      *)
(* earlier run.                                                            *)
(***************************************************************************)
FreshCollectionPerRun ==
    \A ch \in Chains, i \in Items :
        /\ collectionId[ch] # Null
        /\ Owner(ch, <<collectionId[ch], i>>) # NoOwner
        => MintedThisRun(ch, i)

(***************************************************************************)
(* Setup leaves what it reports (spec §6; "Setup complete! You can now run *)
(* the transfer script."): when main() prints it, both collections exist   *)
(* and every NFT of the plan is owned by the account it was minted to.     *)
(* mintNft's false and createCollection's null are not acted upon.         *)
(***************************************************************************)
SetupCompleteMeansMinted ==
    spc = Complete =>
        \A j \in 1 .. Len(SetupCalls) :
            LET c == SetupCalls[j] IN
            /\ collectionId[c.chain] # Null
            /\ c.op = "mint" => Owner(c.chain, CallKey(c)) = c.to

=============================================================================
