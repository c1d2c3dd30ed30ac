--------------------------- MODULE ReserveTransfer ---------------------------
(***************************************************************************)
(* The cross-chain NFT reserve transfer of scripts/transfer-nft.js, with   *)
(* the two chains it drives.                                               *)
(*                                                                         *)
(*   script   main(): query the owner on A, submit                         *)
(*            limited_reserve_transfer_assets, await inclusion, sleep      *)
(*            12 s, query the owner on A and the collections of B, print   *)
(*            "Transfer Complete!".  A thrown error exits the process.     *)
(*            The user may run the script again (at most MaxRuns times).   *)
(*   chain A  includes the extrinsic: NftsMatcher identifies the asset,    *)
(*            NftsBridge::transfer moves the item to the sovereign account *)
(*            of B, and ReserveAssetDeposited is queued to B over HRMP.    *)
(*   HRMP     an ordered, reliable channel A -> B.                         *)
(*   chain B  executes the message: IsReserveAsset must trust the origin,  *)
(*            then the asset is deposited into the beneficiary through     *)
(*            NftsMatcher or, where the ReserveRegistry extension of the   *)
(*            spec (§4.5) maps the foreign collection, as a derivative;    *)
(*            otherwise execution fails and the asset is trapped.          *)
(*                                                                         *)
(* The state of A and B is the state of their pallet-nfts Item storage     *)
(* after scripts/setup-collections.js has run on fresh chains.             *)
(***************************************************************************)
EXTENDS NftAsset, FiniteSets

CONSTANTS
    Alice, Bob,        \* the //Alice signer and the //Bob recipient
    SovereignB,        \* sovereign account of parachain B on A
    NoOwner,           \* model value: no such item (queryNftOwner's null)
    ParaA, ParaB,      \* PARACHAIN_A_ID, PARACHAIN_B_ID
    Collections,       \* collection ids the model tracks on each chain
    Items,             \* item ids the model tracks in each collection
    MaxRuns,           \* how many times the user runs the transfer script
    InitialCollectionsB, \* collections that exist on B at the start
    MaxCollectionsB,   \* bound on collections created on B
    InitialRegistry,   \* ReserveRegistry entries present at the start
    RegisterTargets,   \* local collections the B admin may register
    NftBuysExecutionOnB \* B's barrier and trader accept the NFT as fees

ASSUME MaxRuns \in Nat \ {0}
ASSUME InitialCollectionsB <= MaxCollectionsB
ASSUME NftBuysExecutionOnB \in BOOLEAN

VARIABLES
    ownerA,          \* chain A: Nfts.Item owner per <<collection, item>>
    txStatus,        \* chain A: the extrinsic of each script run
    hrmp,            \* XCMP channel A -> B: queued XCM messages
    itemsB,          \* chain B: Nfts.Item owner per <<collection, item>>
    nextCollectionB, \* chain B: Nfts NextCollectionId
    registry,        \* chain B: ReserveRegistry entries (spec §4.5)
    trapped,         \* chain B: messages whose execution failed
    pc,              \* script: where main() is
    run,             \* script: which run of the script this is
    ownerBefore,     \* script: queryNftOwner(apiA, 0, 1) before the transfer
    ownerAfter       \* script: queryNftOwner(apiA, 0, 1) after the sleep

chainVars  == <<ownerA, txStatus, hrmp, itemsB, nextCollectionB, registry, trapped>>
scriptVars == <<pc, run, ownerBefore, ownerAfter>>
vars == <<chainVars, scriptVars>>

Accounts == {Alice, Bob, SovereignB}
Keys == Collections \X Items
Runs == 1 .. MaxRuns

\* The transfer main() performs: collectionId = 0, itemId = 1, from Alice
\* to Bob on parachain B.
TransferKey == <<0, 1>>
TheCall ==
    [dest        |-> BuildDestination(ParaB),
     beneficiary |-> BuildBeneficiary(Bob),
     assets      |-> BuildNftAsset(TransferKey[1], TransferKey[2])]

\* Location of A as B sees it, and of an asset of A once reanchored to B.
OriginA == Location(1, <<Parachain(ParaA)>>)
Reanchored(a) == Asset(Location(1, <<Parachain(ParaA)>> \o a.id.interior), a.fun)
ForeignCollection(c) == Location(1, <<Parachain(ParaA), PalletInstance(NftsPalletIndex),
                                      GeneralIndex(c)>>)

\* LocationToAccountId on a beneficiary (0, [AccountId32(id)]).
BeneficiaryAccount(loc) == loc.interior[1].value

Message == [origin : {OriginA}, asset : {Reanchored(TheCall.assets)},
            beneficiary : {TheCall.beneficiary}]
RegistryEntry == [foreign : {ForeignCollection(c) : c \in Collections}, local : Collections]

PcValues == {"queryBefore", "submit", "awaitInclusion", "sleeping", "queryAfter",
             "queryCount", "done", "exited"}

TypeOK ==
    /\ ownerA \in [Keys -> Accounts \cup {NoOwner}]
    /\ txStatus \in [Runs -> {"none", "pending", "ok", "failed", "dropped"}]
    /\ hrmp \in Seq(Message)
    /\ itemsB \in [Keys -> Accounts \cup {NoOwner}]
    /\ nextCollectionB \in 0 .. MaxCollectionsB
    /\ registry \subseteq RegistryEntry
    /\ trapped \in 0 .. MaxRuns
    /\ pc \in PcValues
    /\ run \in Runs
    /\ ownerBefore \in Accounts \cup {NoOwner}
    /\ ownerAfter \in Accounts \cup {NoOwner}

(***************************************************************************)
(* After setup-collections.js: on A collection 0 holds NFT #1 and #2 of    *)
(* Alice and #3 of Bob; on B collection 0 holds Bob's local NFT #1.        *)
(***************************************************************************)
Init ==
    /\ ownerA = [k \in Keys |-> CASE k = <<0, 1>> -> Alice
                                  [] k = <<0, 2>> -> Alice
                                  [] k = <<0, 3>> -> Bob
                                  [] OTHER        -> NoOwner]
    /\ txStatus = [r \in Runs |-> "none"]
    /\ hrmp = <<>>
    /\ itemsB = [k \in Keys |-> IF k = <<0, 1>> THEN Bob ELSE NoOwner]
    /\ nextCollectionB = InitialCollectionsB
    /\ registry = InitialRegistry
    /\ trapped = 0
    /\ pc = "queryBefore"
    /\ run = 1
    /\ ownerBefore = NoOwner
    /\ ownerAfter = NoOwner

-----------------------------------------------------------------------------
(***************************************************************************)
(* The script.                                                             *)
(***************************************************************************)

\* queryNftOwner: the owner, or null when the query throws (error swallowed).
QueryOwner(v) == v' \in {ownerA[TransferKey], NoOwner}

Script_QueryBefore ==
    /\ pc = "queryBefore"
    /\ QueryOwner(ownerBefore)
    /\ pc' = "submit"
    /\ UNCHANGED <<chainVars, run, ownerAfter>>

\* transferNftToSibling: build dest, beneficiary and assets, sign and submit.
Script_Submit ==
    /\ pc = "submit"
    /\ txStatus' = [txStatus EXCEPT ![run] = "pending"]
    /\ pc' = "awaitInclusion"
    /\ UNCHANGED <<ownerA, hrmp, itemsB, nextCollectionB, registry, trapped,
                   run, ownerBefore, ownerAfter>>

\* signAndSubmit resolves on inclusion, whether the extrinsic succeeded or
\* failed; the result is only logged.
\* Mutant of Script_Included: only a successful extrinsic settles the await.
IncludedOkOnly ==
    /\ pc = "awaitInclusion"
    /\ txStatus[run] = "ok"
    /\ pc' = "sleeping"
    /\ UNCHANGED <<chainVars, run, ownerBefore, ownerAfter>>

Script_Included ==
    /\ pc = "awaitInclusion"
    /\ txStatus[run] \in {"ok", "failed"}
    /\ pc' = "sleeping"
    /\ UNCHANGED <<chainVars, run, ownerBefore, ownerAfter>>

\* signAndSubmit rejects because the pool dropped the extrinsic: the catch
\* in main() prints the error and the process exits.
Script_Rejected ==
    /\ pc = "awaitInclusion"
    /\ txStatus[run] = "dropped"
    /\ pc' = "exited"
    /\ UNCHANGED <<chainVars, run, ownerBefore, ownerAfter>>

\* signAndSubmit rejects because the connection is lost, at any time: the
\* process exits through the same catch; the extrinsic may still be pending.
Script_SubmitError ==
    /\ pc = "awaitInclusion"
    /\ pc' = "exited"
    /\ UNCHANGED <<chainVars, run, ownerBefore, ownerAfter>>

\* setTimeout(resolve, 12000): a fixed delay, with no relation to B.
Script_Wake ==
    /\ pc = "sleeping"
    /\ pc' = "queryAfter"
    /\ UNCHANGED <<chainVars, run, ownerBefore, ownerAfter>>

Script_QueryAfter ==
    /\ pc = "queryAfter"
    /\ QueryOwner(ownerAfter)
    /\ pc' = "queryCount"
    /\ UNCHANGED <<chainVars, run, ownerBefore>>

\* queryCollectionCount(apiB) (0 on error, only logged), then the script
\* prints "Transfer Complete!" unconditionally.
Script_Finish ==
    /\ pc = "queryCount"
    /\ pc' = "done"
    /\ UNCHANGED <<chainVars, run, ownerBefore, ownerAfter>>

\* Mutant of Script_Rerun: no bound on runs.
Script_RerunUnbounded ==
    /\ pc \in {"done", "exited"}
    /\ run' = run + 1
    /\ pc' = "queryBefore"
    /\ ownerBefore' = NoOwner
    /\ ownerAfter' = NoOwner
    /\ UNCHANGED chainVars

\* The user runs the script again: a fresh process, the same parameters.
Script_Rerun ==
    /\ pc \in {"done", "exited"}
    /\ run < MaxRuns
    /\ run' = run + 1
    /\ pc' = "queryBefore"
    /\ ownerBefore' = NoOwner
    /\ ownerAfter' = NoOwner
    /\ UNCHANGED chainVars

-----------------------------------------------------------------------------
(***************************************************************************)
(* Chain A: the limited_reserve_transfer_assets extrinsic of run r.        *)
(***************************************************************************)

\* The XCM router has a channel to B only, and LocationToAccountId names a
\* sovereign account for a sibling only: dest must be (1, [Parachain(B)]).
Routable(dest) == dest = BuildDestination(ParaB)

\* The item NftsMatcher identifies in the call's asset, if it exists on A.
WithdrawKey(a) ==
    LET m == MatchesNonFungibles(a) IN
    IF m.tag = "Ok" /\ <<m.collection, m.item>> \in Keys
    THEN <<m.collection, m.item>> ELSE <<>>

CanTransfer(call) ==
    /\ WithdrawKey(call.assets) # <<>>
    /\ ownerA[WithdrawKey(call.assets)] # NoOwner
    /\ Routable(call.dest)

XcmFor(call) ==
    [origin |-> OriginA, asset |-> Reanchored(call.assets),
     beneficiary |-> call.beneficiary]

\* Mutant of ChainA_IncludeOk: the message is sent but the item not moved.
IncludeOkNoLock(r) ==
    /\ txStatus[r] = "pending"
    /\ CanTransfer(TheCall)
    /\ hrmp' = Append(hrmp, XcmFor(TheCall))
    /\ txStatus' = [txStatus EXCEPT ![r] = "ok"]
    /\ UNCHANGED <<ownerA, itemsB, nextCollectionB, registry, trapped, scriptVars>>

(***************************************************************************)
(* The extrinsic succeeds: NftsBridge::transfer (do_transfer with a no-op  *)
(* check, so whoever owns the item) moves it to B's sovereign account, and *)
(* the ReserveAssetDeposited program is queued to B.                       *)
(***************************************************************************)
ChainA_IncludeOk(r) ==
    /\ txStatus[r] = "pending"
    /\ CanTransfer(TheCall)
    /\ ownerA' = [ownerA EXCEPT ![WithdrawKey(TheCall.assets)] = SovereignB]
    /\ hrmp' = Append(hrmp, XcmFor(TheCall))
    /\ txStatus' = [txStatus EXCEPT ![r] = "ok"]
    /\ UNCHANGED <<itemsB, nextCollectionB, registry, trapped, scriptVars>>

\* The extrinsic is included but fails (SubmissionRejected: unknown asset or
\* item, unroutable dest, fees, weight); nothing changes on A.
ChainA_IncludeFailed(r) ==
    /\ txStatus[r] = "pending"
    /\ txStatus' = [txStatus EXCEPT ![r] = "failed"]
    /\ UNCHANGED <<ownerA, hrmp, itemsB, nextCollectionB, registry, trapped, scriptVars>>

\* The transaction pool drops the extrinsic (invalid, mortality expired).
ChainA_Drop(r) ==
    /\ txStatus[r] = "pending"
    /\ txStatus' = [txStatus EXCEPT ![r] = "dropped"]
    /\ UNCHANGED <<ownerA, hrmp, itemsB, nextCollectionB, registry, trapped, scriptVars>>

-----------------------------------------------------------------------------
(***************************************************************************)
(* Chain B: execution of the message at the head of the channel.           *)
(***************************************************************************)

\* Where the NftsTransactor deposits an asset: a local NFT NftsMatcher
\* identifies, or the derivative of a registered foreign collection.
DepositKey(a) ==
    LET m == MatchesNonFungibles(a)
        hits == {e \in registry : e.foreign = a.id}
    IN
    IF m.tag = "Ok" THEN <<m.collection, m.item>>
    ELSE IF hits # {} /\ a.fun.type = "NonFungible" /\ a.fun.value.type = "Index"
         THEN <<(CHOOSE e \in hits : TRUE).local, a.fun.value.value>>
         ELSE <<>>

\* The program B runs: ReserveAssetDeposited (the reserve filter),
\* ClearOrigin, BuyExecution with the NFT as fees (fee_asset_item: 0), and
\* DepositAsset.  Whether BuyExecution succeeds depends on B's Barrier and
\* Trader, which the repository does not configure: NftBuysExecutionOnB.
CanDeposit(msg) ==
    LET k == DepositKey(msg.asset) IN
    /\ IsReserveAsset(msg.asset, msg.origin)
    /\ NftBuysExecutionOnB
    /\ k \in Keys
    /\ k[1] < nextCollectionB
    /\ itemsB[k] = NoOwner

\* ReserveAssetDeposited is trusted and the derivative is minted to the
\* beneficiary.
ChainB_Deposit ==
    /\ hrmp # <<>>
    /\ CanDeposit(Head(hrmp))
    /\ itemsB' = [itemsB EXCEPT ![DepositKey(Head(hrmp).asset)] =
                                    BeneficiaryAccount(Head(hrmp).beneficiary)]
    /\ hrmp' = Tail(hrmp)
    /\ UNCHANGED <<ownerA, txStatus, nextCollectionB, registry, trapped, scriptVars>>

\* Execution fails (UntrustedReserveLocation, TooExpensive, AssetNotHandled,
\* unknown collection, item already exists): the asset is trapped on B.
ChainB_Trap ==
    /\ hrmp # <<>>
    /\ ~CanDeposit(Head(hrmp))
    /\ trapped' = trapped + 1
    /\ hrmp' = Tail(hrmp)
    /\ UNCHANGED <<ownerA, txStatus, itemsB, nextCollectionB, registry, scriptVars>>

\* createCollection on B (Nfts.create): NextCollectionId is the new id.
ChainB_CreateCollection ==
    /\ nextCollectionB < MaxCollectionsB
    /\ nextCollectionB' = nextCollectionB + 1
    /\ UNCHANGED <<ownerA, txStatus, hrmp, itemsB, registry, trapped, scriptVars>>

(***************************************************************************)
(* ReserveRegistry.register (spec §4.5): AlreadyMapped if the foreign      *)
(* location has an entry, CollectionInUse if the local collection is the   *)
(* target of another; check and insert are one atomic step.                *)
(***************************************************************************)
ChainB_Register(foreign, local) ==
    /\ ~\E e \in registry : e.foreign = foreign
    /\ ~\E e \in registry : e.local = local
    /\ registry' = registry \cup {[foreign |-> foreign, local |-> local]}
    /\ UNCHANGED <<ownerA, txStatus, hrmp, itemsB, nextCollectionB, trapped, scriptVars>>

-----------------------------------------------------------------------------
Next ==
    \/ Script_QueryBefore \/ Script_Submit \/ Script_Included
    \/ Script_Rejected \/ Script_SubmitError \/ Script_Wake \/ Script_QueryAfter
    \/ Script_Finish \/ Script_Rerun
    \/ \E r \in Runs : ChainA_IncludeOk(r) \/ ChainA_IncludeFailed(r) \/ ChainA_Drop(r)
    \/ ChainB_Deposit \/ ChainB_Trap \/ ChainB_CreateCollection
    \/ \E c \in Collections, l \in RegisterTargets :
           ChainB_Register(ForeignCollection(c), l)

(***************************************************************************)
(* Both chains keep producing blocks: a pending extrinsic is eventually    *)
(* included or dropped, and B eventually executes the message at the head  *)
(* of its inbound queue.  A started script is a running node process: it   *)
(* takes its next step once the promise it awaits settles.  Starting it    *)
(* again, losing the connection and the B admin get no fairness.           *)
(***************************************************************************)
ScriptStep ==
    \/ Script_QueryBefore \/ Script_Submit \/ Script_Included \/ Script_Rejected
    \/ Script_Wake \/ Script_QueryAfter \/ Script_Finish

Fairness ==
    /\ \A r \in Runs :
           WF_vars(ChainA_IncludeOk(r) \/ ChainA_IncludeFailed(r) \/ ChainA_Drop(r))
    /\ WF_vars(ChainB_Deposit \/ ChainB_Trap)
    /\ WF_vars(ScriptStep)

Spec == Init /\ [][Next]_vars /\ Fairness

\* The same system when chain A stops producing blocks (its collators halt
\* or it loses its slot): A's handling of a pending extrinsic is no longer
\* guaranteed, and the connection is not lost either.
SpecStalledA ==
    /\ Init /\ [][Next]_vars
    /\ WF_vars(ChainB_Deposit \/ ChainB_Trap)
    /\ WF_vars(ScriptStep)

-----------------------------------------------------------------------------
(***************************************************************************)
(* Properties.                                                             *)
(***************************************************************************)

\* Owner on B of the derivative of A's item <<c, i>>: the item of the local
\* collection the registry maps A's collection c to.
DerivativeOwner(c, i) ==
    LET hits == {e \in registry : e.foreign = ForeignCollection(c)} IN
    IF hits = {} THEN NoOwner ELSE itemsB[<<(CHOOSE e \in hits : TRUE).local, i>>]

(***************************************************************************)
(* Reserve backing (spec §1, README "Reserve Transfer"): whenever B holds  *)
(* a derivative of an NFT of A, that NFT is locked in B's sovereign        *)
(* account on A, so it cannot be used on both chains.  Breaks if A sends   *)
(* the message without moving the item, if B mints for a message it does   *)
(* not trust, or if a registered collection already holds items.           *)
(***************************************************************************)
DerivativeBackedByReserve ==
    \A c \in Collections, i \in Items :
        DerivativeOwner(c, i) # NoOwner => ownerA[<<c, i>>] = SovereignB

(***************************************************************************)
(* Delivery (README "Cross-Chain NFT Transfer Flow", spec §8 happy path):  *)
(* once A has locked the NFT for B, Bob eventually owns its derivative on  *)
(* B; chains that keep producing blocks must carry the transfer through.   *)
(***************************************************************************)
TransferredEventuallyUsable ==
    ownerA[TransferKey] = SovereignB ~> DerivativeOwner(TransferKey[1], TransferKey[2]) = Bob

(***************************************************************************)
(* Termination (spec §5 "No operation blocks ... indefinitely"): every run *)
(* of main() ends, printing its report or exiting through the catch.  The  *)
(* await on signAndSubmit has no timeout of its own, so this rests on A    *)
(* settling every extrinsic (included, failed or dropped).                 *)
(***************************************************************************)
ScriptRunTerminates ==
    pc \notin {"done", "exited"} ~> pc \in {"done", "exited"}

(***************************************************************************)
(* Settlement before success (spec §4.3, §9): when the script prints       *)
(* "Transfer Complete!" the NFT is locked on A and Bob owns the derivative *)
(* on B.  main() decides this after a fixed 12 s sleep.                    *)
(***************************************************************************)
CompleteMeansSettled ==
    pc = "done" =>
        /\ ownerA[TransferKey] = SovereignB
        /\ DerivativeOwner(TransferKey[1], TransferKey[2]) = Bob

(***************************************************************************)
(* Idempotency guard (spec §4.3, §8 "No double-spend"): the script never   *)
(* submits the transfer after it has seen the item held by the sovereign   *)
(* account, i.e. a transfer that is or was already in flight.              *)
(***************************************************************************)
NoResubmissionWhileReserved ==
    pc = "awaitInclusion" => ownerBefore # SovereignB

(***************************************************************************)
(* "Transferred/Locked" is true (spec §4.4, §7: absence of an item is      *)
(* never conflated with a query failure): main() prints it when the        *)
(* queryNftOwner after the sleep returned null, so the item must then no   *)
(* longer be Alice's.  queryNftOwner returns null for a failed query as    *)
(* for a missing item.                                                     *)
(***************************************************************************)
LockedReportMeansLocked ==
    pc = "queryCount" /\ ownerAfter = NoOwner => ownerA[TransferKey] # Alice

-----------------------------------------------------------------------------
(***************************************************************************)
(* Refinement: where the NFT of the transfer is, as NftCustody sees it.    *)
(* A derivative on B puts it at the destination; otherwise, locked in B's  *)
(* sovereign account with a message queued it is in flight; locked with    *)
(* nothing queued it has been lost; else it is at the source.              *)
(***************************************************************************)
CustodyOf ==
    CASE DerivativeOwner(TransferKey[1], TransferKey[2]) # NoOwner -> "destination"
      [] ownerA[TransferKey] = SovereignB /\ hrmp # <<>>         -> "inFlight"
      [] ownerA[TransferKey] = SovereignB                        -> "lost"
      [] OTHER                                                   -> "source"

HolderOf ==
    CASE CustodyOf = "destination" -> DerivativeOwner(TransferKey[1], TransferKey[2])
      [] CustodyOf = "source"      -> ownerA[TransferKey]
      [] OTHER                     -> NoOwner

RecipientOf ==
    CASE CustodyOf = "source"   -> NoOwner
      [] CustodyOf = "inFlight" -> BeneficiaryAccount(Head(hrmp).beneficiary)
      [] OTHER                  -> HolderOf

Custody == INSTANCE NftCustody
    WITH custody <- CustodyOf, holder <- HolderOf, recipient <- RecipientOf,
         Accounts <- {Alice, Bob}, NoHolder <- NoOwner

(***************************************************************************)
(* The transfer implements NftCustody: the NFT reaches B only through a    *)
(* lock on A for the recipient of the message, B credits that recipient,   *)
(* nothing moves it back or lets it be used twice, and a locked NFT is     *)
(* delivered.  Reruns, failed and dropped extrinsics and lost connections  *)
(* of the script must all be stuttering steps or one of these.             *)
(***************************************************************************)
CustodyRefinement == Custody!Spec

=============================================================================
