# TLA+ models of the NonFungible adapter tutorial

This directory holds TLA+ models of the cross-chain NFT transfer in this
repository. The models are checked with TLC. The repository has two kinds of
code. The JavaScript scripts `src/scripts/transfer-nft.js` and
`src/scripts/setup-collections.js` (with `src/unnamed/part_001`) drive two
parachains through PAPI. The runtime configuration is given as Rust in the
READMEs (`src/README.md`, `src/unnamed/part_000`): `NftsMatcher`,
`NftsTransactor`, `NftsFromSiblings`/`IsReserveAsset`, `NftsBridge` and the
`ForeignNfts` registry. `spec.md` restates the same system as components, and
this inventory uses its names.

## Inventory

| Component | State | Operations | Source |
|---|---|---|---|
| AssetLocation model | none (values) | `buildDestination`, `buildBeneficiary`, `buildNftAsset` | transfer-nft.js 384-453 |
| AssetMatcher | none (pure) | `NftsMatcher::matches_nonfungibles` | part_000 220-232 |
| ReserveAcceptancePolicy | none (pure) | `NftsFromSiblings::contains`, `IsReserveAsset` | part_000 256-272 |
| TransferOrchestrator | where `main()` is, owners it read | query owner, submit, await inclusion, sleep, query owner and count, report, error exit; reruns | transfer-nft.js 455-616 |
| ChainStateObserver | none (reads the chains) | `queryNftOwner`, `queryCollectionCount` | transfer-nft.js 499-525 |
| Source ledger A | `Nfts.Item` owners, transaction pool | the `limited_reserve_transfer_assets` extrinsic through `NftsTransactor`/`NftsBridge` | part_000 235-248, 360-380 |
| HRMP channel A to B | queued XCM programs | send, deliver in order | part_000 283-301 |
| Destination ledger B | `Nfts.Item` owners, `NextCollectionId`, trapped assets | execute `ReserveAssetDeposited` then deposit or trap; `createCollection` | part_000 256-301, setup-collections.js 68-102 |
| ReserveRegistry | foreign location to local collection | `register`, `resolve` (spec §4.5; the code only names `ForeignNfts`) | part_000 382-389 |
| Collection setup | collections and items on both chains | `createCollection`, `mintNft`, `setMetadata`, `queryNftOwner` | setup-collections.js |
| Signers, SS58, websocket | keys | derivation, encoding, connect | not modelled: pure computation and I/O |

How the parts interact:

* The script calls chain A through RPC (`signAndSubmit`, storage queries). It
  also queries chain B.
* Chain A talks to chain B only through the ordered HRMP channel. The two
  chains share no state.
* The matcher and the reserve policy are callbacks of the XCM executor. They
  run on both chains.

The hard behaviours are these:

* The script, the two chains and the channel all interleave.
* The script's only synchronisation with B is a fixed 12 s sleep.
* `signAndSubmit` can fail after the extrinsic has reached the pool. The
  natural retry is to run the script again.
* The integer widths differ: u128 values in XCM against u32 ids.
* An asset changes form in transit: it is reanchored before B sees it.

What makes each part correct:

* The matcher round-trips the builder's asset and accepts exactly the NFT
  shape. It never truncates.
* The policy trusts only sibling origins.
* An NFT is usable on B only while it is locked on A.
* The registry is injective, by the `CollectionInUse` guard of `register`.
* A transfer in flight is never submitted again.
* The script reports success only after settlement, and reports the NFT
  locked only when it is.
* A locked NFT eventually reaches its beneficiary, when B accepts the NFT
  as fees.

## Modules

* `NftAsset.tla` holds the XCM vocabulary as tagged records, as PAPI tags
  them. It also holds the JS builders, the Rust matcher (`AsId` is the
  `as u32` cast) and the reserve filter. All of these are operators.
* `AssetMatcher.tla` is a harness. Each step hands the matcher one asset:
  either the one the script builds (`DecodeBuilt`) or any asset of at most two
  junctions over boundary values (`DecodeWire`). It then records the result.
  `NftEncodings` is the reference: the set of every asset spec §3 calls an
  NFT, built from the constructors rather than from the matcher's tests.
* `ReserveTransfer.tla` (EXTENDS `NftAsset`) is the core. The script is a
  program counter `pc`. Its actions are:
  * `Script_QueryBefore`, `Script_Submit`, `Script_Included`;
  * `Script_Rejected`, the await rejecting because A dropped the extrinsic;
  * `Script_SubmitError`, a lost connection at any time;
  * both end in the catch and `process.exit(1)`;
  * `Script_Wake`, the sleep;
  * `Script_QueryAfter`, `Script_Finish`, `Script_Rerun`.

  Chain A has `ChainA_IncludeOk`: the matcher identifies the item,
  `NftsBridge::transfer` moves it to `SovereignB` and the message is appended
  to `hrmp`. It also has `ChainA_IncludeFailed` and `ChainA_Drop`. Chain B has
  these actions:
  * `ChainB_Deposit`: `IsReserveAsset` accepts, and `NftsMatcher` or the
    registry gives an item id that is free;
  * `ChainB_Trap`;
  * `ChainB_CreateCollection`;
  * `ChainB_Register`, which is spec-modelled.

  `TheCall` is the call the typed-API `main()` (lines 317-616) submits.
  The first copy of the script in the same file (lines 1-310) has the same
  steps and an X2 destination naming the recipient. What A does with that
  destination depends on its XCM router, which the repository does not
  configure, so that copy is not modelled separately.

  `CanDeposit` is the program B runs: the reserve filter, then
  `BuyExecution` with the NFT as fees (`fee_asset_item: 0`), then the
  deposit. Whether `BuyExecution` succeeds depends on B's barrier and
  trader, which are not in the repository. The constant
  `NftBuysExecutionOnB` stands for it, and every run sets it `TRUE`.

  `Init` is the state after `setup-collections.js` ran on fresh chains:
  * on A, collection 0 holds #1 and #2 (Alice) and #3 (Bob);
  * on B, collection 0 holds Bob's local #1.
* `NftCustody.tla` is the abstract specification of one reserve transfer: the
  NFT is at the `source` with its owner, `inFlight` once it is locked for a
  recipient, and at the `destination` credited to that recipient, which
  weak fairness on `Deliver` makes eventual. `ReserveTransfer` maps its state
  onto it (`CustodyOf`, `HolderOf`, `RecipientOf`):
  * a derivative on B means `destination`;
  * locked in `SovereignB` with a message queued means `inFlight`;
  * locked with nothing queued is a state the abstraction does not have;
  * otherwise it is at the `source`.

  `CustodyRefinement == Custody!Spec` checks the implementation.
* `SetupCollections.tla` models `main()` of `setup-collections.js` call by
  call. `SetupCalls` is the sequence of its nine extrinsics. Each awaited call
  ends in one of these ways:
  * `Setup_Succeeded`: `createCollection` returns the id of the `Created`
    event, which is `NextCollectionId`;
  * `Setup_Failed`: `null`, or `false` that `main()` ignores;
  * `Setup_Rejected`: the catch and `process.exit(1)`, whether or not the
    extrinsic took effect.

  `Setup_Skip` is the `collectionIdX !== null` guard. `Setup_Finish` is the
  summary, and `Setup_Rerun` starts a fresh process. The ledgers are the same
  variables as in `ReserveTransfer`: `ownerA`, `itemsB` and
  `nextCollectionB`, plus `nextCollectionA` and `metadata`.
* `SetupThenTransfer.tla` composes the two as a user runs them: named
  instances `Setup` and `Transfer` over the same variables. Setup runs from
  fresh chains, as often as the user repeats it. The transfer script and the
  chains act once no setup process is running.
* `MCAssetMatcher.tla`, `MCReserveTransfer.tla`, `MCSetupCollections.tla` and
  `MCSetupThenTransfer.tla` instantiate these modules.

The bounds are chosen so that the interesting cases happen:

* The u32/u128 widths are scaled to 3/5 bits, because TLC's integers are 32
  bits wide. The harness still reaches both boundaries of the cast:
  2^IdWidth - 1 and 2^IdWidth.
* Collections 0..2 and items 1..3 are enough for setup's items, one foreign
  collection and one extra collection on B.
* Three runs of the transfer script cover a rerun after success or after an
  error, and a further run after that rerun. Two lost connections can then
  leave two extrinsics pending at once.
* For setup, three runs and three collection ids per chain let every run
  create its own collection on each chain. A collection can be created by a
  run that then exited. The setup run has 1.7 million distinct states and
  takes about 12 s. In the composition the transfer script runs once,
  because only the item it names matters there.

`SpecStalledA` is the same system without the first of these parts: chain A
stops producing blocks while the connection stays up.

Fairness in the transfer has three parts:
* weak fairness on chain A's handling of each pending extrinsic (include,
  fail or drop);
* weak fairness on chain B's execution of the head of its queue;
* weak fairness on the script's own steps, `ScriptStep`.

The fairness rests on these facts:
* Both chains keep producing blocks.
* HRMP delivery is reliable and ordered.
* A started `node` process runs its continuation once the promise it awaits
  settles.

The following get no fairness, because a user may never do them or they may
never happen:
* starting the script again;
* a lost connection;
* the B admin's steps.

The setup runs are safety checks only, so they assume no fairness. Deadlock
checking is off in every run, because the system really does stop. It stops
once the last run of each script has finished and the queue is empty.

## Runs

| Run | Expect | Shows |
|---|---|---|
| `matcher` | pass | For every id of the width, the JS `buildNftAsset` and the Rust matcher agree. Among assets of every parents count, junction kind and count, pallet index and fungibility, the matcher accepts exactly the members of `NftEncodings`. |
| `matcher_truncation` | violation | `Index(8)` at IdWidth 3 is matched as item 0. The spec wants `OutOfRange`. |
| `transfer` | pass | Takes A's collection registered on a fresh collection of B, and B accepting the NFT as fees (`NftBuysExecutionOnB`). Across failures, drops, error exits and reruns, a derivative on B always has its original locked in B's sovereign account on A. A locked NFT eventually reaches Bob. Every run of the script ends. The whole system refines `NftCustody`. |
| `transfer_report` | violation | "Transfer Complete!" is printed while the message is still queued, or after the extrinsic failed. |
| `transfer_resubmit` | violation | Sequence: the first run's `signAndSubmit` throws, the extrinsic is still included, and the rerun reads the sovereign owner and submits again. |
| `transfer_after_report` | violation | Sequence: the extrinsic fails on A, then the owner query after the sleep throws. `queryNftOwner` returns `null`, and the script prints "Transferred/Locked" while Alice still owns the NFT. |
| `transfer_stalled` | violation | Under `SpecStalledA`, a run of the script waits for ever in the `await` on `signAndSubmit`, which has no deadline. The spec wants a timeout at every suspend point. |
| `setup` | pass | Over failed dispatches, rejected awaits that still took effect, and reruns, each setup run mints only into the collection its own `Created` event named. |
| `setup_report` | violation | `createCollection` fails and returns `null`. The mints for that chain are skipped, yet "Setup complete!" is printed. |
| `setup_then_transfer` | violation | The first setup run creates A's collection 0, but its await rejects. The rerun mints Alice's #1 into collection 1, while the transfer script moves the hard-coded (0, 1), which does not exist. |
| `registry_collision` | violation | Maps A's collection onto the collection setup made "for receiving foreign NFTs". Bob's local #1 then reads as the derivative of Alice's #1. |

Findings and hazards are listed in `PROJECT.json`.

## Not modelled

These are left out of the models:

* XCM fees and weights, beyond one constant. The transfer passes
  `fee_asset_item: 0`, so the NFT itself is the fee asset, and B's
  `BuyExecution` must pay with it. Whether B's barrier and weight trader
  accept that is decided by runtime configuration that is not in the
  repository. The constant `NftBuysExecutionOnB` in `CanDeposit` stands for
  it. Every run sets it `TRUE`, so delivery (`TransferredEventuallyUsable`)
  and the refinement are checked under that assumption. With `FALSE`, B
  traps every message by construction, and the NFT stays locked on A.
  `PROJECT.json` lists this as a hazard without a property.
* The runtime without the registry. There `NftsMatcher` does not match the
  reanchored asset, and nothing is deposited. The repository names foreign
  registries as production work, so the runs use the registry of the spec.
* The executor's internals beyond reanchoring, the reserve check and the
  deposit.
* Consensus, finality and chain restarts.
* Signers, SS58 and connections, beyond the errors they raise at an `await`.
* The collection count the transfer script prints after "Checking Parachain
  B for received NFT". It is only logged. A derivative minted into an
  existing collection does not change it. So it says nothing a property
  could check against the chains.
* Other signers on chain A. Both scripts sign every transfer as Alice and
  name only item (0, 1). The missing owner check in `NftsBridge` is reached
  only through a rerun that moves the item from the sovereign account to
  itself, and the transfer runs cover that.

## Plan

Done:

1. `NftAsset` and `AssetMatcher`: the matcher, the builders and the policy.
2. `ReserveTransfer`, the core protocol, with the runs above.
3. `SetupCollections` and its composition with the transfer,
   `SetupThenTransfer`.
4. The `NftCustody` abstraction with the refinement check, and termination
   of the script under the fairness above.
5. The owner-query conflation of `null` (`transfer_after_report`), and the
   await without a deadline (`transfer_stalled`). Three transfer runs and
   three setup runs.

Not planned:

* A separate `ReserveRegistry` abstraction. The registry is already
  modelled at the spec's level, as a set of entries, so its refinement
  mapping would be the identity. `RegistryInjective` only restated the
  `CollectionInUse` guard, so it was dropped.
* The setup copy inside `transfer-nft.js` (lines 617-874). It differs from
  `setup-collections.js` only in how it formats values. It is covered by
  `SetupCollections` and is not mapped twice.

Every state-changing operation the code performs is now an action of a
module. What remains outside the models is listed under "Not modelled". It
is either configuration that is not in the repository or behaviour the code
only logs.
