------------------------------ MODULE NftAsset ------------------------------
(***************************************************************************)
(* The XCM (v4) asset vocabulary the tutorial uses for NFTs, and the pure  *)
(* decisions of its runtime configuration:                                 *)
(*   - BuildNftAsset, BuildDestination, BuildBeneficiary: the JS builders  *)
(*     of scripts/transfer-nft.js;                                         *)
(*   - MatchesNonFungibles: the Rust NftsMatcher of the README;            *)
(*   - NftsFromSiblings / IsReserveAsset: the Rust reserve filter.         *)
(* Junctions, locations and assets are records tagged by "type", as the    *)
(* PAPI encoding of the scripts tags them.                                 *)
(*                                                                         *)
(* Integer widths are scaled: the code has u32 collection and item ids     *)
(* (IdWidth = 32) carried in u128 GeneralIndex / Index values              *)
(* (IndexWidth = 128); TLC's integers are 32-bit, so a model uses smaller  *)
(* widths with the same relation IdWidth < IndexWidth.                     *)
(***************************************************************************)
EXTENDS Integers, Sequences

CONSTANTS
    NftsPalletIndex,   \* index of pallet-nfts in the runtime (51 in the code)
    IdWidth,           \* bit width of CollectionId / ItemId (u32 in the code)
    IndexWidth         \* bit width of GeneralIndex / AssetInstance::Index (u128)

ASSUME IdWidth \in Nat \ {0} /\ IndexWidth \in Nat /\ IdWidth < IndexWidth

\* The values an id type, or an XCM index, can hold.
IdValues    == 0 .. (2^IdWidth - 1)
IndexValues == 0 .. (2^IndexWidth - 1)

\* Junction constructors (the closed set that takes part in NFT matching).
Parachain(id)      == [type |-> "Parachain", value |-> id]
PalletInstance(ix) == [type |-> "PalletInstance", value |-> ix]
GeneralIndex(v)    == [type |-> "GeneralIndex", value |-> v]
AccountId32(acct)  == [type |-> "AccountId32", value |-> acct]

Location(parents, interior) == [parents |-> parents, interior |-> interior]

\* Fungibility and AssetInstance constructors.
Fungible(amount)   == [type |-> "Fungible", value |-> amount]
NonFungible(inst)  == [type |-> "NonFungible", value |-> inst]
Index(v)           == [type |-> "Index", value |-> v]
Undefined          == [type |-> "Undefined"]

Asset(id, fun) == [id |-> id, fun |-> fun]

\* Results of MatchesNonFungibles: Ok((collection, item)) or an XCM error.
Ok(c, i) == [tag |-> "Ok", collection |-> c, item |-> i]
Err(e)   == [tag |-> "Err", error |-> e]

(***************************************************************************)
(* Rust `x as u32` on a u128: keeps the low IdWidth bits.                  *)
(***************************************************************************)
AsId(v) == v % (2^IdWidth)

(***************************************************************************)
(* buildDestination(parachainId): a sibling chain, one hop up.             *)
(***************************************************************************)
BuildDestination(parachainId) == Location(1, <<Parachain(parachainId)>>)

(***************************************************************************)
(* buildBeneficiary(recipientPublicKey): an account on the destination.    *)
(***************************************************************************)
BuildBeneficiary(recipient) == Location(0, <<AccountId32(recipient)>>)

\* Mutant of BuildNftAsset: the junctions in the wrong order.
BuildNftAssetSwapped(collectionId, itemId) ==
    Asset(Location(0, <<GeneralIndex(collectionId), PalletInstance(NftsPalletIndex)>>),
          NonFungible(Index(itemId)))

(***************************************************************************)
(* buildNftAsset(collectionId, itemId): the single asset of the transfer,  *)
(* { parents: 0, X2(PalletInstance(51), GeneralIndex(collectionId)) } with *)
(* NonFungible(Index(itemId)); BigInt() keeps the integer value.           *)
(***************************************************************************)
BuildNftAsset(collectionId, itemId) ==
    Asset(Location(0, <<PalletInstance(NftsPalletIndex), GeneralIndex(collectionId)>>),
          NonFungible(Index(itemId)))

\* Mutant of MatchesNonFungibles: the u128 values returned without a cast.
MatchesUncast(a) ==
    IF /\ a.id.parents = 0
       /\ Len(a.id.interior) = 2
       /\ a.id.interior[1] = PalletInstance(NftsPalletIndex)
       /\ a.id.interior[2].type = "GeneralIndex"
       /\ a.fun.type = "NonFungible"
       /\ a.fun.value.type = "Index"
    THEN Ok(a.id.interior[2].value, a.fun.value.value)
    ELSE Err("AssetNotHandled")

\* Mutant of MatchesNonFungibles: the `0` parents pattern left out.
MatchesAnyParents(a) ==
    IF /\ Len(a.id.interior) = 2
       /\ a.id.interior[1] = PalletInstance(NftsPalletIndex)
       /\ a.id.interior[2].type = "GeneralIndex"
       /\ a.fun.type = "NonFungible"
       /\ a.fun.value.type = "Index"
    THEN Ok(AsId(a.id.interior[2].value), AsId(a.fun.value.value))
    ELSE Err("AssetNotHandled")

(***************************************************************************)
(* NftsMatcher::matches_nonfungibles: the pattern                          *)
(*   ((0, [PalletInstance(51), GeneralIndex(collection)]),                 *)
(*    NonFungible(Index(item))) => Ok((collection as u32, item as u32))    *)
(*   _ => Err(AssetNotHandled)                                             *)
(***************************************************************************)
MatchesNonFungibles(a) ==
    IF /\ a.id.parents = 0
       /\ Len(a.id.interior) = 2
       /\ a.id.interior[1] = PalletInstance(NftsPalletIndex)
       /\ a.id.interior[2].type = "GeneralIndex"
       /\ a.fun.type = "NonFungible"
       /\ a.fun.value.type = "Index"
    THEN Ok(AsId(a.id.interior[2].value), AsId(a.fun.value.value))
    ELSE Err("AssetNotHandled")

\* Mutant of NftsFromSiblings: the parents pattern `1` read as `0`.
NftsFromLocal(asset, origin) ==
    /\ origin.parents = 0
    /\ Len(origin.interior) = 1
    /\ origin.interior[1].type = "Parachain"
    /\ asset.fun.type = "NonFungible"

(***************************************************************************)
(* NftsFromSiblings::contains(asset, origin): origin is (1, [Parachain(_)])*)
(* and the asset is NonFungible(_), whatever its id.                       *)
(***************************************************************************)
NftsFromSiblings(asset, origin) ==
    /\ origin.parents = 1
    /\ Len(origin.interior) = 1
    /\ origin.interior[1].type = "Parachain"
    /\ asset.fun.type = "NonFungible"

(***************************************************************************)
(* IsReserveAsset = (NativeAsset, NftsFromSiblings): a tuple filter        *)
(* accepts when either member does; xcm-builder's NativeAsset accepts an   *)
(* asset whose id is the origin itself.                                    *)
(***************************************************************************)
IsReserveAsset(asset, origin) ==
    \/ asset.id = origin
    \/ NftsFromSiblings(asset, origin)

=============================================================================
