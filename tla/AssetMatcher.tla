---------------------------- MODULE AssetMatcher ----------------------------
(***************************************************************************)
(* The asset matcher as the XCM executor uses it: every step hands the     *)
(* NftsTransactor one asset, either the one the transfer script builds     *)
(* (DecodeBuilt) or any asset that can arrive in an XCM message            *)
(* (DecodeWire), and records what NftsMatcher decides.  The properties     *)
(* compare that decision with the NFT encoding the spec defines (spec §3,  *)
(* §4.1, §8).                                                              *)
(***************************************************************************)
EXTENDS NftAsset, SequencesExt

CONSTANTS
    SiblingId,     \* a parachain id that appears in foreign locations
    NoInput        \* model value: no asset examined yet

VARIABLES
    asset,     \* the asset last handed to the matcher
    built,     \* <<collectionId, itemId>> it was built from, or NoInput
    result     \* MatchesNonFungibles(asset)

vars == <<asset, built, result>>

\* Boundary values for GeneralIndex and Index: zero, one, the largest id,
\* the first value past the id width, the largest XCM index.
WireValues == {0, 1, 2^IdWidth - 1, 2^IdWidth, 2^IndexWidth - 1}

WireJunctions ==
    {PalletInstance(NftsPalletIndex), PalletInstance(NftsPalletIndex + 1),
     Parachain(SiblingId)} \cup {GeneralIndex(v) : v \in WireValues}

WireFungibility ==
    {Fungible(1), NonFungible(Undefined)} \cup {NonFungible(Index(v)) : v \in WireValues}

\* Every asset of at most two junctions, zero or one parents, over the above.
WireAssets ==
    {Asset(Location(p, j), f) : p \in {0, 1}, j \in BoundedSeq(WireJunctions, 2),
                                f \in WireFungibility}

\* The NFT encodings of spec §3, as a set: every asset built from pallet P
\* with a collection and an item value an XCM index can carry.  A reference
\* definition by construction, independent of the matcher's pattern tests.
NftEncodings ==
    {Asset(Location(0, <<PalletInstance(NftsPalletIndex), GeneralIndex(c)>>),
           NonFungible(Index(i))) : c, i \in IndexValues}

\* Membership in NftEncodings.  A Fungible amount is an integer where an
\* instance is a record, which TLC does not compare, so fungibles are set
\* apart by their tag first.
IsNftEncoding(a) == a.fun.type = "NonFungible" /\ a \in NftEncodings

TypeOK ==
    /\ asset \in WireAssets \cup {BuildNftAsset(c, i) : c, i \in IdValues} \cup {NoInput}
    /\ built \in (IdValues \X IdValues) \cup {NoInput}
    /\ result \in {Ok(c, i) : c, i \in IdValues} \cup {Err("AssetNotHandled"), NoInput}

Init ==
    /\ asset = NoInput
    /\ built = NoInput
    /\ result = NoInput

\* The executor matches the asset the script built for (collectionId, itemId).
DecodeBuilt ==
    \E c, i \in IdValues :
        /\ asset' = BuildNftAsset(c, i)
        /\ built' = <<c, i>>
        /\ result' = MatchesNonFungibles(BuildNftAsset(c, i))

\* The executor matches an arbitrary asset received in a message.
DecodeWire ==
    \E a \in WireAssets :
        /\ asset' = a
        /\ built' = NoInput
        /\ result' = MatchesNonFungibles(a)

Next == DecodeBuilt \/ DecodeWire

Spec == Init /\ [][Next]_vars

(***************************************************************************)
(* Round trip (spec §4.1, §8): the asset buildNftAsset produces in the JS  *)
(* script is recognised by the Rust NftsMatcher as exactly the             *)
(* (collectionId, itemId) it was built from, for every id of the width.    *)
(***************************************************************************)
MatchRoundTrip ==
    built # NoInput => result = Ok(built[1], built[2])

(***************************************************************************)
(* Rejection (spec §8): NftsMatcher accepts an asset iff it has the NFT    *)
(* shape (0, [PalletInstance(P), GeneralIndex(_)]) with                    *)
(* NonFungible(Index(_)); every other parents count, junction kind or      *)
(* count, pallet index or fungibility is AssetNotHandled.                  *)
(***************************************************************************)
MatchIsExact ==
    asset # NoInput => (result.tag = "Ok" <=> IsNftEncoding(asset))

(***************************************************************************)
(* No truncation (spec §4.1, §8): a match returns the GeneralIndex and     *)
(* Index values themselves; a value wider than the id type is OutOfRange,  *)
(* never cut down.  The matcher's `as u32` casts are what this is about.   *)
(***************************************************************************)
MatchNeverTruncates ==
    (asset # NoInput /\ result.tag = "Ok") =>
        /\ result.collection = asset.id.interior[2].value
        /\ result.item = asset.fun.value.value

=============================================================================
