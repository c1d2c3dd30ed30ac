--------------------------- MODULE MCAssetMatcher ---------------------------
(***************************************************************************)
(* Model of the matcher with ids scaled from u32/u128 to 3/5 bits, which   *)
(* keeps both casts' boundaries (2^IdWidth - 1, 2^IdWidth) reachable.      *)
(***************************************************************************)
EXTENDS AssetMatcher

MCNftsPalletIndex == 51
MCIdWidth == 3
MCIndexWidth == 5
MCSiblingId == 1000
=============================================================================
