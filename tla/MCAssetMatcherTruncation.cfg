CONSTANTS
    NftsPalletIndex <- MCNftsPalletIndex
    IdWidth <- MCIdWidth
    IndexWidth <- MCIndexWidth
    SiblingId <- MCSiblingId
    NoInput = NoInput

SPECIFICATION Spec

INVARIANT MatchNeverTruncates
