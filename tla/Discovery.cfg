SPECIFICATION Spec
CONSTANTS
    NoId = NoId
    Failed = Failed
    Configs <- AllConfigs
    Payloads <- AllPayloads
    KeyOrder <- Sorted
    Requested <- Colliding
    Alphabet <- Spellings
    Lower <- Capitals
INVARIANTS AdvertisedAreTheKept RoutedAsAdvertised ConfigWins ServedWindowFirst ReservedVerbatim
