CONSTANTS
    BitLen = 64
    Hashes <- HashOf
    Separators = {"/"}
    Quote = "q"
    Space = "ws"
    Binary = "$binary"
    Numbers <- MCNumbers
    Doubles <- MCDoubles
    Printed <- MCPrinted
    Chars <- MCChars
    HexPairs <- MCHexPairs
    V4 <- MCV4
    V6 <- MCV6
    Mapped <- MCMapped
    HostLen = 4
    ServiceLen = 3
    Configured = "DPS_DTLS"
    Families = {"cbor", "wrap", "map", "filter", "topic", "coap", "json", "gcm", "address"}
SPECIFICATION Spec
CHECK_DEADLOCK FALSE
INVARIANTS CborRoundTrip WrapExact MapKeysFound FilterRoundTrip MatchBySegments FilterKeepsMatches PayloadIntact  GcmExact AddressExact
