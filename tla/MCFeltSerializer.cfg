SPECIFICATION SerializerSpec
CONSTANTS
    Inputs <- MCInputs
    from_str <- MCFrom_str
    text <- MCText
    hex <- MCHex
    from_hex_be <- MCFrom_hex_be
    NotHex <- MCNotHex
    NotAFelt <- MCNotAFelt
    NoLen = NoLen
    NoValue = NoValue
    MaxDepth = 4
INVARIANTS ReadsBack RefusesExactly EncodersAgree ParsedAsRun
