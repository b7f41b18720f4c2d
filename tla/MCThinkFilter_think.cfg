SPECIFICATION Spec
CONSTANTS
    Bytes <- MCBytes
    Tokens <- MCTokens
    MaxBytes = 11
CHECK_DEADLOCK FALSE
INVARIANTS StreamIsStripped WholeCharacters
