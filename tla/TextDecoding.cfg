CONSTANTS
    Bytes <- MCBytes
    Inputs <- MCInputs
    MaxInput = 4
SPECIFICATION Spec
INVARIANTS
    TypeOK
    ScalarsOnly
    StreamEqualsWhole
    RoundTrip
CHECK_DEADLOCK FALSE
