CONSTANTS
    Types = {"string", "serial"}
    StrLens = {0, 2}
    MaxStrs = 2
    MaxIns = 3
    MaxInputs <- MCMaxInputs
INIT Init
NEXT Next
INVARIANT
    InterleaveRoundTrip
