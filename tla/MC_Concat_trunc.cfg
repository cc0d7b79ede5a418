CONSTANTS
    Types = {"string"}
    Widths = {1}
    Counts = {0}
    StrLens = {3, 5}
    MaxStrs = 2
    MaxIns = 2
    U32Modulus <- MCU32Modulus
    SizeModulus <- MCSizeModulus64
INIT Init
NEXT Next
INVARIANT ConcatRoundTrip
