CONSTANTS
    Types = {"serial", "struct", "numeric", "string"}
    Widths = {1, 2}
    Counts = {0, 1, 6, 7}
    StrLens = {0, 1, 3}
    MaxStrs = 2
    MaxIns = 2
    U32Modulus <- MCU32Modulus
    SizeModulus <- MCSizeModulus
INIT Init
NEXT Next
INVARIANT
    ConcatRoundTrip
