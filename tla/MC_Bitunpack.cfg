CONSTANTS
    Bytes = {0, 1, 128, 255}
    MaxBytes = 3
    Params = {0, 1, 3, 8, 9, 12, 24, 65}
    NoParam = NoParam
    Versions = {6, 7}
    Modulus <- MCModulus
INIT Init
NEXT Next
INVARIANTS
    TypeOK
    BitunpackLossless
