CONSTANTS
    Widths = {1, 2, 4, 8}
    Vals = {0, 1, 127, 128, 255, 32767, 32768, 65535, 8388607, 8388608, 16777215}
    MaxElts = 2
    Modulus <- MCModulus
INIT Init
NEXT Next
INVARIANTS
    TypeOK
    ZigzagRoundTrip
