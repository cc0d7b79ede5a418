CONSTANTS
    Widths = {1, 2, 4, 8}
    Vals = {0, 1, 3, 255, 256}
    MaxElts = 3
    Modulus <- MCModulus
    HighBit <- MCHighBit
INIT Init
NEXT Next
INVARIANTS
    TypeOK
    HeaderDecodes
    BitpackRoundTrip
