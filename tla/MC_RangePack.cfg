CONSTANTS
    Widths = {1, 2, 4, 8}
    Vals = {0, 1, 100, 254, 255, 355, 65536, 65791}
    MaxElts = 2
    Modulus <- MCModulus
    HighBit <- MCHighBit
INIT Init
NEXT Next
INVARIANTS
    TypeOK
    RangePackRoundTrip
    RangePackNarrowest
