CONSTANTS
    Widths = {1, 2, 4, 8}
    Vals = {0, 1, 255, 256}
    MaxElts = 3
    Versions = {12, 13}
    Modulus <- MCModulus
INIT Init
NEXT Next
INVARIANTS
    TypeOK
    DeltaRoundTrip
