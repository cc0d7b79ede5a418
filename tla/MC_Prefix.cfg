CONSTANTS
    Chars = {0, 1}
    MaxLen = 3
    MaxStrs = 3
INIT Init
NEXT Next
INVARIANT PrefixRoundTrip
