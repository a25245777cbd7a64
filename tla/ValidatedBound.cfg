SPECIFICATION ValidSpec
CONSTANTS
    IntBits = 4
    Long = 40
    IdLen = 3
    MaxId = 5
    MaxBytes = 5
    Years = {1899, 1900, 1993, 1994, 1996, 1997, 2000, 2100, 2199, 2200}
INVARIANT BoundIsValidated
