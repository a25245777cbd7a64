SPECIFICATION MCSpec
CONSTANTS
    IntBits = 4
    Long = 40
    IdLen = 3
    MaxId = 5
    MaxBytes = 5
    Years = {1899, 1900, 1993, 1994, 1996, 1997, 2000, 2100, 2199, 2200}
    IntSpan = 32768
    LongSpan = 1073741824
    Longs <- MCLongs
    IntParts = {0, 9, 123}
    FracDigits = 2
    Sizes = {1, 4, 64}
    MaxLen = 4
    StackBuf = 5
    Alloc = 4
    IntValues <- MCInts
    DecimalValues <- MCDecimals
    CharValues <- MCStrings
    MaxColumns = 2
    MaxRows = 2
INVARIANTS ValidInv DatesInv TextsInv NumbersInv
