CONSTANTS
    IntBits = 8
    MaxTotal = 3
SPECIFICATION Spec
INVARIANT PageCorrect
