SPECIFICATION Spec
CONSTANTS
    Lengths = {2, 3, 18, 19, 20, 21, 39, 40, 59, 253, 254}
    Bytes = {0, 254, 255}
    MaxMessages = 2
INVARIANTS
    TakenWhenWhole
    NeverPastTheEnd
