SPECIFICATION Spec
CONSTANTS
    Lengths = {254, 255}
    Bytes = {0, 255}
    MaxMessages = 1
INVARIANT
    LongLengthIsBigEndian
