\* Integers of eight bits: at most three digits and a terminator.
SPECIFICATION Spec
CONSTANTS
    Size = 10
    NumericSize = 4
    Width = 8
    Values <- MCValues
    Lengths = {0, 4}
    LineNumber = 100
    MaxPieces = 2
    MaxLines = 2
INVARIANTS TypeOK  StaysInside FileFollowsLog
PROPERTIES AppendComesBack
CHECK_DEADLOCK FALSE
