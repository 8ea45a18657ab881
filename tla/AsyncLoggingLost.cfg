SPECIFICATION Spec
CONSTANTS
    Buffers = {b1, b2, b3, b4, b5, b6, b7, b8, b9, b10, b11}
    NoBuffer = NoBuffer
    BufferSize = 3
    Lengths = {1, 2}
    MaxBuffers = 25
    Kept = 2
    FlushEveryN = 2
    MaxLines = 3
    MayStop = TRUE
PROPERTIES LoggedLinesAreWritten
CHECK_DEADLOCK FALSE
