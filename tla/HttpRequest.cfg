SPECIFICATION Spec
CONSTANTS
    Streams <- MCStreams
    StartPositions <- MCStartPositions
INVARIANTS TypeOK NoRequestIsAnalysed  BufferIsTheTail AcceptedLinesAreRequests 
CHECK_DEADLOCK FALSE
