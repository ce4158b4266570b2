SPECIFICATION Spec
CONSTANTS
    UsizeMax = 7
    Max = 3
    MaxLength = 7
    Chunked = Chunked
INVARIANTS
    CapIsKept
    AnswerIsRight
    ViewsReturnTheUpload
CHECK_DEADLOCK FALSE
