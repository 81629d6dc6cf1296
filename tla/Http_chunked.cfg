\* A chunked upload that is larger than the read buffer.
CONSTANTS
    Messages <- MCLargeChunked
    Triggers = {1}
    InitialSize = 8
    MaxSize = 16
    BodyLimit = 40
    MaxRecvs = 4
    ReadSize = 3
    FieldLimit = 2
    UploadMax = 4
    TlsBuffer = 2
SPECIFICATION Spec
INVARIANT NothingStranded
CHECK_DEADLOCK FALSE
