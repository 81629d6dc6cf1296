\* One POST request on one connection.
CONSTANTS
    Messages <- MCMessages
    Triggers = {0, 1}
    InitialSize = 8
    MaxSize = 32
    BodyLimit = 22
    MaxRecvs = 3
    ReadSize = 3
    FieldLimit = 2
    UploadMax = 4
    TlsBuffer = 2
SPECIFICATION Spec
INVARIANTS  SentWhole TempFilesRemoved 
CHECK_DEADLOCK FALSE
