\* The drive: its storage with the consistency script, and its requests.
SPECIFICATION DriveSpec
CONSTANTS
    Sessions = {w1, w2}
    Users = {alice}
    ApiUsers = {owner, other}
    small = small
    large = large
    Contents = {small, large}
    Names = {n1}
    None = None
    Nil = Nil
    MaxFile = 2
    Quota = 2
    MaxUploads = 2
    MaxFolders = 1
    Handlers = {"upload", "soft_delete", "restore", "visibility", "hard_delete", "empty_trash",
                "create_folder", "delete_folder"}
    DiskLoss = TRUE
    Online = FALSE
    Workers = {w1, w2}
    MaxFaults = 1
    owner = owner
    other = other
    Files = {f1}
    Owner <- OwnerOf
    Size <- ContentSize
    Shares = {t1, t2}
    Limits = {0, 1}
    MaxRequests = 4
SYMMETRY Symmetry
CHECK_DEADLOCK FALSE
INVARIANTS
    RefCountExact
    QuotaRespected
    ContentAvailable
    
    CleanAfterFix
    RoutesAsDocumented
    ShareLimitRespected
    MissingOnlyAfterPurge
PROPERTIES
    DeletedFromTrashOnly
