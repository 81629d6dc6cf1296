SPECIFICATION Spec
CONSTANTS
    Sessions = {s1, s2}
    Users = {alice}
    small = small
    large = large
    Contents = {small}
    Size <- ContentSize
    Names = {n1}
    None = None
    MaxFile = 0
    Quota = 0
    MaxUploads = 1
    MaxFolders = 1
    Handlers = {"upload", "create_folder", "delete_folder"}
    DiskLoss = FALSE
INVARIANTS
    ActiveInLiveFolder
