SPECIFICATION Spec
CONSTANTS
    Names <- MCNames
    StoredName <- MCStoredName
    Files <- MCFiles
    StoredFile <- MCStoredFile
    Modes <- MCModes
    MAX_USERS = 3
    MAX_GROUPS = 2
    MAX_FILES = 2
    MAX_GROUPS_PER_USER = 1
    MaxUid = 3
    MaxGid = 1
    MaxMembers = 1
VIEW Live
INVARIANT UserNamesUnique
