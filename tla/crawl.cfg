SPECIFICATION FairSpec
CONSTANTS
    Files <- AllFiles
    Directory <- DirectoryOf
    PartsOf <- Parts
    SuffixOf <- Suffixes
    Roots <- RootPaths
    IgnoredDirectories = {"build", "dist"}
    SupportedExtensions = {".py"}
    FileStates <- States
    NotText = "not text"
    Absent = Absent
    Denied = Denied
    Null = Null
    BadRoots = {missing, plain_file}
    MaxFileSize = 2
    MaxChanges = 3
INVARIANTS
    TypeOK
    UnchangedFilesExact
    RecordedExisted
    RaisesOnlyForCause
PROPERTIES
    CrawlEnds
