SPECIFICATION Spec
CONSTANTS
    Files = {"home", "docs", "work", ".git", "text", "share"}
    Dirs = {"home", "docs", "work", ".git", "share"}
    HiddenFiles = {".git"}
    Folder <- MCFolder
    MaxCopies = 2
    MaxLoads = 3
    Home = "home"
    Share = "share"
    Trashable = {"docs", "work", "text"}
    Restored = {"docs"}
    MaxCommands = 3
    MaxChanges = 1
CHECK_DEADLOCK FALSE
INVARIANTS
    BrowserIsSound
PROPERTIES
    PastIsKept
