CONSTANTS
    FilePaths <- MCFilePaths
    Blobs <- MCBlobs
    DotGit <- MCDotGit
    Trees <- MCTrees
    PatternSets <- MCPatternSets
    IgnoreSets <- MCNoIgnores
    PathOrder <- MCPathOrder
    MaxClock <- MCMaxClock
    Absent = Absent

SPECIFICATION Spec

INVARIANTS
    TypeOK
    SparseClosure
    UnlockedStateSaved

PROPERTIES
    ImplementsTreeStateStore

