CONSTANTS
    FilePaths <- MCFilePaths
    Blobs <- MCBlobs
    DotGit <- MCDotGit
    Trees <- MCTrees
    PatternSets <- MCRootPatterns
    IgnoreSets <- MCIgnoreSets
    PathOrder <- MCPathOrder
    MaxClock <- MCMaxClock
    Absent = Absent

SPECIFICATION Spec

INVARIANT IndexVouchesForTree

PROPERTIES
    SnapshotMissesOnlyStatTickEdits
    SnapshotKeepsTrackedIgnoresUntracked
