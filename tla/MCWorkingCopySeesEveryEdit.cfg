CONSTANTS
    FilePaths <- MCFilePaths
    Blobs <- MCBlobs
    DotGit <- MCDotGit
    Trees <- MCTrees
    PatternSets <- MCPatternSets
    IgnoreSets <- MCIgnoreSets
    PathOrder <- MCPathOrder
    MaxClock <- MCMaxClock
    Absent = Absent

SPECIFICATION Spec

\* Expected to be violated: see finding 1 of README.md.
PROPERTIES
    SnapshotSeesEveryEdit
