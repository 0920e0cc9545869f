CONSTANTS
    FilePaths <- MCDotGitPaths
    Blobs <- MCBlobs
    DotGit <- MCDotGit
    Trees <- MCDotGitTrees
    PatternSets <- MCRootPatterns
    IgnoreSets <- MCDotGitIgnores
    PathOrder <- MCDotGitOrder
    MaxClock <- MCMaxClock
    Absent = Absent

SPECIFICATION Spec

INVARIANT DotGitNeverTracked
