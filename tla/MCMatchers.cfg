CONSTANTS
    foo = foo
    bar = bar
    Components <- MCComponents
    MaxDepth <- MCMaxDepth
    RootFileInput = FALSE

SPECIFICATION Spec

INVARIANT TypeOK
INVARIANT DirsClosed
INVARIANT AddDirIsWalk
INVARIANT DirsMatchReference
INVARIANT VisitAgreesWithMatches
INVARIANT ConstructionNeverPanics

\* The constructor loop ends once every input is processed: a built
\* matcher takes no further construction step.
CHECK_DEADLOCK FALSE
