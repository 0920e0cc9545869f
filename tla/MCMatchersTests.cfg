CONSTANTS
    foo = foo
    bar = bar
    Components <- MCComponents
    MaxDepth <- MCMaxDepth
    RootFileInput = FALSE

SPECIFICATION TestsSpec

INVARIANT UnitTestsPass

\* The harness stops once every test has run.
CHECK_DEADLOCK FALSE
