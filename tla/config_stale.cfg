\* Two callers, an update and an invalidation; every read succeeds.
CONSTANTS
    c1 = c1
    c2 = c2
    Callers <- MCCallers
    MaxCalls = 2
    MaxVersion = 1
    MaxOnces <- MCMaxOnces
    Invalidations = 1
    ReadOutcomes = {"ok"}
SPECIFICATION Spec
INVARIANT CacheFreshAfterInvalidate
\* The goroutines stop once they have made their calls.
CHECK_DEADLOCK FALSE
