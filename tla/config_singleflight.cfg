\* Two callers, reads that succeed or fail, one update and one invalidation.
CONSTANTS
    c1 = c1
    c2 = c2
    Callers <- MCCallers
    MaxCalls = 2
    MaxVersion = 1
    MaxOnces <- MCMaxOnces
    Invalidations = 1
    ReadOutcomes = {"ok", "fail"}
SPECIFICATION Spec
INVARIANT TypeOK
INVARIANT AtMostOneRetrieval
INVARIANT ErrOnlyAfterFailure
\* The goroutines stop once they have made their calls.
CHECK_DEADLOCK FALSE
