\* A flow lost with interrupts disabled (RfiAstray) takes no further step, nor
\* does a handler that was interrupted.
CONSTANTS
    MaxThreads = 4
    MaxStarts = 5
    MainEnds = TRUE
    None = None
SPECIFICATION FairSpec
INVARIANTS TypeOK EveryoneKeepsTheirFlow ClaimsAreExclusive
PROPERTIES OnlyTheEndedLeave StartedThreadsRun
CHECK_DEADLOCK FALSE
