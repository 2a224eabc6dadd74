CONSTANT MaxWait = 2
SPECIFICATION FairSpec
INVARIANTS TypeOK AnswerIsWhole VerdictIsCurrent SpinMeansHolder
PROPERTY CallsReturnOrHandlerSpins
