\* Two Collects over up to three pages in every order, token cycles included.
SPECIFICATION FairSpec
CONSTANTS
    Tokens = {t1, t2}
    First = First
    NoToken = NoToken
    Configs <- MCConfigs
    MaxDuration = 31
    MaxRounds = 2
INVARIANTS
    TypeOK
    CompleteOnSuccess
    CallsBounded
    CountersBalanced
    WaitGrows
PROPERTIES
    CollectReturns
\* The bound on the rounds ends a behaviour.
CHECK_DEADLOCK FALSE
