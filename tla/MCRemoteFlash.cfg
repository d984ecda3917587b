SPECIFICATION FairRemoteSpec
INVARIANTS
    TypeOK
    SuccessIsReal
    BlankIsTold
    RemoteTypeOK
    VerdictIsHonest
    VerdictAgrees
    BlankReachesOperator
    RefusalHarmless
PROPERTIES
    ErasesOnlyLocked
    CallerIsTold
