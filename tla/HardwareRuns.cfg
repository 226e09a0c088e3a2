SPECIFICATION RunSpec
CONSTANTS
    None = None
    Torn = Torn
    Whole = Whole
    chip = chip
    c1 = c1
    c2 = c2
    Size = 1
    MayRetry = TRUE
    Call = {c1, c2}
    Chip = {chip}
    Own = {c1}
    MaxAttempts = 2
    d = d
    q = q
    Caller = {d, q}
    Silent = {q}
    Upstream = Upstream
    RetryAsked = {q}
    Menu <- Menus
    Room <- OneEach
    Nobody = Nobody
    m1 = m1
    m2 = m2
    Fleet <- TwoMachines
    Payload <- Said
    Width = 2
    Noisy = {m1, m2}
    Noise = Noise
INVARIANTS
    EndsAgree
    NeverHalf
    TornOnlyWhenCut
    AcceptedIsGenuine
    AnswerIsOwn
    RelayIsCaught
    ReceivedIsWhole
    LeftRunningIsSaid
    VerdictIsRight
PROPERTIES
    SettledStays
    GenuineIsRefusedForCause
    EveryCallEnds
    OnlySilenceHolds
    RunEnds
CHECK_DEADLOCK FALSE
