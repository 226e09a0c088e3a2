SPECIFICATION Spec
CONSTANTS
    None = None
    k1 = k1
    k2 = k2
    a = a
    b = b
    c = c
    z = z
    A = A
    B = B
    C = C
    p = p
    q = q
    s1 = s1
    s2 = s2
    s3 = s3
    relay = relay
    owner = owner
    admin = admin
    Tik = {k1}
    Session = {s1, s2}
    Tee = {a, b}
    Instance = {A, B}
    Place = {p, q}
    InstanceOf <- OwnInstance
    PlaceOf <- OwnPlace
    Authority = {owner, admin}
    Nonce = {1}
    GrantNonce = {g1, g2}
    g1 = g1
    g2 = g2
    Self = self
    RequireAnchor = TRUE
    RequireEnrolment = TRUE
    RequirePlace = FALSE
    EnrolmentAuthority = None
    Durable = TRUE
    StoreMayFail = FALSE
    ChallengeTTL = 1
    WitnessTTL = 1
    WitnessCap = 2
    DisputeCap = 2
    TransferCap = 4
    ConsumedCap = 4
    LogCap = 0
    MaxTime = 2
    MaxEpoch = 1
    TikOf <- OneKey
    GuestOf <- Guests
    OwnerOf <- Owned
    Clones = {}
    OfferHeads = {}
    GrantFor = 1
    PermitFor = 1
    MaxPermits = 0
    MaxSteps = 1
INVARIANTS
    TransfersLeadHome
    MovedOnlyToWitnessed
    GrantMovesOnce
PROPERTIES
    LedgerRemembers
    KeepsCustody
SYMMETRY AnyGrantNonce
