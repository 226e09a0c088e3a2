SPECIFICATION Spec
CONSTANTS
    m1 = m1
    m2 = m2
    yes = yes
    no = no
    Mandate = {m1, m2}
    Decision = {yes, no}
    SigningKeyGiven = TRUE
    MaxSize = 2
    MaxRestarts = 1
    MaxWitnessed = 1
INVARIANTS
    HonestMandateIsAcquitted
    OwnHeadsAreKnown
    DenialIsConvicted
SYMMETRY Interchangeable
