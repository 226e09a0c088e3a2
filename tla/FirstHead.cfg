SPECIFICATION Spec
CONSTANTS
    m1 = m1
    m2 = m2
    yes = yes
    no = no
    Mandate = {m1}
    Decision = {yes, no}
    SigningKeyGiven = TRUE
    MaxSize = 2
    MaxRestarts = 0
    MaxWitnessed = 1
INVARIANTS
    FirstHeadIsExtended
SYMMETRY Interchangeable
