SPECIFICATION Spec
CONSTANTS
    yes = yes
    no = no
    Decision = {yes, no}
    Usual = yes
    MaxFork = 3
    MaxSize = 9
INVARIANTS
    InclusionIsOnePlace
    HistoryIsShown
    HistoryIsNotFeigned
CHECK_DEADLOCK FALSE
