CONSTANTS
    NumPages = 3
    BlockSize = 2
    MaxSequenceLength = 4
    ReservationLimit = 3
    Request = {r1, r2}
    Token = {t1, t2}
SPECIFICATION Spec
SYMMETRY Symmetry
INVARIANTS
    PagesAccounted
    IndexAgrees
    ReservationsOwned
    TailUnpublished
    ContentCorrect
PROPERTIES
    CommittedStable
    EvictionIsLru
