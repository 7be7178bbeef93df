\* Three routers in a ring under fairness; the first one sends two lists.
CONSTANTS
    A = A
    B = B
    C = C
    Routers <- MCRouters
    Adjacent <- MCRing
    Lists = 2
    MaxSequence <- MCMaxSequence

SPECIFICATION FairSpec

INVARIANTS
    TypeOK
    KnowsIsTrue
    NeverGoesBack
    OwnListStaysAway

PROPERTY
    NeighboursLearn
