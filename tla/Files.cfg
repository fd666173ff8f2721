CONSTANTS
    Conns = {c1, c2}
    Paths <- Tree
    MaxRequests = 1
SPECIFICATION Spec
SYMMETRY Symmetry
INVARIANTS TypeOK AnswersAreTrue
PROPERTIES OnlyRacesDestroy
CHECK_DEADLOCK FALSE
