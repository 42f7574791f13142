\* The state of the WebUI, with two of everything that may race.
CONSTANTS
    None = None
    r1 = r1
    r2 = r2
    p1 = p1
    p2 = p2
    t1 = t1
    t2 = t2
    c1 = c1
SPECIFICATION PartsSpec
INVARIANTS TypeOK DecisionsKept AnswersTrue
PROPERTIES ResultsGoForward
CHECK_DEADLOCK FALSE
