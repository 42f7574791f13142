\* One or two of those who wait.
CONSTANTS
    None = None
    s1 = s1
    r1 = r1
    r2 = r2
    n1 = n1
    n2 = n2
    c1 = c1
    c2 = c2
    t1 = t1
    t2 = t2
SPECIFICATION PartsFairSpec
INVARIANTS TypeOK
PROPERTIES ToldOnceInOrder WaitingEnds
CHECK_DEADLOCK FALSE
