SPECIFICATION Spec
CONSTANTS
    Nobody = Nobody
    p1 = p1
    p2 = p2
    r1 = r1
    r2 = r2
    w1 = w1
    w2 = w2
    Processes = {p1, p2}
    Readers = {r1, r2}
    Writers = {w1, w2}
    HomeOf <- TwoHomes
    Ttl = 2
    MaxLoad = 1
    MaxVersion = 2
    MaxTime = 4
INVARIANTS ReadYourWrites BoundedStaleness OneLoadPerGeneration
PROPERTIES ReadersAreAnswered
CHECK_DEADLOCK FALSE
