CONSTANTS
    k1 = k1
    k2 = k2
    b1 = b1
    b2 = b2
    p = p
    q = q
    None = None
    Request = {r1}
    Key = {k1, k2}
    Body = {b1, b2}
    Consumer = {p, q}
    ConsumerOf <- MCConsumerOf
    Asked <- MCAsked
    MaxActive = 1
    MaxPerConsumer = 1
    Window = 2
    Retention = 3
    Grace = 1
    Read = {1}
    Lag = 1
    MaxCollections = 2
    Horizon = 4
SPECIFICATION AdmissionSpec
PROPERTIES RecentReadsSurvive
CHECK_DEADLOCK FALSE
