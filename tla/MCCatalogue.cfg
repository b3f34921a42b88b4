\* Four runs or resets, two at a time, and two failing queries or deaths.
SPECIFICATION Spec
CONSTANTS
    a = a
    b = b
    m = m
    l = l
    k1 = k1
    k2 = k2
    g = g
    h = h
    x = x
    y = y
    uk = uk
    europe = europe
    both = both
    GB = GB
    EU = EU
    q1 = q1
    q2 = q2
    None = None
    Releases = {a, b}
    Masters = {m}
    MasterOf <- MCMasterOf
    LabelsOf <- MCLabelsOf
    CreditsOf <- MCCreditsOf
    ArtistsOf <- MCArtistsOf
    Labels = {l, k1, k2}
    Markets = {uk, europe, both}
    Countries = {GB}
    Regions = {EU}
    NormalizeCountry <- MCNormalizeCountry
    Roster <- MCRoster
    Qids = {q1, q2}
    ItemOf <- MCItemOf
    Scopes <- MCScopes
    MaxStarts = 4
    MaxParallel = 2
    MaxFaults = 2
INVARIANTS
    DatedIsComplete
    EventsAreComplete
    MarkersMatchEdges
    FactsAreBacked
CHECK_DEADLOCK FALSE
