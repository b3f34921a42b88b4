\* Two releases, one Discogs id, two MBIDs, three Musician nodes.
SPECIFICATION Spec
CONSTANTS
    d1 = d1
    m1 = m1
    m2 = m2
    nm = nm
    alias = alias
    a = a
    b = b
    t = t
    u = u
    None = None
    Ids = {d1}
    Mbids = {m1, m2}
    Names = {nm, alias}
    Releases = {a, b}
    Targets = {t, u}
    ReleaseOf <- MCReleaseOf
    Recorded = {t, u}
    ReleasedBy <- MCReleasedBy
    Extraartists <- MCExtraartists
    Performers <- MCPerformers
    MbName <- MCMbName
    DiscogsLink <- MCDiscogsLink
    Nodes = {1, 2, 3}
    MaxIngests = 2
    MaxStarts = 3
    MaxDeaths = 1
INVARIANTS
    FallbackUnique
    CountryOfOwnKey
    ReconciledLinksStay
PROPERTY
    DiscogsCreditsKept
CHECK_DEADLOCK FALSE
