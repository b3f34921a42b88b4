\* The real stage graph at the concurrency of the deployment.
SPECIFICATION Safety
CONSTANTS
    Order <- ReloadOrder
    Deps <- ReloadDeps
    Resources <- ReloadResources
    Concurrency = 3
    AlreadyDone <- MCAlreadyDone
    MCUnfinished = {
        {"track-musicbrainz"},
        {"releases", "mb-release-events", "verify"},
        {"artist-genres", "person-reconciliation", "verify"},
        {"group-members", "artist-wikidata", "band-membership", "verify"}}
INVARIANTS
    RunAlone
CHECK_DEADLOCK FALSE
