\* Two tracks of one release, two recordings; four runs or resets, two at a time.
SPECIFICATION Spec
CONSTANTS
    t1 = t1
    t2 = t2
    rel = rel
    r1 = r1
    r2 = r2
    None = None
    Tracks = {t1, t2}
    Releases = {rel}
    Tracklist <- MCTracklist
    Recordings = {r1, r2}
    Registered = {r1, r2}
    Analysed = {r1}
    MaxBatch = 2
    WriteBatch = 2
    MaxStarts = 4
    MaxParallel = 2
SYMMETRY MCSymmetry
INVARIANTS
    OneRecording
    ExhaustedIsConfirmed
    CascadeComplete
    BooksBalance
CHECK_DEADLOCK FALSE
