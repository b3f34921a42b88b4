\* One track, as no step relates two; five runs or clears, Genius on both sides.
SPECIFICATION LyricsSpec
CONSTANTS
    None = None
    Tracks = {t1}
    HasGenius = {"service", "script"}
    MaxStarts = 5
INVARIANT
    FunnelHolds
PROPERTY
    LrclibLyricsKept
CHECK_DEADLOCK FALSE
