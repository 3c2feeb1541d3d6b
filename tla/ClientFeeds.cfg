SPECIFICATION Spec
CONSTANTS
    r1 = r1
    r2 = r2
    None = None
    Rows <- MCRows
    LocalWrites <- MCWrites
    ForeignWrites <- MCForeign
    MaxCommits = 3
    MaxExternal = 1
    MaxBatchRows = 1
    MaxQueued = 2
    MaxResends = 1
    MaxDisruptions = 2
    MaxEvents = 3
INVARIANTS
    FeedTypeOK
    RefusesOnlyCopies
PROPERTIES
    RowsNeverGoBack
    CatchesUp
    SupersededSessionsEnd
\* Nothing is left to do once the panel is gone, or shows all that was committed.
CHECK_DEADLOCK FALSE
