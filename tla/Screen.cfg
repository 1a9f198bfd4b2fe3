\* Two devices, either of which may have been seeded, that compete for a pane of
\* one row; a feed of two alerts that three have to go through, in a pane of one.
\* The program may end.
SPECIFICATION FairSpec
CONSTANTS
    Mac = {m1, m2}
    Time = {1, 2}
    None = None
    MAX_ALERTS = 2
    TableRows = 1
    AlertRows = 1
    MaxCounted = 3
INVARIANTS FeedIsNewest
PROPERTIES RowsYieldToRows HighlightMovesByKeysOnly DevicesGetShown AlertsGetShown
CHECK_DEADLOCK FALSE
