CONSTANTS
    d1 = d1
    runtime = runtime
    atlas = atlas
    Panels <- MCPanels
    Decisions <- MCDecisions
    PollInterval = 2
    MaxInFlight = 2
    MaxChanges = 1
    MaxFailures = 1
    KeepLogs = 7
    Repos <- MCRepos
SPECIFICATION MCSpec
INVARIANTS
    TimelineOwned
    ScreensFollowState
PROPERTIES
    PanelsCatchUp
    SyncButtonReleased
    PlayingStops
CHECK_DEADLOCK FALSE
