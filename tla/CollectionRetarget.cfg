SPECIFICATION Spec
CONSTANTS
    none = none
    Paths <- MCPaths
    RefusedPaths <- MCRefusedPaths
    Collisions <- MCCollisions
    NoPath = none
    Entries <- MCEntries
    RefusedEntries <- MCRefusedEntries
    Covers <- MCCovers
    Texts <- MCTexts
    NoText = none
    BodyEntries <- MCTextEntries
    ManifestEntries <- MCTextEntries
    NoEntries = none
    NoSha = none
    Ceiling = 4
    Heads = {"h1"}
    Bases = {"b1", "b2"}
    Merges = {}
    Files <- MCFiles
    Manifest <- MCManifest
    PageSize = 2
    Requests <- BodyRequests
    Bodies = {"both", "blank"}
    StartRuns = {1}
    MaxRuns = 1
    StartReviews = {0}
    MaxReviews = 0
INVARIANTS
    DecidedAtBoundTuple
CHECK_DEADLOCK FALSE
