SPECIFICATION Spec
CONSTANTS
    none = none
    Paths <- MCPaths
    RefusedPaths <- MCRefusedPaths
    Collisions <- MCCollisions
    NoPath = none
    Entries <- MCEntries
    RefusedEntries <- MCRefusedEntries
    Covers <- MCCovers
    Texts <- MCTexts
    NoText = none
    BodyEntries <- MCTextEntries
    ManifestEntries <- MCTextEntries
    NoEntries = none
    NoSha = none
    Ceiling = 4
    Heads = {"h5"}
    Bases = {"b1"}
    Merges = {}
    Files <- MCFiles
    Manifest <- MCManifest
    PageSize = 2
    Requests <- BodyRequests
    Bodies = {"both"}
    StartRuns = {1, 4}
    MaxRuns = 6
    StartReviews = {1, 5}
    MaxReviews = 5
INVARIANTS
    PartialNeverDecides
    ChecksAreAccountedFor
    ReviewsAreComplete
CHECK_DEADLOCK FALSE
