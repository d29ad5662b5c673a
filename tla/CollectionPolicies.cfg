SPECIFICATION Spec
CONSTANTS
    none = none
    Paths <- MCPaths
    RefusedPaths <- MCRefusedPaths
    Collisions <- MCCollisions
    NoPath = none
    Entries <- MCEntries
    RefusedEntries <- MCRefusedEntries
    Covers <- MCCovers
    Texts <- MCTexts
    NoText = none
    BodyEntries <- MCTextEntries
    ManifestEntries <- MCTextEntries
    NoEntries = none
    NoSha = none
    Ceiling = 4
    Heads = {"h1", "h4"}
    Bases = {"b1", "b2"}
    Merges = {"m1"}
    Files <- MCFiles
    Manifest <- MCManifest
    PageSize = 2
    Requests <- AllRequests
    Bodies = {"wide", "both", none}
    StartRuns = {1}
    MaxRuns = 1
    StartReviews = {0}
    MaxReviews = 0
INVARIANTS
    DecidedIsTrue
    DecidedScopeIsAdmissible
    PartialNeverDecides
CHECK_DEADLOCK FALSE
