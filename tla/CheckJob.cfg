SPECIFICATION Spec
CONSTANTS
    none = none
    apps = apps
    both = both
    empty = empty
    Paths <- MCPaths
    RefusedPaths <- MCRefusedPaths
    Collisions = {}
    NoPath = none
    Entries <- MCEntries
    RefusedEntries <- MCRefusedEntries
    Covers <- MCCovers
    Texts <- MCTexts
    NoText = none
    BodyEntries <- MCBodyEntries
    ManifestEntries <- MCManifestEntries
    NoEntries = none
    NoSha = none
    Ceiling = 4
    Heads = {"h1", "h2", "h3"}
    Base = "b1"
    Bodies <- MCBodies
    EmptyText = empty
    Manifest = both
    Files <- MCFiles
    Policies <- AllPolicies
    MaxEvents = 2
    MaxAttempts = 2
INVARIANTS
    TypeOK
    GenuineVerifies
    GreenJobIsCoherent
    EditedCopyIsSupported
    LatestJobDecides
CHECK_DEADLOCK FALSE
