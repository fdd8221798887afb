SPECIFICATION Spec
CONSTANTS
    Builders = {"b1", "b2", "b3"}
    Processes = {"p", "q"}
    ProcessOf <- MCProcessOf
    JobOf <- MCJobOf
    Handles = {"h1", "h2"}
    MaxBuilds <- MCMaxBuilds
    MaxCrashes = 1
INVARIANTS
    LoadedRight
    LaunchOwnsWorkspace
    NoLeak
PROPERTY FailsOnFilesOnlyIfDisturbed
CHECK_DEADLOCK FALSE
