SPECIFICATION Spec
CONSTANTS
    Packages = {1, 2, 3}
    SdkVersion <- MCSdkVersion
    Pinned = 1
    Chunks = 2
    MaxAttempts = 2
    MaxRuns = 2
INVARIANT HashIsOfThePackage
