CONSTANTS
    one = one
    two = two
    far = far
    Runs = {r1, r2, r3}
    Processes <- ProcessesDef
    HostOf <- HostDef
    PidOf <- PidDef
    BuildOf <- BuildDef
    Watched = {one}
    OldTexts = {"old"}
    MaxEvents = 2
SPECIFICATION BootFairSpec
INVARIANTS
    BootTypeOK
PROPERTIES
    OneOwner
    TextKept
    BootsAgain
