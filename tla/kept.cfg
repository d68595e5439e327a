SPECIFICATION KeptSpec
CONSTANTS
    Kept = {"introspections", "snapshot", "index"}
    SchemaNames = {"auth", "public"}
    Callers = {c1, c2}
    Wanted <- MCSets
    Notices = {"name", "all"}
    TimeToLive = 1
    MaxChanges = 2
    MaxClock = 1
    Requested = {"app", "public"}
    Connections = 4
    Beginnings <- MCBeginnings
    Migrated <- MCMigrated
    MaxMigrations = 1
    WalkOrder <- MCWalk
    Texts <- MCTexts
    Names = {"run"}
    PartOf <- MCPartOf
    Resembles <- MCResembles
    MaxEdits = 1
SYMMETRY CallerSymmetry
CHECK_DEADLOCK FALSE
INVARIANT StaleIsNoticed
INVARIANT WhatIsSaidWas
INVARIANT WhatStoodIsSaid
INVARIANT QuietAnswersAreTrue
INVARIANT EveryHitWasTrue
 
PROPERTY StaleWithinTtl
