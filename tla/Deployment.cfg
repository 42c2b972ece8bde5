SPECIFICATION FairSpec
CONSTANTS
    Apis = {"api"}
    Seeders = {"seed"}
    Dumps = {"old", "new"}
    First = "old"
    Retention = 0
    MaxStops = 1
    MaxBackups = 1
    MaxRestores = 1
INVARIANTS
    TypeOK
    DumpIsKept
    SeededOnce
    ServedIsMigrated
PROPERTIES
    ReportedIsRestored
    ApisServe
CHECK_DEADLOCK FALSE
