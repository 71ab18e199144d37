\* Replicas of two releases that start, fail and start again.
CONSTANTS
    Replica = {r1, r2, r3}
    carol = carol  eng = eng  lead = lead
    Files = 4
    Release <- Releases
    Row <- DemoRows
    Inserts <- InsertsOf
    Needs <- NeedsOf
    Lenient = {2}
    MaxFaults = 2
SPECIFICATION Spec
INVARIANTS TypeOK AppliedOnce ServesMigrated RemovedStays
PROPERTIES SomeServe AllServe
CHECK_DEADLOCK FALSE
