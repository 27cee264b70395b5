\* Two runs, the second during or after the first, and faults at any point.
CONSTANTS
    Runs = {r1, r2}
    Connections = {c1, c2}
    BatchSize = 2
    Databases <- MCDatabases
    Passwords = {"bob"}
    Tables <- MCTables
    Constraints <- MCConstraints
    MaxFaults = 1
    MaxStray = 1
SYMMETRY Symmetry
SPECIFICATION Spec
INVARIANTS
    AllOrNothing
    FailsForACause
PROPERTIES
    SuccessStays
