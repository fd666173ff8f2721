CONSTANTS
    Requests = {r1, r2, r3, r4, r5}
    Users = {ada, bob}
    MaxIds = 6
    MaxFailures = 2
SPECIFICATION Spec
SYMMETRY Symmetry
INVARIANTS TypeOK DriftIsOnePerDeath MachinesUnshared
CHECK_DEADLOCK FALSE
