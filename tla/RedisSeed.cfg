SPECIFICATION SeedSpec
CONSTANTS
    Seeders = {j1, j2}
    Servers = {s1}
    Indexes = {{}, {"A", "B"}, {"B", "C"}}
    Main = Main
    MaxFaults = 1
    MaxLosses = 1
INVARIANTS
    NeverHalfSeeded
    NeverSilentlyRejects
