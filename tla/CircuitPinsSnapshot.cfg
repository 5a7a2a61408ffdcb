SPECIFICATION PinsSpec
CONSTANTS
    Checksum = {h1, h2}
    MaxCodes = 2
    MaxCircuits = 2
INVARIANT SnapshotsRestore
