SPECIFICATION PinsSpec
CONSTANTS
    Checksum = {h1, h2}
    MaxCodes = 3
    MaxCircuits = 3
INVARIANTS RowsAreCodes
PROPERTIES SyncRepairsEngine DriftSources
