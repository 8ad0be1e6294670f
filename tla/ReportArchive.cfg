SPECIFICATION FairSpec
CONSTANTS
    r1 = r1
    r2 = r2
    r3 = r3
    c1 = c1
    c2 = c2
    b1 = b1
    Reports = {r1, r2, r3}
    Contents = {c1, c2}
    Blobs = {b1}
    ContentOf <- MCContentOf
    BlobOf <- MCBlobOf
    MaxCycles <- MCCycles
    MaxStops = 1
INVARIANTS
    DeliveredIsReadable
    NoLeakedBlob
PROPERTIES
    DueIsDecided
    UnusedBlobGoes
CHECK_DEADLOCK FALSE
