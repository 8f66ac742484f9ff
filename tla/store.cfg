\* Two uploads and a download at once: cut transfers, failures, a crash.
SPECIFICATION Spec
CONSTANTS
    u1 = u1
    u2 = u2
    d1 = d1
    d2 = d2
    whole = whole
    cut = cut
    here = here
    there = there
    Upload = {u1, u2}
    Sync = {d1, d2}
    Content = {whole, cut}
    Local <- Uploaded
    Piece <- CutShort
    Length <- Lengths
    Remote <- FromPeer
    IntMax = 6
    MaxParts = 1
    MaxStores = 3
    MaxTrouble = 2
INVARIANTS
    TypeOK
    AckedServed
    FileBeforeName
    CountSound
    RangeServed
SYMMETRY Twins
CHECK_DEADLOCK FALSE
