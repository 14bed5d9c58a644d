SPECIFICATION Spec
CONSTANTS
    l1 = l1 l2 = l2 l3 = l3 l4 = l4 p1 = p1 p2 = p2
    b1 = b1 b2 = b2 b3 = b3 b4 = b4 f1 = f1 f2 = f2
    r1 = r1 r2 = r2 k1 = k1 k2 = k2 w1 = w1 w2 = w2 None = None
    Lots = {l1, l2}
    Pallets = {}
    Boxes = {b1, b2, b3}
    Files = {}
    Requests = {r1, r2}
    Keys = {k1, k2}
    Workers = {w1, w2}
    Ledgers = {a1, a2}
    LotName <- MCLotName
    PalletLabel <- MCSameLabel
    BoxNumber <- MCBoxNumber
    FileReference <- MCSameReference
    KeyOf <- MCKeyOf
    PhotoOf <- MCPhotoOf
    ReceiptSize = 2
    NewNames = {}
    Kinds = {"receipt", "staged", "inbound", "return"}
SYMMETRY MCPurgeSymmetry
INVARIANTS
    TypeOK ProvenanceKept CountsAgree
PROPERTIES
    PurgeConfined PlainPurgeKeepsProvenance ConfirmedPurge CleanupRefinement
CHECK_DEADLOCK FALSE
