SPECIFICATION Spec
CONSTANTS
    l1 = l1 l2 = l2 l3 = l3 l4 = l4 p1 = p1 p2 = p2
    b1 = b1 b2 = b2 b3 = b3 b4 = b4 f1 = f1 f2 = f2
    r1 = r1 r2 = r2 k1 = k1 k2 = k2 w1 = w1 w2 = w2 None = None
    Lots = {l1, l2}
    Pallets = {p1, p2}
    Boxes = {b1, b2, b3}
    Files = {f1, f2}
    Requests = {r1}
    Keys = {}
    Workers = {}
    Ledgers = {a1}
    LotName <- MCLotName
    PalletLabel <- MCSameLabel
    BoxNumber <- MCBoxNumber
    FileReference <- MCSameReference
    KeyOf <- MCKeyOf
    PhotoOf <- MCPhotoOf
    ReceiptSize = 3
    NewNames = {l1}
    Kinds = {"staged", "lot"}
VIEW MCMergeView
SYMMETRY MCMergeSymmetry
INVARIANTS
    GraphClosed IdentitiesUnique LabelsLead ActiveBoxOnActivePallet
PROPERTIES
    BarcodesRetired ActiveBoxSurvives ConfirmedMerge
CHECK_DEADLOCK FALSE
