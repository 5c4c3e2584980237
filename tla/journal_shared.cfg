SPECIFICATION Spec
CONSTANTS
    Writers = {w1, w2}
    None = None
    Overlap = TRUE
    MaxWrites = 3
    MaxOutages = 0
PROPERTIES
    EntryStays
CHECK_DEADLOCK FALSE
