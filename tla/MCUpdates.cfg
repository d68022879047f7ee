SPECIFICATION Spec
CONSTANTS
    Pages = {p1}
    Sortings = {byName, byNoise}
    MaxVersion = 3
    source = source
    ticker = ticker
    None = None
INVARIANTS
    TypeOK
    NothingHeldBack
    InSync
PROPERTIES
    HeldIsPushed
CHECK_DEADLOCK FALSE
