CONSTANTS
    Users = {u1, u2}
    Taps = {t1, t2}
SPECIFICATION FairPanel
INVARIANTS TypeOK SpinnerHasDelete
PROPERTIES ServesCatalogue SpinnerStops
CHECK_DEADLOCK FALSE
