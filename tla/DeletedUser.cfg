CONSTANTS
    Users = {u1, u2}
    Taps = {t1, t2}
SYMMETRY Symmetry
SPECIFICATION PanelSpec
INVARIANT DeletedIsGone
CHECK_DEADLOCK FALSE
