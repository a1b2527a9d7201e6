CONSTANTS
    Users = {u1, u2}
    Taps = {t1, t2}
SYMMETRY Symmetry
SPECIFICATION PatientSpec
INVARIANTS ListedOnce FreshRows RosterMirrors
PROPERTIES OnlyDeletedLeave NothingPutBack
CHECK_DEADLOCK FALSE
