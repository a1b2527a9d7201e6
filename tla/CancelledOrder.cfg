CONSTANTS
    Orders = {o1, o2}
    Taps = {t1, t2}
SYMMETRY Symmetry
SPECIFICATION Spec
INVARIANT CancelSticks
