CONSTANTS
    Orders = {o1, o2}
    Taps = {t1}
SYMMETRY Symmetry
SPECIFICATION SoleSpec
INVARIANT EmptyIsEmpty
