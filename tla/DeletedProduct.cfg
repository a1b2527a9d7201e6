CONSTANTS
    Products = {p1}
    Taps = {t1, t2}
SYMMETRY Symmetry
SPECIFICATION Spec
INVARIANT DeletedIsDeleted
