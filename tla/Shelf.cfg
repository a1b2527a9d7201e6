CONSTANTS
    Products = {p1, p2}
    Taps = {t1, t2, t3}
SYMMETRY Symmetry
SPECIFICATION Spec
INVARIANTS TypeOK ShelfMirrors
PROPERTY ServesCatalogue
