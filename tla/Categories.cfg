CONSTANTS
    Categories = {c1, c2}
    Taps = {t1, t2}
SPECIFICATION FairSpec
INVARIANTS TypeOK CategoriesMirror PicturesShown
PROPERTIES ServesCatalogue SpinnerStops
