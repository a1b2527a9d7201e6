CONSTANTS
    o1 = o1
    o2 = o2
    Orders = {o1, o2}
    People = {u1}
    Categories = {c1}
    Products = {p1}
    Price <- MCPrice
    Suspects = {o2}
SPECIFICATION FairSpec
INVARIANTS TypeOK EarningsCount NothingMissed TilesBracket OnlyErrorsEmpty
PROPERTY DashboardOpens
