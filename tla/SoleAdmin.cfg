CONSTANTS
    Orders = {o1, o2}
    Taps = {t1, t2}
SPECIFICATION FairSole
INVARIANTS CopiesAgree BoardMirrorsOrders MovedIsTapped BoardPartition
PROPERTIES FollowsLedger TapSettles
