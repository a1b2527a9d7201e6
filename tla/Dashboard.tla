------------------------------ MODULE Dashboard ------------------------------
(***************************************************************************)
(* The start of the admin panel: main, the queries AppProvider's creation  *)
(* starts and nobody awaits, HomePage.getData behind its spinner, which    *)
(* awaits the seven queries of callBackFunction one after the other, and   *)
(* the tiles HomePage draws when they are done, once.                      *)
(*                                                                         *)
(* Meanwhile the other clients of the shop place, move and complete        *)
(* orders and sign up.  The seven answers are of seven moments.            *)
(***************************************************************************)
EXTENDS Integers, FiniteSets, FiniteSetsExt

CONSTANTS Orders,        \* the orders of the shop
          People,        \* its users
          Categories,    \* its categories and products, which nobody changes
          Products,      \*   here: the desks have modules of their own
          Price,         \* OrderModel.totalPrice
          Suspects       \* the orders that may be unreadable

ASSUME DashboardFinite == /\ IsFiniteSet(Orders)
                          /\ IsFiniteSet(People)
                          /\ IsFiniteSet(Categories)
                          /\ IsFiniteSet(Products)
ASSUME PriceType == Price \in [Orders -> Nat]
ASSUME SuspectsType == Suspects \subseteq Orders

VARIABLES
    orders,        \* status of each order document
    unreadable,    \* the orders OrderModel.fromJson throws on
    people,        \* the user documents
    online,        \* no query of this process fails
    early,         \* the two queries nobody awaits
    loading,       \* how far main and getData are
    lists,         \* the seven lists of AppProvider
    totalEarning,  \* AppProvider._totalEarning
    tiles,         \* what HomePage's last build drew
    atStart,       \* history: orders and people when the panel was started
    erred          \* history: the queries for categories that threw since

backend  == <<orders, unreadable, people>>
provider == <<lists, totalEarning>>
history  == <<atStart, erred>>
vars     == <<backend, online, early, loading, provider, tiles, history>>

Ledger == INSTANCE OrderLedger WITH ledger <- orders

-----------------------------------------------------------------------------
Stored  == Ledger!Stored
Awaited == {"users", "categories", "products"} \cup Stored
Forked  == {"users", "categories"}

(* What a query finds now.  An order document that cannot be read (an      *)
(* integer totalPrice, a missing field) makes the whole query throw.       *)
Found(q) ==
    CASE q = "users"      -> people
      [] q = "categories" -> Categories
      [] q = "products"   -> Products
      [] OTHER            -> {o \in Orders : orders[o] = q}

Readable(q) == q \notin Stored \/ Found(q) \cap unreadable = {}

(* Mutant of After: the board is asked backwards.  *)
AfterBackwards(q) ==
    CASE q = "users"      -> "categories"
      [] q = "categories" -> "products"
      [] q = "products"   -> "Completed"
      [] q = "Completed"  -> "Cancel"
      [] q = "Cancel"     -> "Delivery"
      [] q = "Delivery"   -> "Pending"
      [] q = "Pending"    -> "frame"

(* callBackFunction: the order of its awaits.  *)
After(q) ==
    CASE q = "users"      -> "categories"
      [] q = "categories" -> "products"
      [] q = "products"   -> "Completed"
      [] q = "Completed"  -> "Cancel"
      [] q = "Cancel"     -> "Pending"
      [] q = "Pending"    -> "Delivery"
      [] q = "Delivery"   -> "frame"

Earned(S) == MapThenSumSet(LAMBDA o : Price[o], S)

(* A query nobody awaits: an empty answer stands for an error, too.  *)
EarlyQueries == [phase: {"unasked", "asked", "answered", "over"},
                 rows: (SUBSET People) \cup (SUBSET Categories)]
EarlyAt(p) == [phase |-> p, rows |-> {}]

NoLists == [q \in Awaited |-> {}]
NoTiles == << >>

Init ==
    /\ orders \in [Orders -> Ledger!Statuses]
    /\ unreadable \in SUBSET Suspects
    /\ people \in SUBSET People
    /\ online \in BOOLEAN
    /\ early = [q \in Forked |-> EarlyAt("unasked")]
    /\ loading = "boot"
    /\ lists = NoLists
    /\ totalEarning = 0
    /\ tiles = NoTiles
    /\ atStart = [orders |-> orders, people |-> people]
    /\ erred = {}

-----------------------------------------------------------------------------
(* main: after Firebase.initializeApp HomePage.initState runs getData,     *)
(* whose Provider.of creates the AppProvider, which starts its two queries *)
(* before callBackFunction starts its first.                               *)
InitializeApp ==
    /\ loading = "boot"
    /\ loading' = "users"
    /\ early' = [q \in Forked |-> EarlyAt("asked")]
    /\ UNCHANGED <<backend, online, provider, tiles, history>>

(* It throws: runApp is not reached.  *)
InitializeFails ==
    /\ loading = "boot"
    /\ ~online
    /\ loading' = "failed"
    /\ UNCHANGED <<backend, online, early, provider, tiles, history>>

(* An awaited query returns; getCompletedOrder adds to the total.  *)
Return(q) ==
    /\ loading = q
    /\ Readable(q)
    /\ lists' = [lists EXCEPT ![q] = Found(q)]
    /\ totalEarning' = IF q = "Completed" THEN totalEarning + Earned(Found(q))
                                          ELSE totalEarning
    /\ loading' = After(q)
    /\ UNCHANGED <<backend, online, early, tiles, history>>

(* An awaited query throws.  getCategories catches that and returns the    *)
(* empty list; nobody catches the others, and the spinner stays.           *)
Throw(q) ==
    /\ loading = q
    /\ ~online \/ ~Readable(q)
    /\ IF q = "categories"
       THEN /\ lists' = [lists EXCEPT ![q] = {}]
            /\ loading' = After(q)
            /\ erred' = erred \cup {"awaited"}
       ELSE /\ loading' = "failed"
            /\ UNCHANGED <<lists, erred>>
    /\ UNCHANGED <<backend, online, early, totalEarning, tiles, atStart>>

(* HomePage.build: the lengths of the lists, and the earnings.  *)
Drawn == [q \in Awaited \cup {"earning"} |->
             IF q = "earning" THEN totalEarning ELSE Cardinality(lists[q])]

(* Mutants of Frame: isLoading is not reset, and getData does not await    *)
(* callBackFunction.                                                       *)
FrameKeepsSpinner ==
    /\ loading = "frame"
    /\ tiles' = Drawn
    /\ UNCHANGED <<backend, online, early, loading, provider, history>>

FrameEarly ==
    /\ loading \in Awaited \cup {"frame"}
    /\ loading' = "open"
    /\ tiles' = Drawn
    /\ UNCHANGED <<backend, online, early, provider, history>>

(* getData's last setState, and the build that follows it.  *)
Frame ==
    /\ loading = "frame"
    /\ loading' = "open"
    /\ tiles' = Drawn
    /\ UNCHANGED <<backend, online, early, provider, history>>

-----------------------------------------------------------------------------
(* The queries nobody awaits: answered at one moment, ...  *)
AnswerEarly(q) ==
    /\ early[q].phase = "asked"
    /\ early' = [early EXCEPT ![q] = [phase |-> "answered", rows |-> Found(q)]]
    /\ UNCHANGED <<backend, online, loading, provider, tiles, history>>

(* Mutant of ThrowEarly: users are treated like categories.  *)
ThrowEarlyCaught(q) ==
    /\ early[q].phase = "asked"
    /\ ~online
    /\ early' = [early EXCEPT ![q] = EarlyAt("answered")]
    /\ erred' = erred \cup {"early"}
    /\ UNCHANGED <<backend, online, loading, provider, tiles, atStart>>

(* ... or in error: getUserListFun then ends before its assignment.  *)
ThrowEarly(q) ==
    /\ early[q].phase = "asked"
    /\ ~online
    /\ early' = [early EXCEPT ![q] =
                    EarlyAt(IF q = "categories" THEN "answered" ELSE "over")]
    /\ erred' = IF q = "categories" THEN erred \cup {"early"} ELSE erred
    /\ UNCHANGED <<backend, online, loading, provider, tiles, atStart>>

(* ... and assigned at a later one; nobody is notified.  *)
ArriveEarly(q) ==
    /\ early[q].phase = "answered"
    /\ lists' = [lists EXCEPT ![q] = early[q].rows]
    /\ early' = [early EXCEPT ![q] = EarlyAt("over")]
    /\ UNCHANGED <<backend, online, loading, totalEarning, tiles, history>>

-----------------------------------------------------------------------------
(* The other clients of the shop.  *)
Advance(o) ==
    /\ Ledger!Advance(o)
    /\ UNCHANGED <<unreadable, people, online, early, loading, provider, tiles, history>>

SignUp(p) ==
    /\ p \notin people
    /\ people' = people \cup {p}
    /\ UNCHANGED <<orders, unreadable, online, early, loading, provider, tiles, history>>

(* Mutant of Restart: a reload that keeps the provider.  *)
RestartKeeps ==
    /\ online' \in BOOLEAN
    /\ early' = [q \in Forked |-> EarlyAt("unasked")]
    /\ loading' = "boot"
    /\ tiles' = NoTiles
    /\ atStart' = [orders |-> orders, people |-> people]
    /\ erred' = {}
    /\ UNCHANGED <<backend, provider>>

(* The process ends and is started again, with a new AppProvider.  *)
Restart ==
    /\ online' \in BOOLEAN
    /\ early' = [q \in Forked |-> EarlyAt("unasked")]
    /\ loading' = "boot"
    /\ lists' = NoLists
    /\ totalEarning' = 0
    /\ tiles' = NoTiles
    /\ atStart' = [orders |-> orders, people |-> people]
    /\ erred' = {}
    /\ UNCHANGED backend

-----------------------------------------------------------------------------
Load ==
    \/ InitializeApp
    \/ InitializeFails
    \/ \E q \in Awaited : Return(q) \/ Throw(q)
    \/ Frame

Next ==
    \/ Load
    \/ \E q \in Forked : AnswerEarly(q) \/ ThrowEarly(q) \/ ArriveEarly(q)
    \/ \E o \in Orders : Advance(o)
    \/ \E p \in People : SignUp(p)
    \/ Restart

Spec == Init /\ [][Next]_vars

-----------------------------------------------------------------------------
(* The load, the lists and the tiles have the shape the code gives them.   *)
TypeOK ==
    /\ orders \in [Orders -> Ledger!Statuses]
    /\ unreadable \subseteq Orders
    /\ people \subseteq People
    /\ online \in BOOLEAN
    /\ early \in [Forked -> EarlyQueries]
    /\ loading \in Awaited \cup {"boot", "frame", "open", "failed"}
    /\ lists \in [Awaited -> (SUBSET Orders) \cup (SUBSET People)
                               \cup (SUBSET Categories) \cup (SUBSET Products)]
    /\ totalEarning \in Nat
    /\ IF loading = "open" THEN tiles \in [Awaited \cup {"earning"} -> Nat]
                           ELSE tiles = NoTiles
    /\ atStart \in [orders: [Orders -> Ledger!Statuses], people: SUBSET People]
    /\ erred \subseteq {"early", "awaited"}

(* The earnings are the prices of the orders on the completed list, each   *)
(* counted once, and those orders are still completed.                     *)
EarningsCount ==
    /\ totalEarning = Earned(lists["Completed"])
    /\ \A o \in lists["Completed"] : orders[o] = "Completed"

Loaded == loading \in {"frame", "open"}
Moved  == {o \in Orders : orders[o] # atStart.orders[o]}

(* An order that was placed before the panel started and is still to be    *)
(* worked on is on the pending or the delivery list, whatever the other    *)
(* clients did between the queries, and one that nobody moved is on the    *)
(* list of its status and no other.  (One that was completed or cancelled  *)
(* between two queries may be on no list at all.)                          *)
NothingMissed ==
    Loaded =>
        /\ \A o \in Orders :
              atStart.orders[o] # "Absent" /\ orders[o] \in {"Pending", "Delivery"}
                => o \in lists["Pending"] \cup lists["Delivery"]
        /\ \A o \in Orders \ Moved : \A s \in Stored :
              o \in lists[s] <=> orders[o] = s

(* The tiles, drawn once and never again, are off by no more than what the *)
(* other clients changed since the start; the earnings never exceed the    *)
(* prices of the completed orders.                                         *)
TilesBracket ==
    loading = "open" =>
        /\ \A s \in Stored :
              LET still == Cardinality({o \in Orders \ Moved : orders[o] = s})
              IN  tiles[s] \in still .. still + Cardinality(Moved)
        /\ tiles["users"] \in Cardinality(atStart.people) .. Cardinality(people)
        /\ \/ tiles["categories"] = Cardinality(Categories)
           \/ tiles["categories"] = 0 /\ erred # {}
        /\ tiles["products"] = Cardinality(Products)
        /\ tiles["earning"] <= Earned({o \in Orders : orders[o] = "Completed"})

(* What the queries nobody awaits can do to the lists, however late they   *)
(* are and whichever fails: no user the panel found at its start is lost;  *)
(* the categories are all there or, as getCategories returns the empty     *)
(* list for an error, none.  None only if the awaited query threw, or if   *)
(* the other one did and its empty answer has been assigned: the awaited   *)
(* answer is then gone for good.                                           *)
OnlyErrorsEmpty ==
    Loaded =>
        /\ atStart.people \subseteq lists["users"]
        /\ lists["categories"] \in {Categories, {}}
        /\ \/ lists["categories"] = Categories
           \/ "awaited" \in erred
           \/ "early" \in erred /\ early["categories"].phase = "over"

-----------------------------------------------------------------------------
(* Every await of main and getData ends, and the frame is drawn.  *)
Fairness == WF_vars(Load)

FairSpec == Spec /\ Fairness

(* The spinner gives way to the dashboard, or the panel is restarted.  It  *)
(* stays for good only if a query may have failed, or if there is an order *)
(* that cannot be read: no other client's doing holds the load up, and an  *)
(* error of the categories alone does not.                                 *)
DashboardOpens ==
    loading = "users" ~>
        \/ loading \in {"open", "boot"}
        \/ /\ loading = "failed"
           /\ ~online \/ \E o \in unreadable : orders[o] # "Absent"
=============================================================================
