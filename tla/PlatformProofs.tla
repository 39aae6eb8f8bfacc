--------------------------- MODULE PlatformProofs ---------------------------
(***************************************************************************)
(* Proofs about the parts that share no state with each other: the server  *)
(* processes, the stock of an ingredient, a student's memberships, the     *)
(* policies of an institution, the tabs of a browser, the deployments, the *)
(* workspace of a person and the forecasts of a meal.  Each theorem is     *)
(* about the specification of its part alone.                              *)
(***************************************************************************)
EXTENDS Server, Stock, Residence, Policies, Browser, Migrator, Workspace, Forecast,
        SharedLemmas, TLAPS

-----------------------------------------------------------------------------
(* Server processes. *)

ServerTypeOK ==
  /\ process \in [Instance -> {"up", "stopping", "closing", "exited", "killed"}]
  /\ tick \in [Instance -> {"none", "connecting", "locking", "jobs", "rejected"}]
  /\ lock \in SUBSET Instance

\* Whose tick works has the advisory lock, one at most; a process whose server
\* is closed, or which is gone, has no tick under way.
TickHasLock == \A i \in Instance : tick[i] = "jobs" <=> i \in lock
LockIsOnes == \A i, j \in lock : i = j
ClosedIsIdle ==
  \A i \in Instance : process[i] \in {"closing", "exited", "killed"} => tick[i] = "none"

ServerInv == ServerTypeOK /\ TickHasLock /\ LockIsOnes /\ ClosedIsIdle

LEMMA ServerInitial == ServerInit => ServerInv
  BY DEF ServerInit, ServerInv, ServerTypeOK, TickHasLock, LockIsOnes, ClosedIsIdle

LEMMA ServerInductive == ServerInv /\ [ServerNext]_serverVars => ServerInv'
<1> SUFFICES ASSUME ServerInv, [ServerNext]_serverVars
             PROVE  ServerInv'
  OBVIOUS
<1> USE DEF ServerInv, ServerTypeOK, TickHasLock, LockIsOnes, ClosedIsIdle
<1>1. ASSUME NEW h \in Handler, NEW i \in Instance, Arrive(h, i) \/ Acquire(h, i)
      PROVE  ServerInv'
  BY <1>1 DEF Arrive, Acquire
<1>2. ASSUME NEW h \in Handler, Finish(h)
      PROVE  ServerInv'
  BY <1>2 DEF Finish
<1>3. ASSUME NEW i \in Instance, TickStep(i)
      PROVE  ServerInv'
  <2>1. CASE TimerFires(i)
    BY <2>1 DEF TimerFires
  <2>2. CASE TickConnects(i)
    BY <2>2 DEF TickConnects
  <2>3. CASE TickCannotConnect(i)
    BY <2>3 DEF TickCannotConnect
  <2>4. CASE TryLock(i)
    BY <2>4 DEF TryLock, LockIsFree
  <2>5. CASE JobAsks(i) \/ JobConnects(i) \/ JobEnds(i)
    BY <2>5 DEF JobAsks, JobConnects, JobEnds
  <2>6. CASE TickEnds(i)
    BY <2>6 DEF TickEnds
  <2> QED
    BY <1>3, <2>1, <2>2, <2>3, <2>4, <2>5, <2>6 DEF TickStep
<1>4. ASSUME NEW i \in Instance, Shutdown(i)
      PROVE  ServerInv'
  BY <1>4 DEF Shutdown
<1>5. ASSUME NEW i \in Instance, CloseServer(i)
      PROVE  ServerInv'
  BY <1>5 DEF CloseServer, TickIsOver
<1>6. ASSUME NEW i \in Instance, ExitInOrder(i)
      PROVE  ServerInv'
  BY <1>6 DEF ExitInOrder
<1>7. ASSUME NEW i \in Instance, Killed(i)
      PROVE  ServerInv'
  BY <1>7 DEF Killed
<1>8. ASSUME NEW i \in Instance, Restart(i)
      PROVE  ServerInv'
  BY <1>8 DEF Restart
<1>9. CASE DatabaseGoes
  BY <1>9 DEF DatabaseGoes, TickHolds
<1>10. CASE DatabaseReturns
  BY <1>10 DEF DatabaseReturns
<1>11. CASE UNCHANGED serverVars
  BY <1>11 DEF serverVars
<1> QED
  BY <1>1, <1>2, <1>3, <1>4, <1>5, <1>6, <1>7, <1>8, <1>9, <1>10, <1>11 DEF ServerNext

LEMMA ServerInvariant == ServerSpec => []ServerInv
  BY ServerInitial, ServerInductive, PTL DEF ServerSpec

\* For any number of processes, one tick works at a time, through restarts and
\* outages of the database.
THEOREM OneTick == ServerSpec => []OneTickAtATime
<1>1. ServerInv => OneTickAtATime
  BY DEF ServerInv, ServerTypeOK, TickHasLock, LockIsOnes, OneTickAtATime
<1> QED
  BY <1>1, ServerInvariant, PTL

\* A process that exits in order cuts off neither a request nor a tick.
THEOREM OrderlyExits == ServerSpec => ExitsCutNothing
<1> DEFINE Cut(i) ==
      process'[i] = "exited" /\ process[i] # "exited" =>
        Served(i) = {} /\ tick[i] = "none" /\ i \notin lock
<1>1. ASSUME ServerInv, [ServerNext]_serverVars, NEW i \in Instance
      PROVE  Cut(i)
  <2> USE <1>1 DEF ServerInv, ServerTypeOK
  <2>1. CASE \E j \in Instance : ExitInOrder(j)
    BY <2>1 DEF ExitInOrder, ClosedIsIdle, TickHasLock
  <2>2. CASE \E j \in Instance : Shutdown(j) \/ CloseServer(j) \/ Killed(j) \/ Restart(j)
    BY <2>2 DEF Shutdown, CloseServer, Killed, Restart
  <2>3. CASE UNCHANGED process
    BY <2>3
  <2>4. CASE \E j \in Instance : TickStep(j)
    BY <2>4 DEF TickStep, TimerFires, TickConnects, TickCannotConnect, TryLock, JobAsks,
                JobConnects, JobEnds, TickEnds
  <2>5. CASE \/ \E h \in Handler, j \in Instance : Arrive(h, j) \/ Acquire(h, j)
             \/ \E h \in Handler : Finish(h)
             \/ DatabaseGoes \/ DatabaseReturns
    BY <2>5, <2>3 DEF Arrive, Acquire, Finish, DatabaseGoes, DatabaseReturns
  <2>6. CASE UNCHANGED serverVars
    BY <2>6, <2>3 DEF serverVars
  <2> QED
    BY <2>1, <2>2, <2>4, <2>5, <2>6 DEF ServerNext
<1>2. ServerInv /\ [ServerNext]_serverVars => [\A i \in Instance : Cut(i)]_serverVars
  BY <1>1
<1> QED
  BY <1>2, ServerInvariant, PTL DEF ServerSpec, ExitsCutNothing

-----------------------------------------------------------------------------
(* Stock. *)

StockTypeOK ==
  /\ onHand \in Int
  /\ movement \in [Clerk -> {NoMovement}
       \cup [stage : {"read"}, before : Int, signed : Int]]
  /\ warned \in BOOLEAN /\ overlap \in BOOLEAN

\* Unless movements overlapped, the one under way is alone, and counts from the
\* stock there is.
AloneReadsTruly ==
  ~overlap => \A c \in Clerk : movement[c] # NoMovement =>
                 OthersIdle(c) /\ movement[c].before = onHand

StockInv == StockTypeOK /\ AloneReadsTruly /\ NegativeStockIsFlagged

LEMMA StockInitial == StockInit => StockInv
<1> SUFFICES ASSUME StockInit PROVE StockInv
  OBVIOUS
<1>1. onHand = 0 /\ warned = FALSE /\ overlap = FALSE
  BY DEF StockInit
<1>2. movement = [c \in Clerk |-> NoMovement]
  BY DEF StockInit
<1>3. movement \in [Clerk -> {NoMovement}
         \cup [stage : {"read"}, before : Int, signed : Int]]
  BY <1>2
<1>6. onHand \in Int
  BY <1>1
<1>7. StockTypeOK
  BY <1>1, <1>3, <1>6, Zenon DEF StockTypeOK
<1>4. AloneReadsTruly
  BY <1>2 DEF AloneReadsTruly
<1>5. NegativeStockIsFlagged
  BY <1>1 DEF NegativeStockIsFlagged
<1> QED
  BY <1>4, <1>5, <1>7 DEF StockInv

LEMMA StockInductive == StockInv /\ [StockNext]_stockVars => StockInv'
<1> SUFFICES ASSUME StockInv, [StockNext]_stockVars
             PROVE  StockInv'
  OBVIOUS
<1> USE DEF StockInv, StockTypeOK, AloneReadsTruly, NegativeStockIsFlagged, OthersIdle
<1>1. ASSUME NEW c \in Clerk, NEW q \in Int, ReadStock(c, q)
      PROVE  StockInv'
  BY <1>1 DEF ReadStock, NoMovement
<1>2. ASSUME NEW c \in Clerk, InsertMovement(c)
      PROVE  StockInv'
  <2> DEFINE after == onHand + movement[c].signed
  <2>1. movement[c].signed \in Int /\ movement[c].before \in Int
    BY <1>2 DEF InsertMovement
  <2>2. /\ onHand' = after /\ after \in Int
        /\ warned' = (after < 0 /\ (warned \/ IsNegativeAfter(movement[c])))
        /\ overlap' = (overlap /\ (after < 0 \/ ~OthersIdle(c)))
        /\ movement' = [movement EXCEPT ![c] = NoMovement]
    BY <1>2, <2>1 DEF InsertMovement
  <2>3. StockTypeOK'
    BY <2>1, <2>2
  <2>4. AloneReadsTruly'
    BY <1>2, <2>2 DEF InsertMovement
  <2>5. NegativeStockIsFlagged'
    BY <1>2, <2>1, <2>2 DEF InsertMovement, IsNegativeAfter
  <2> QED
    BY <2>3, <2>4, <2>5
<1>3. ASSUME NEW c \in Clerk, AbortMovement(c)
      PROVE  StockInv'
  BY <1>3 DEF AbortMovement, NoMovement
<1>4. CASE \/ \E r \in Rules : UpdateStockSettings(r)
           \/ \E r \in Recipe : SetDishIngredients(r)
           \/ \E m \in Meal, t \in {{n} : n \in Servings} \cup {{}} : TargetChanges(m, t)
           \/ UNCHANGED stockVars
  BY <1>4 DEF UpdateStockSettings, SetDishIngredients, TargetChanges, stockVars
<1> QED
  <2>1. ASSUME NEW c \in Clerk, NEW q \in Quantity, ReadStock(c, q) \/ ReadStock(c, -q)
        PROVE  StockInv'
    BY <2>1, <1>1, StockAssumption
  <2> QED
    BY <2>1, <1>2, <1>3, <1>4 DEF StockNext

\* However many people record movements at the same time, stock below zero was
\* reported to somebody, unless movements overlapped.
THEOREM NegativeStockFlagged == StockSpec => []NegativeStockIsFlagged
<1>1. StockInv => NegativeStockIsFlagged
  BY DEF StockInv
<1> QED
  BY <1>1, StockInitial, StockInductive, PTL DEF StockSpec

\* What the advice to order is computed from.
AdviceTyped ==
  /\ rules \in Rules
  /\ recipe \in Recipe
  /\ target \in [Meal -> {{n} : n \in Servings} \cup {{}}]

LEMMA AdviceInductive == AdviceTyped /\ [StockNext]_stockVars => AdviceTyped'
<1> SUFFICES ASSUME AdviceTyped, [StockNext]_stockVars
             PROVE  AdviceTyped'
  OBVIOUS
<1> USE DEF AdviceTyped
<1>1. ASSUME NEW r \in Rules, UpdateStockSettings(r)
      PROVE  AdviceTyped'
  BY <1>1 DEF UpdateStockSettings
<1>2. ASSUME NEW r \in Recipe, SetDishIngredients(r)
      PROVE  AdviceTyped'
  BY <1>2 DEF SetDishIngredients
<1>3. ASSUME NEW m \in Meal, NEW t \in {{n} : n \in Servings} \cup {{}}, TargetChanges(m, t)
      PROVE  AdviceTyped'
  BY <1>3 DEF TargetChanges
<1>4. ASSUME UNCHANGED <<rules, recipe, target>>
      PROVE  AdviceTyped'
  BY <1>4
<1> QED
  BY <1>1, <1>2, <1>3, <1>4
     DEF StockNext, ReadStock, InsertMovement, AbortMovement, stockVars

\* Rounding up to a whole number, and rounding to the nearest one.
LEMMA CeilDivBounds ==
  ASSUME NEW a \in Nat, NEW p \in Nat \ {0}
  PROVE  /\ CeilDiv(a, p) \in Nat
         /\ a <= CeilDiv(a, p) * p
         /\ CeilDiv(a, p) * p < a + p
<1>1. a + p - 1 \in Nat
  OBVIOUS
<1> QED
  BY <1>1, DivBounds DEF CeilDiv

LEMMA RoundDivBounds ==
  ASSUME NEW a \in Nat, NEW b \in Nat \ {0}
  PROVE  /\ RoundDiv(a, b) \in Nat
         /\ 2 * b * RoundDiv(a, b) <= 2 * a + b
         /\ 2 * a < 2 * b * RoundDiv(a, b) + b
<1> DEFINE x == 2 * a + b
           p == 2 * b
           q == x \div p
<1>1. x \in Nat /\ p \in Nat \ {0}
  OBVIOUS
<1> HIDE DEF x, p
<1>2. q \in Nat /\ q * p <= x /\ x < q * p + p
  BY <1>1, DivBounds
<1> HIDE DEF q
<1>3. q * p = 2 * b * q
  BY <1>2 DEF p
<1>4. 2 * b * q <= 2 * a + b /\ 2 * a < 2 * b * q + b
  BY <1>2, <1>3 DEF x, p
<1> QED
  BY <1>2, <1>4 DEF RoundDiv, q, x, p

\* What the recipe, the settings and the uptake are.
LEMMA AdviceTypes ==
  ASSUME AdviceTyped
  PROVE  /\ recipe.quantity \in Nat
         /\ recipe.yield \in Nat \ {0}
         /\ rules.safety \in Nat /\ rules.pack \in Nat /\ rules.least \in Nat
         /\ \A m \in Meal : Uptake[m] \in Nat
<1>1. recipe.quantity \in PerServing /\ recipe.yield \in Yield
  BY DEF AdviceTyped, Recipe
<1>2. PerServing \subseteq Nat /\ Yield \subseteq 1..10000
  BY AdviceAssumption
<1>3. rules \in [safety : Nat, pack : Nat, least : Nat]
  BY AdviceAssumption DEF AdviceTyped
<1>4. \A m \in Meal : Uptake[m] \in Nat
  <2>1. \A m \in Meal : Uptake[m] \in 1..1000
    BY AdviceAssumption
  <2> QED
    BY <2>1
<1> DEFINE q == recipe.quantity
           y == recipe.yield
<1>5. q \in PerServing /\ y \in Yield
  BY <1>1
<1> HIDE DEF q, y
<1>6. q \in Nat /\ y \in Nat \ {0}
  <2>1. q \in Nat
    BY <1>2, <1>5
  <2>2. y \in 1..10000
    BY <1>2, <1>5
  <2> QED
    BY <2>1, <2>2
<1>7. rules.safety \in Nat /\ rules.pack \in Nat /\ rules.least \in Nat
  BY <1>3
<1> QED
  BY <1>4, <1>6, <1>7 DEF q, y

\* What one meal needs, and what the page shows of it.
LEMMA NeedsBounds ==
  ASSUME AdviceTyped, NEW m \in Meal
  PROVE  /\ Needed(m) \in Nat
         /\ Required(m) \in Nat
         /\ Needed(m) <= (Required(m) + 5) * recipe.yield
<1> DEFINE needed == [n \in Servings |-> DishServings(m, n) * recipe.quantity * 1000]
           y == recipe.yield
<1>1. recipe.quantity \in Nat /\ y \in Nat \ {0} /\ Uptake[m] \in Nat
  BY AdviceTypes
<1>2. ASSUME NEW n \in Servings
      PROVE  needed[n] \in Nat
  <2>1. n * Uptake[m] \in Nat
    BY <1>1, Products, AdviceAssumption
  <2>2. DishServings(m, n) \in Nat
    <3> DEFINE x == n * Uptake[m]
    <3>1. x \in Nat /\ 1000 \in Nat \ {0}
      BY <2>1
    <3> HIDE DEF x
    <3>2. CeilDiv(x, 1000) \in Nat
      BY <3>1, CeilDivBounds
    <3> QED
      BY <3>2 DEF DishServings, x
  <2>3. DishServings(m, n) * recipe.quantity \in Nat
    BY <1>1, <2>2, Products
  <2> QED
    BY <2>3
<1>3. Needed(m) \in Nat
  <2>1. target[m] = {} \/ \E n \in Servings : target[m] = {n}
    BY DEF AdviceTyped
  <2>2. target[m] \subseteq Servings /\ IsFiniteSet(target[m])
    BY <2>1, FS_EmptySet, FS_Singleton
  <2> HIDE DEF needed
  <2>3. SumFunctionOnSet(needed, target[m]) \in Nat
    BY <1>2, <2>2, SumNat
  <2> QED
    BY <2>3 DEF needed, Needed
<1> HIDE DEF needed, y
<1> DEFINE w == 10 * y
           R == RoundDiv(Needed(m), w)
<1>4. w \in Nat \ {0}
  BY <1>1
<1> HIDE DEF w
<1>5. R \in Nat /\ 2 * Needed(m) < 2 * w * R + w
  BY <1>3, <1>4, RoundDivBounds
<1>6. Required(m) = R * 10
  BY DEF Required, R, w, y
<1> HIDE DEF R
<1>7. 2 * w * R + w = 2 * ((R * 10 + 5) * y)
  BY <1>1, <1>5 DEF w
<1>8. (R * 10 + 5) * y \in Nat
  BY <1>1, <1>5
<1>9. Needed(m) <= (R * 10 + 5) * y
  BY <1>3, <1>5, <1>7, <1>8
<1> QED
  BY <1>3, <1>5, <1>6, <1>9 DEF y

\* What all of them need, and how far the figures added up are from it.
LEMMA TotalBounds ==
  ASSUME AdviceTyped
  PROVE  LET exact == SumFunctionOnSet([m \in Meal |-> Needed(m)], Meal)
         IN  /\ TotalRequired \in Nat
             /\ exact \in Nat
             /\ Cardinality(Meal) \in Nat
             /\ exact <= (TotalRequired + 5 * Cardinality(Meal)) * recipe.yield
<1> DEFINE need == [m \in Meal |-> Needed(m)]
           req == [m \in Meal |-> Required(m)]
<1>1. IsFiniteSet(Meal) /\ recipe.yield \in Nat
  BY AdviceTypes, AdviceAssumption
<1>2. \A m \in Meal : need[m] \in Nat /\ req[m] \in Nat /\ need[m] <= (req[m] + 5) * recipe.yield
  BY NeedsBounds
<1> HIDE DEF need, req
<1>3. SumFunctionOnSet(need, Meal) \in Nat /\ SumFunctionOnSet(req, Meal) \in Nat
  BY <1>1, <1>2, SumNat
<1>4. SumFunctionOnSet(need, Meal)
        <= (SumFunctionOnSet(req, Meal) + 5 * Cardinality(Meal)) * recipe.yield
  BY <1>1, <1>2, SumScaled
<1>5. Cardinality(Meal) \in Nat
  BY <1>1, FS_CardinalityType
<1> QED
  BY <1>3, <1>4, <1>5 DEF need, req, TotalRequired

LEMMA PackTypes ==
  ASSUME AdviceTyped
  PROVE  Pack \in Nat \ {0} /\ Precision \in Nat \ {0}
BY AdviceTypes, AdviceAssumption DEF Pack, Precision

\* Packs for a fraction: as much as it but for the rounding, and none too many.
LEMMA PacksSuffice ==
  ASSUME AdviceTyped, NEW a \in Nat, NEW b \in Nat \ {0}
  PROVE  LET order == InPacks(<<a, b>>)
         IN  /\ \E k \in Nat : order = k * Pack
             /\ Attains(order, <<a, b>>)
             /\ (order - Pack) * b < a
<1> DEFINE u == Pack
           p == Precision
           w == b * u
           R == RoundDiv(a * p, w)
           k == CeilDiv(R, p)
<1>1. u \in Nat \ {0} /\ p \in Nat \ {0}
  BY PackTypes
<1> HIDE DEF u, p
<1>2. w \in Nat \ {0} /\ a * p \in Nat
  BY <1>1, Products
<1> HIDE DEF w
<1>3. R \in Nat /\ 2 * w * R <= 2 * (a * p) + w /\ 2 * (a * p) < 2 * w * R + w
  BY <1>2, RoundDivBounds
<1> HIDE DEF R
<1>4. k \in Nat /\ R <= k * p /\ k * p < R + p
  BY <1>1, <1>3, CeilDivBounds
<1> HIDE DEF k
<1>5. InPacks(<<a, b>>) = k * u
  BY DEF InPacks, k, R, w, p, u
<1>6. 2 * p * b * (k * u) + b * u >= 2 * p * a
  <2>1. w * R <= w * (k * p)
    BY <1>1, <1>2, <1>3, <1>4, Scale
  <2>2. w * (k * p) = p * b * (k * u)
    BY <1>1, <1>4 DEF w
  <2>3. w * R \in Nat /\ p * b * (k * u) \in Nat
    BY <1>1, <1>2, <1>3, <1>4
  <2>4. 2 * (a * p) < 2 * (p * b * (k * u)) + w
    BY <1>2, <1>3, <2>1, <2>2, <2>3
  <2> QED
    BY <1>1, <1>4, <2>3, <2>4 DEF w
<1>7. (k * u - u) * b < a
  <2>1. (k - 1) * p <= R - 1
    BY <1>1, <1>3, <1>4
  <2>2. w * ((k - 1) * p) <= w * (R - 1)
    BY <1>1, <1>2, <1>3, <1>4, <2>1, Scale
  <2>3. w * ((k - 1) * p) = p * ((k * u - u) * b)
    BY <1>1, <1>4 DEF w
  <2>4. 2 * (w * (R - 1)) < 2 * (a * p)
    BY <1>2, <1>3
  <2>5. p * ((k * u - u) * b) < p * a
    BY <1>1, <1>2, <1>3, <1>4, <2>2, <2>3, <2>4
  <2>6. (k * u - u) * b \in Int
    BY <1>1, <1>4
  <2> DEFINE x == (k * u - u) * b
  <2> HIDE DEF x
  <2>7. ~(a <= x)
    BY <1>1, <2>5, <2>6, Scale DEF x
  <2> QED
    BY <2>6, <2>7 DEF x
<1> QED
  BY <1>4, <1>5, <1>6, <1>7 DEF Attains, u, p

\* An order is what is missing, whatever is missing.
LEMMA OrderSuffices ==
  ASSUME AdviceTyped, NEW a \in Int, NEW b \in Nat \ {0}
  PROVE  Suffices(Order(<<a, b>>), <<a, b>>)
<1> DEFINE order == Order(<<a, b>>)
           least == rules.least
           u == Pack
           p == Precision
<1>1. least \in Nat /\ u \in Nat \ {0} /\ p \in Nat \ {0}
  BY AdviceTypes, PackTypes
<1>2. CASE a <= 0
  BY <1>2 DEF Suffices, Order
<1>3. CASE ~(a <= 0) /\ a < least * b
  <2>1. order = InPacks(<<least, 1>>)
    BY <1>3 DEF Order, AtLeast
  <2> HIDE DEF least, order
  <2>2. PICK k \in Nat : order = k * u
    BY <1>1, <2>1, PacksSuffice
  <2>3. Attains(order, <<least, 1>>) /\ (order - u) * 1 < least
    BY <1>1, <2>1, PacksSuffice
  <2>4. order \in Nat
    BY <1>1, <2>2, Products
  <2> HIDE DEF u, p
  <2>5. 2 * p * order + u >= 2 * p * least
    BY <1>1, <2>3, <2>4 DEF Attains, u, p
  <2>6. 2 * p * b * order + b * u >= 2 * p * a
    <3>1. (2 * p * least) * b <= (2 * p * order + u) * b
      BY <1>1, <2>4, <2>5, Scale
    <3>2. (2 * p * order + u) * b = 2 * p * b * order + b * u
      BY <1>1, <2>4
    <3>3. (2 * p) * a <= (2 * p) * (least * b)
      BY <1>1, <1>3
    <3>4. (2 * p) * (least * b) = (2 * p * least) * b
      BY <1>1
    <3> QED
      BY <1>1, <2>4, <3>1, <3>2, <3>3, <3>4
  <2>7. order % u = 0
    BY <1>1, <2>2, MultipleMod
  <2>8. order - u < least
    BY <1>1, <2>3, <2>4 DEF u
  <2> QED
    BY <1>3, <2>3, <2>6, <2>7, <2>8 DEF Suffices, Attains, order, least, u, p
<1>4. CASE ~(a <= 0) /\ ~(a < least * b)
  <2>0. a \in Nat
    BY <1>4
  <2>1. order = InPacks(<<a, b>>)
    BY <1>4 DEF Order, AtLeast
  <2> HIDE DEF least, order
  <2>2. PICK k \in Nat : order = k * u
    BY <2>0, <2>1, PacksSuffice
  <2>3. Attains(order, <<a, b>>) /\ (order - u) * b < a
    BY <2>0, <2>1, PacksSuffice
  <2>4. order \in Nat
    BY <1>1, <2>2, Products
  <2> HIDE DEF u, p
  <2>5. 2 * p * b * order + b * u >= 2 * p * a
    BY <2>3 DEF Attains, u, p
  <2>6. 2 * p * 1 * order + 1 * u >= 2 * p * least
    <3>1. (2 * p) * (least * b) <= (2 * p) * a
      BY <1>1, <1>4, <2>0
    <3>2. b * (2 * p * least) = (2 * p) * (least * b)
      BY <1>1
    <3>3. b * (2 * p * order + u) = 2 * p * b * order + b * u
      BY <1>1, <2>4
    <3>4. b * (2 * p * least) <= b * (2 * p * order + u)
      BY <1>1, <2>0, <2>4, <2>5, <3>1, <3>2, <3>3
    <3>5. 2 * p * least \in Int /\ 2 * p * order + u \in Int
      BY <1>1, <2>4
    <3>6. 2 * p * least <= 2 * p * order + u
      BY <3>4, <3>5, Cancel
    <3> QED
      BY <1>1, <2>4, <3>6
  <2>7. order % u = 0
    BY <1>1, <2>2, MultipleMod
  <2> QED
    BY <1>4, <2>3, <2>6, <2>7 DEF Suffices, Attains, order, least, u, p
<1> QED
  BY <1>2, <1>3, <1>4

LEMMA AdviceSuffices == AdviceTyped /\ onHand \in Int => OutlookSuffices
<1> SUFFICES ASSUME AdviceTyped, onHand \in Int
             PROVE  OutlookSuffices
  OBVIOUS
<1> DEFINE y == recipe.yield
           over == rules.safety - onHand
           n == Cardinality(Meal)
           exact == SumFunctionOnSet([m \in Meal |-> Needed(m)], Meal)
<1>1. y \in Nat \ {0} /\ over \in Int
  BY AdviceTypes
<1>2. TotalRequired \in Nat /\ exact \in Nat /\ n \in Nat /\ exact <= (TotalRequired + 5 * n) * y
  BY TotalBounds
<1> HIDE DEF y, over, n, exact
<1>3. ASSUME NEW m \in Meal
      PROVE  Suffices(MealOrder(m), Missing(Needed(m), y))
  <2>1. Needed(m) \in Nat
    BY NeedsBounds
  <2>2. Needed(m) + over * y \in Int
    BY <1>1, <2>1
  <2> QED
    BY <1>1, <2>2, OrderSuffices DEF MealOrder, Missing, over, y
<1>4. TotalRequired + over * 1 \in Int /\ 1 \in Nat \ {0}
  BY <1>1, <1>2
<1>5. Suffices(Outlook, Missing(TotalRequired, 1))
  BY <1>4, OrderSuffices DEF Outlook, Missing, over
<1>6. Attains(Outlook, Missing(exact - 5 * n * y, y))
  <2> DEFINE u == Pack
             p == Precision
             a == exact - 5 * n * y + over * y
             t == TotalRequired + over
  <2>1. u \in Nat \ {0} /\ p \in Nat \ {0}
    BY PackTypes
  <2>2. a \in Int /\ t \in Int /\ a <= t * y
    <3>1. (TotalRequired + 5 * n) * y = TotalRequired * y + 5 * n * y
      BY <1>1, <1>2
    <3>2. t * y = TotalRequired * y + over * y
      BY <1>1, <1>2
    <3>3. /\ TotalRequired * y \in Int /\ 5 * n * y \in Int /\ over * y \in Int
      BY <1>1, <1>2
    <3> QED
      BY <1>1, <1>2, <3>1, <3>2, <3>3
  <2>3. Outlook \in Int /\ 2 * p * Outlook + u >= 2 * p * t
    <3>1. CASE t <= 0
      <4>1. Outlook = 0
        BY <1>1, <1>2, <1>5, <3>1 DEF Suffices, Missing, over, t
      <4>2. (2 * p) * t <= 0
        BY <2>1, <2>2, <3>1
      <4> QED
        BY <2>1, <2>2, <4>1, <4>2
    <3>2. CASE ~(t <= 0)
      <4>1. Attains(Outlook, <<TotalRequired + over * 1, 1>>)
        BY <1>5, <1>1, <1>2, <3>2 DEF Suffices, Missing, over, t
      <4>2. Outlook \in Int
        <5>1. Outlook = InPacks(AtLeast(<<t, 1>>, rules.least))
          BY <1>1, <1>2, <3>2 DEF Outlook, Order, Missing, over, t
        <5>2. rules.least \in Nat /\ t \in Nat
          BY AdviceTypes, <2>2, <3>2
        <5>3. PICK x \in Nat : AtLeast(<<t, 1>>, rules.least) = <<x, 1>>
          BY <5>2 DEF AtLeast
        <5>4. PICK k \in Nat : Outlook = k * Pack
          BY <5>1, <5>3, PacksSuffice
        <5> QED
          BY <2>1, <5>4
      <4> QED
        BY <1>1, <1>2, <2>1, <4>1, <4>2 DEF Attains, u, p, t
    <3> QED
      BY <3>1, <3>2
  <2> HIDE DEF u, p, a, t
  <2>4. (2 * p * t) * y <= (2 * p * Outlook + u) * y
    BY <1>1, <2>1, <2>2, <2>3, Scale
  <2>5. (2 * p) * a <= (2 * p) * (t * y)
    BY <1>1, <2>1, <2>2
  <2>6. (2 * p) * (t * y) = (2 * p * t) * y /\ (2 * p * Outlook + u) * y = 2 * p * y * Outlook + y * u
    BY <1>1, <2>1, <2>2, <2>3
  <2>7. 2 * p * y * Outlook + y * u >= 2 * p * a
    BY <1>1, <2>1, <2>2, <2>3, <2>4, <2>5, <2>6
  <2> QED
    BY <2>7 DEF Attains, Missing, over, u, p, a
<1> QED
  BY <1>3, <1>5, <1>6 DEF OutlookSuffices, y, n, exact

\* Whatever recipe, settings, targets and stock there are, the orders advised
\* for each meal and for all of them cover what is missing on the supplier's
\* terms, with no pack too many, and the rounded figures of the outlook lose no
\* more than half a thousandth a meal.
THEOREM OutlookCorrect == StockSpec => []OutlookSuffices
<1>1. StockInit => AdviceTyped
  BY DEF StockInit, AdviceTyped
<1>2. StockInv /\ AdviceTyped => OutlookSuffices
  BY AdviceSuffices DEF StockInv, StockTypeOK
<1> QED
  BY <1>1, <1>2, StockInitial, StockInductive, AdviceInductive, PTL DEF StockSpec

-----------------------------------------------------------------------------
(* Residence. *)

\* One membership is open; the others ended before it began; together they
\* cover, each day once, the days from the first one on.
Memberships == memberships \subseteq Membership /\ today \in Day
OneIsOpen ==
  \E open \in memberships :
    /\ open.to = {}
    /\ \A m \in memberships \ {open} : \E last \in Day : m.to = {last} /\ last < open.from
Disjoint ==
  \A m, n \in memberships : m # n => \A day \in Day : ~(Covers(m, day) /\ Covers(n, day))
Gapless ==
  \A m \in memberships, day \in Day : m.from <= day => \E n \in memberships : Covers(n, day)

ResidenceInv == Memberships /\ OneIsOpen /\ Disjoint /\ Gapless

LEMMA ResidenceInitial == ResidenceInit => ResidenceInv
<1> SUFFICES ASSUME ResidenceInit PROVE ResidenceInv
  OBVIOUS
<1>1. PICK mess \in Mess, from \in Day : memberships = {[mess |-> mess, from |-> from, to |-> {}]}
  BY DEF ResidenceInit
<1>2. today \in Day
  BY DEF ResidenceInit
<1> QED
  BY <1>1, <1>2
  DEF ResidenceInv, Memberships, Membership, OneIsOpen, Disjoint, Gapless, Covers

LEMMA ResidenceInductive == ResidenceInv /\ [ResidenceNext]_residenceVars => ResidenceInv'
<1> SUFFICES ASSUME ResidenceInv, [ResidenceNext]_residenceVars
             PROVE  ResidenceInv'
  OBVIOUS
<1> USE ResidenceAssumption DEF ResidenceInv, Day
<1>1. ASSUME NEW mess \in Mess, NEW from \in Day, ChangeMembership(mess, from)
      PROVE  ResidenceInv'
  <2>1. PICK open \in memberships :
          /\ open.to = {}
          /\ \A m \in memberships \ {open} : \E last \in Day : m.to = {last} /\ last < open.from
    BY DEF OneIsOpen
  <2>2. Open = {open}
    BY <2>1 DEF Open
  <2> DEFINE closed == [open EXCEPT !.to = {from - 1}]
             new == [mess |-> mess, from |-> from, to |-> {}]
  <2>3. open.from < from /\ memberships' = (memberships \ {open}) \cup {closed, new}
    BY <1>1, <2>2 DEF ChangeMembership, ClosedBefore
  <2>4. open \in Membership /\ open.from \in Day /\ from - 1 \in Day
    BY <2>3 DEF Memberships, Membership
  <2>5. closed.from = open.from /\ closed.to = {from - 1} /\ closed \in Membership
    BY <2>4 DEF Membership
  <2>6. new.from = from /\ new.to = {} /\ new \in Membership
    BY DEF Membership
  <2> HIDE DEF closed, new
  <2>7. Memberships'
    BY <1>1, <2>3, <2>5, <2>6 DEF ChangeMembership, Memberships
  <2>8. OneIsOpen'
    <3>1. ASSUME NEW m \in memberships' \ {new}
          PROVE  \E last \in Day : m.to = {last} /\ last < new.from
      BY <2>1, <2>3, <2>4, <2>5, <2>6
    <3> QED
      BY <3>1, <2>3, <2>6 DEF OneIsOpen
  <2>9. \A day \in Day : (Covers(open, day) <=> Covers(closed, day) \/ Covers(new, day))
    BY <2>1, <2>3, <2>4, <2>5, <2>6 DEF Covers
  <2>10. Disjoint'
    <3>1. \A day \in Day : ~(Covers(closed, day) /\ Covers(new, day))
      BY <2>4, <2>5, <2>6 DEF Covers
    <3>2. \A m, n \in memberships' : m # n => \A day \in Day : ~(Covers(m, day) /\ Covers(n, day))
      BY <3>1, <2>3, <2>9 DEF Disjoint
    <3> QED
      BY <3>2 DEF Disjoint, Covers
  <2>11. Gapless'
    <3>1. ASSUME NEW m \in memberships', NEW day \in Day, m.from <= day
          PROVE  \E n \in memberships' : Covers(n, day)
      <4>1. \E n \in memberships : n.from <= day
        BY <3>1, <2>3, <2>4, <2>5, <2>6
      <4>2. PICK n \in memberships : Covers(n, day)
        BY <4>1 DEF Gapless
      <4> QED
        BY <4>2, <2>3, <2>9
    <3> QED
      BY <3>1 DEF Gapless, Covers
  <2> QED
    BY <2>7, <2>8, <2>10, <2>11
<1>2. CASE DayPasses
  BY <1>2 DEF DayPasses, Memberships, OneIsOpen, Disjoint, Gapless, Covers
<1>3. CASE UNCHANGED residenceVars
  BY <1>3 DEF residenceVars, Memberships, OneIsOpen, Disjoint, Gapless, Covers
<1> QED
  BY <1>1, <1>2, <1>3 DEF ResidenceNext

\* Whatever moves are entered, ahead or in arrears, the days of a student are
\* covered once each, and until a move on record begins the page lists exactly
\* the meals of the mess the student is eligible in.
THEOREM MealsListed == ResidenceSpec => []MealsListedAreOnes
<1>1. ASSUME ResidenceInv PROVE MealsListedAreOnes
  <2> USE <1>1, ResidenceAssumption DEF ResidenceInv, Day
  <2>1. PICK open \in memberships :
          /\ open.to = {}
          /\ \A m \in memberships \ {open} : \E last \in Day : m.to = {last} /\ last < open.from
    BY DEF OneIsOpen
  <2>2. Open = {open}
    BY <2>1 DEF Open
  <2>3. ASSUME NEW mess \in Mess, NEW day \in today..LastDay, day <= today + DaysAhead,
               open.from <= day
        PROVE  EligibleAt(mess, day) <=> ListedAt(mess, day)
    <3>1. today \in Day /\ day \in Day
      BY DEF Memberships
    <3>2. Covers(open, day)
      BY <2>1, <2>3 DEF Covers
    <3>3. \A m \in memberships : Covers(m, day) => m = open
      BY <3>1, <3>2 DEF Disjoint
    <3>4. EligibleAt(mess, day) <=> open.mess = mess
      BY <3>2, <3>3 DEF EligibleAt
    <3>5. day + 1 >= today
      BY <3>1
    <3> QED
      BY <2>2, <2>3, <3>4, <3>5 DEF ListedAt
  <2>4. open.from \in Day
    BY DEF Memberships, Membership
  <2>5. ASSUME NEW mess \in Mess, NEW day \in today..LastDay, day <= today + DaysAhead
        PROVE  \/ EligibleAt(mess, day) <=> ListedAt(mess, day)
               \/ \E m \in Open : day < m.from
    <3>1. day \in Int
      OBVIOUS
    <3> QED
      BY <2>2, <2>3, <2>4, <2>5, <3>1
  <2> QED
    BY <2>5 DEF MealsListedAreOnes, Disjoint, Gapless
<1> QED
  BY <1>1, ResidenceInitial, ResidenceInductive, PTL DEF ResidenceSpec

-----------------------------------------------------------------------------
(* Policies. *)

Patches == UNION {[K -> Value] : K \in SUBSET Setting}
FormState ==
  {NoForm} \cup
  [open : {TRUE}, shown : [Setting -> Value], fetched : [Setting -> Valid],
   typed : SUBSET Setting, zone : Zone]
SavingState ==
  {NotSaving} \cup
  [stage : {"institution", "settings", "read"}, patch : Patches, meant : SUBSET Setting,
   fetched : Patches, zone : Zone, before : [Setting -> Valid]]

PoliciesTypeOK ==
  /\ stored \in Patches
  /\ zone \in Zone
  /\ form \in [Administrator -> FormState]
  /\ saving \in [Administrator -> SavingState]

\* What a form shows was typed, or is what was last fetched; what is sent was
\* meant, or is what the form had last fetched.
ShownIsFetched ==
  \A a \in Administrator : form[a] # NoForm =>
    \A k \in Setting \ form[a].typed : form[a].shown[k] = form[a].fetched[k]

SentIsFetched ==
  \A a \in Administrator : saving[a] # NotSaving =>
    \A k \in DOMAIN saving[a].patch \ saving[a].meant :
      saving[a].patch[k] = saving[a].fetched[k]

\* Whoever has read the row holds it, alone.
ReadIsCurrent ==
  \A a \in Administrator : saving[a].stage = "read" =>
    /\ saving[a].before = Policy
    /\ Acceptable(saving[a].patch)
    /\ \A b \in Administrator : saving[b].stage = "read" => b = a

PoliciesInv == PoliciesTypeOK /\ ShownIsFetched /\ SentIsFetched /\ ReadIsCurrent

\* Merging keeps the keys, and acceptable values.
LEMMA MergeIsPolicy ==
  ASSUME NEW base \in [Setting -> Valid], NEW patch \in Patches, Acceptable(patch)
  PROVE  /\ Merge(base, patch) \in [Setting -> Valid]
         /\ \A k \in Setting : Merge(base, patch)[k] =
              IF k \in DOMAIN patch THEN patch[k] ELSE base[k]
<1>1. DOMAIN patch \subseteq Setting
  BY DEF Patches
<1>2. DOMAIN base \cup DOMAIN patch = Setting
  BY <1>1
<1> QED
  BY <1>1, <1>2 DEF Merge, Acceptable

\* What is read of the row is within the bounds, whatever the row holds, and is
\* the row itself once it is whole.
LEMMA ResolveIsPolicy ==
  ASSUME NEW settings \in Patches
  PROVE  Resolve(settings) \in [Setting -> Valid]
<1>1. DOMAIN settings \subseteq Setting
  BY DEF Patches
<1>2. DOMAIN Default = Setting
  BY PoliciesAssumption
<1>3. Acceptable(Merge(Default, settings)) =>
        Merge(Default, settings) \in [Setting -> Valid]
  <2>1. DOMAIN Default \cup DOMAIN settings = Setting
    BY <1>1, <1>2
  <2> QED
    BY <2>1 DEF Merge, Acceptable
<1> QED
  BY <1>3, PoliciesAssumption DEF Resolve

LEMMA ResolveIsIdentity ==
  ASSUME NEW settings \in [Setting -> Valid]
  PROVE  Resolve(settings) = settings
<1>1. Merge(Default, settings) = settings
  <2>1. DOMAIN Default \cup DOMAIN settings = Setting
    BY PoliciesAssumption
  <2> QED
    BY <2>1 DEF Merge
<1>2. Acceptable(settings)
  BY DEF Acceptable
<1> QED
  BY <1>1, <1>2 DEF Resolve

LEMMA PolicyIsPatch == [Setting -> Valid] \subseteq Patches /\ [Setting -> Value] \subseteq Patches
  BY PoliciesAssumption DEF Patches

LEMMA PoliciesInitial == PoliciesInit => PoliciesInv
<1> SUFFICES ASSUME PoliciesInit PROVE PoliciesInv
  OBVIOUS
<1>1. stored \in Patches
  BY DEF PoliciesInit, Patches
<1> QED
  BY <1>1 DEF PoliciesInit, PoliciesInv, PoliciesTypeOK, FormState, SavingState,
     ShownIsFetched, SentIsFetched, ReadIsCurrent, NotSaving

LEMMA PoliciesInductive == PoliciesInv /\ [PoliciesNext]_policyVars => PoliciesInv'
<1> SUFFICES ASSUME PoliciesInv, [PoliciesNext]_policyVars
             PROVE  PoliciesInv'
  OBVIOUS
<1>0. Policy \in [Setting -> Valid]
  BY ResolveIsPolicy DEF Policy, PoliciesInv, PoliciesTypeOK
<1>1. ASSUME NEW a \in Administrator,
             OpenForm(a) \/ CloseForm(a) \/ Refetch(a)
               \/ (\E k \in Setting, v \in Value : TypePolicy(a, k, v))
               \/ (\E z \in Zone : TypeZone(a, z))
      PROVE  PoliciesInv'
  <2>1. UNCHANGED <<stored, zone, saving>>
    BY <1>1 DEF OpenForm, CloseForm, Refetch, TypePolicy, TypeZone
  <2>2. \A b \in Administrator \ {a} : form'[b] = form[b]
    BY <1>1 DEF OpenForm, CloseForm, Refetch, TypePolicy, TypeZone, PoliciesInv, PoliciesTypeOK
  <2>3. /\ form' \in [Administrator -> FormState]
        /\ form'[a] # NoForm => \A k \in Setting \ form'[a].typed :
             form'[a].shown[k] = form'[a].fetched[k]
    <3> USE PoliciesAssumption, <1>0 DEF PoliciesInv, PoliciesTypeOK, ShownIsFetched
    <3>1. CASE OpenForm(a)
      <4>1. [open |-> TRUE, shown |-> Policy, fetched |-> Policy, typed |-> {}, zone |-> zone]
              \in FormState
        BY DEF FormState
      <4> QED
        BY <3>1, <4>1 DEF OpenForm
    <3>2. CASE CloseForm(a)
      BY <3>2 DEF CloseForm, FormState
    <3>3. CASE Refetch(a)
      <4>1. form[a] \in FormState \ {NoForm}
        BY <3>3 DEF Refetch
      <4>2. Refreshed(form[a]) \in FormState
        BY <4>1 DEF Refreshed, FormState
      <4>3. \A k \in Setting \ Refreshed(form[a]).typed :
              Refreshed(form[a]).shown[k] = Refreshed(form[a]).fetched[k]
        BY <4>1 DEF Refreshed, FormState
      <4> QED
        BY <3>3, <4>2, <4>3 DEF Refetch
    <3>4. ASSUME NEW k \in Setting, NEW v \in Value, TypePolicy(a, k, v)
          PROVE  /\ form' \in [Administrator -> FormState]
                 /\ \A l \in Setting \ form'[a].typed :
                      form'[a].shown[l] = form'[a].fetched[l]
      <4>1. form[a] \in FormState \ {NoForm}
        BY <3>4 DEF TypePolicy
      <4> DEFINE typed == [form[a] EXCEPT !.shown[k] = v, !.typed = @ \cup {k}]
      <4>2. typed \in FormState
        BY <4>1 DEF FormState
      <4>3. form' = [form EXCEPT ![a] = typed]
        BY <3>4 DEF TypePolicy
      <4>4. \A l \in Setting \ typed.typed : typed.shown[l] = typed.fetched[l]
        BY <4>1 DEF FormState
      <4> QED
        BY <4>2, <4>3, <4>4
    <3>5. ASSUME NEW z \in Zone, TypeZone(a, z)
          PROVE  /\ form' \in [Administrator -> FormState]
                 /\ \A l \in Setting \ form'[a].typed :
                      form'[a].shown[l] = form'[a].fetched[l]
      <4>1. form[a] \in FormState \ {NoForm}
        BY <3>5 DEF TypeZone
      <4>2. [form[a] EXCEPT !.zone = z] \in FormState
        BY <4>1 DEF FormState
      <4> QED
        BY <3>5, <4>1, <4>2 DEF TypeZone, FormState
    <3> QED
      BY <1>1, <3>1, <3>2, <3>3, <3>4, <3>5
  <2> QED
    BY <2>1, <2>2, <2>3 DEF PoliciesInv, PoliciesTypeOK, ShownIsFetched, SentIsFetched,
       ReadIsCurrent, Policy
<1>2. ASSUME NEW a \in Administrator, NEW sending \in SavingState,
             saving' = [saving EXCEPT ![a] = sending], UNCHANGED <<stored, form>>,
             zone' \in Zone,
             sending # NotSaving => \A k \in DOMAIN sending.patch \ sending.meant :
                                      sending.patch[k] = sending.fetched[k],
             sending.stage # "read"
      PROVE  PoliciesInv'
  BY <1>2 DEF PoliciesInv, PoliciesTypeOK, ShownIsFetched, SentIsFetched, ReadIsCurrent, Policy
<1>3. ASSUME NEW a \in Administrator, Save(a)
      PROVE  PoliciesInv'
  <2>1. form[a] \in FormState \ {NoForm}
    BY <1>3 DEF Save, PoliciesInv, PoliciesTypeOK
  <2> DEFINE sending == Request(form[a].shown, form[a].typed, form[a].fetched, form[a].zone)
  <2>2. sending \in SavingState
    BY <2>1, PolicyIsPatch, PoliciesAssumption DEF FormState, SavingState, Request
  <2>3. \A k \in DOMAIN sending.patch \ sending.meant : sending.patch[k] = sending.fetched[k]
    BY <1>3, <2>1 DEF PoliciesInv, ShownIsFetched, FormState, Request
  <2>4. sending.stage # "read" /\ zone' \in Zone
    BY <1>3 DEF Request, Save, PoliciesInv, PoliciesTypeOK
  <2> HIDE DEF sending
  <2> QED
    BY <1>2, <1>3, <2>2, <2>3, <2>4 DEF Save, sending
<1>4. ASSUME NEW a \in Administrator, NEW k \in Setting, NEW v \in Value, Patch(a, k, v)
      PROVE  PoliciesInv'
  <2> DEFINE one == [x \in {k} |-> v]
             sending == [Request(one, {k}, one, zone) EXCEPT !.stage = "settings"]
  <2>1. one \in Patches
    <3>1. one \in [{k} -> Value] /\ {k} \in SUBSET Setting
      OBVIOUS
    <3> QED
      BY <3>1 DEF Patches
  <2> HIDE DEF one
  <2>2. sending \in SavingState /\ sending.stage # "read" /\ zone' \in Zone
    BY <1>4, <2>1, PoliciesAssumption DEF SavingState, Request, Patch, PoliciesInv, PoliciesTypeOK
  <2>3. sending.patch = sending.fetched
    BY DEF Request
  <2>4. saving' = [saving EXCEPT ![a] = sending] /\ UNCHANGED <<stored, form>>
    BY <1>4 DEF Patch, one
  <2> HIDE DEF sending
  <2> QED
    BY <1>2, <2>2, <2>3, <2>4
<1>5. ASSUME NEW a \in Administrator, UpdateInstitution(a)
      PROVE  PoliciesInv'
  <2>1. saving[a] \in SavingState \ {NotSaving}
    BY <1>5 DEF UpdateInstitution, NotSaving, PoliciesInv, PoliciesTypeOK
  <2> DEFINE sending == [saving[a] EXCEPT !.stage = "settings"]
  <2>2. sending \in SavingState /\ sending.stage # "read" /\ zone' \in Zone
    BY <1>5, <2>1 DEF SavingState, UpdateInstitution
  <2>3. \A k \in DOMAIN sending.patch \ sending.meant : sending.patch[k] = sending.fetched[k]
    BY <2>1 DEF PoliciesInv, SentIsFetched, SavingState
  <2>4. saving' = [saving EXCEPT ![a] = sending] /\ UNCHANGED <<stored, form>>
    BY <1>5 DEF UpdateInstitution
  <2> HIDE DEF sending
  <2> QED
    BY <1>2, <2>2, <2>3, <2>4
<1>6. ASSUME NEW a \in Administrator, BeginUpdate(a)
      PROVE  PoliciesInv'
  <2>1. saving[a] \in SavingState \ {NotSaving}
    BY <1>6 DEF BeginUpdate, NotSaving, PoliciesInv, PoliciesTypeOK
  <2> DEFINE reading == [saving[a] EXCEPT !.stage = "read", !.before = Policy]
  <2>2. /\ reading \in SavingState /\ reading # NotSaving /\ reading.before = Policy
        /\ reading.patch = saving[a].patch /\ reading.meant = saving[a].meant
        /\ reading.fetched = saving[a].fetched
    BY <1>0, <2>1 DEF SavingState, NotSaving
  <2>3. saving' = [saving EXCEPT ![a] = reading] /\ UNCHANGED <<stored, zone, form>>
    BY <1>6 DEF BeginUpdate
  <2>4. Acceptable(reading.patch) /\ \A b \in Administrator : saving[b].stage # "read"
    BY <1>6, <2>2 DEF BeginUpdate, InstitutionRowFree
  <2> HIDE DEF reading
  <2> QED
    BY <2>1, <2>2, <2>3, <2>4
    DEF PoliciesInv, PoliciesTypeOK, ShownIsFetched, SentIsFetched, ReadIsCurrent, Policy
<1>7. ASSUME NEW a \in Administrator, UpdateSettings(a)
      PROVE  PoliciesInv'
  <2>1. saving[a] \in SavingState \ {NotSaving}
    BY <1>7 DEF UpdateSettings, NotSaving, PoliciesInv, PoliciesTypeOK
  <2>2. Acceptable(saving[a].patch) /\ \A b \in Administrator \ {a} : saving[b].stage # "read"
    BY <1>7 DEF UpdateSettings, PoliciesInv, ReadIsCurrent
  <2>3. stored' \in [Setting -> Valid]
    BY <1>7, <2>1, <2>2, MergeIsPolicy DEF UpdateSettings, SavingState
  <2>4. stored' \in Patches
    BY <2>3, PolicyIsPatch
  <2>5. saving' = [saving EXCEPT ![a] = NotSaving] /\ UNCHANGED <<zone, form>>
    BY <1>7 DEF UpdateSettings
  <2>6. NotSaving \in SavingState /\ NotSaving.stage # "read"
    BY DEF SavingState, NotSaving
  <2> QED
    BY <2>2, <2>4, <2>5, <2>6
    DEF PoliciesInv, PoliciesTypeOK, ShownIsFetched, SentIsFetched, ReadIsCurrent
<1>8. ASSUME NEW a \in Administrator, SaveFails(a)
      PROVE  PoliciesInv'
  <2>1. NotSaving \in SavingState /\ NotSaving.stage # "read" /\ zone' \in Zone
    BY <1>8 DEF SavingState, NotSaving, SaveFails, PoliciesInv, PoliciesTypeOK
  <2> QED
    BY <1>2, <1>8, <2>1 DEF SaveFails
<1>9. CASE UNCHANGED policyVars
  BY <1>9 DEF policyVars, PoliciesInv, PoliciesTypeOK, ShownIsFetched, SentIsFetched,
     ReadIsCurrent, Policy
<1> QED
  BY <1>1, <1>3, <1>4, <1>5, <1>6, <1>7, <1>8, <1>9 DEF PoliciesNext

\* For any number of administrators, forms and policies: a policy changes only
\* if somebody meant it to, or had not seen the value that he overwrites.
THEOREM PoliciesOnPurpose == PoliciesSpec => PoliciesChangeOnPurpose
<1> DEFINE Meant(k) ==
      \E a \in Administrator :
        /\ saving[a].stage = "read"
        /\ \/ k \in saving[a].meant
           \/ k \in DOMAIN saving[a].patch /\ saving[a].fetched[k] # Policy[k]
<1>1. ASSUME PoliciesInv, PoliciesInv', [PoliciesNext]_policyVars
      PROVE  /\ Acceptable(Policy')
             /\ \A k \in Setting : Policy'[k] # Policy[k] => Meant(k)
  <2>1. Policy' \in [Setting -> Valid]
    BY <1>1, ResolveIsPolicy DEF Policy, PoliciesInv, PoliciesTypeOK
  <2>2. Acceptable(Policy')
    BY <2>1 DEF Acceptable
  <2>3. CASE stored' = stored
    BY <2>2, <2>3 DEF Policy
  <2>4. ASSUME NEW a \in Administrator, UpdateSettings(a), NEW k \in Setting, Policy'[k] # Policy[k]
        PROVE  Meant(k)
    <3>1. saving[a] \in SavingState \ {NotSaving} /\ saving[a].stage = "read"
      BY <1>1, <2>4 DEF UpdateSettings, NotSaving, PoliciesInv, PoliciesTypeOK
    <3>2. saving[a].before = Policy /\ Acceptable(saving[a].patch)
      BY <1>1, <3>1 DEF PoliciesInv, ReadIsCurrent
    <3>3. /\ stored' \in [Setting -> Valid]
          /\ stored'[k] = IF k \in DOMAIN saving[a].patch THEN saving[a].patch[k]
                                                           ELSE Policy[k]
      BY <2>4, <3>1, <3>2, MergeIsPolicy DEF UpdateSettings, SavingState
    <3>4. Policy' = stored'
      BY <3>3, ResolveIsIdentity DEF Policy
    <3>5. k \in DOMAIN saving[a].patch /\ saving[a].patch[k] # Policy[k]
      BY <2>4, <3>3, <3>4
    <3> QED
      BY <1>1, <3>1, <3>5 DEF PoliciesInv, SentIsFetched
  <2>5. CASE \E a \in Administrator :
              \/ OpenForm(a) \/ CloseForm(a) \/ Refetch(a) \/ Save(a)
              \/ \E k \in Setting, v \in Value : TypePolicy(a, k, v) \/ Patch(a, k, v)
              \/ \E z \in Zone : TypeZone(a, z)
              \/ UpdateInstitution(a) \/ BeginUpdate(a) \/ SaveFails(a)
    BY <2>5, <2>3 DEF OpenForm, CloseForm, Refetch, Save, TypePolicy, Patch, TypeZone,
       UpdateInstitution, BeginUpdate, SaveFails
  <2>6. CASE UNCHANGED policyVars
    BY <2>6, <2>3 DEF policyVars
  <2> QED
    BY <1>1, <2>2, <2>4, <2>5, <2>6 DEF PoliciesNext
<1>2. PoliciesInv /\ PoliciesInv' /\ [PoliciesNext]_policyVars =>
        [/\ Acceptable(Policy')
         /\ \A k \in Setting : Policy'[k] # Policy[k] =>
              \E a \in Administrator :
                /\ saving[a].stage = "read"
                /\ \/ k \in saving[a].meant
                   \/ /\ k \in DOMAIN saving[a].patch
                      /\ saving[a].fetched[k] # Policy[k]]_policyVars
  BY <1>1
<1>3. PoliciesSpec => []PoliciesInv
  BY PoliciesInitial, PoliciesInductive, PTL DEF PoliciesSpec
<1> QED
  BY <1>2, <1>3, PTL DEF PoliciesSpec, PoliciesChangeOnPurpose

-----------------------------------------------------------------------------
(* The tabs of a browser. *)

SentRequest ==
  [stage : {"sent", "done", "refused", "signed out"}, meant : Account \cup {Nobody},
   cookie : SessionId, token : SessionId, retried : BOOLEAN]
SentState == {Idle} \cup SentRequest

BrowserTypeOK ==
  /\ owner \in [1..MaxSession -> Account \cup {Nobody}]
  /\ live \subseteq 1..MaxSession
  /\ cookie \in SessionId
  /\ tab \in [Tab -> [shown : Account \cup {Nobody}, token : SessionId]]
  /\ sent \in [Tab -> SentState]
  /\ actions \subseteq [meant : Account \cup {Nobody}, done : Account \cup {Nobody},
                       retried : BOOLEAN, token : SessionId]

\* A session that was opened, and keeps its owner for good.
Opened(k) == k \in 1..MaxSession /\ owner[k] # Nobody

OpenedOnly ==
  /\ \A k \in live : Opened(k)
  /\ cookie # 0 => Opened(cookie)
  /\ \A t \in Tab : tab[t].shown # Nobody => Opened(tab[t].token)

\* A token is of no more use, or is known to have come with a retry.
Excused(k) ==
  \/ Opened(k) /\ k \notin live
  \/ \E b \in actions : b.retried /\ b.token = k

RetryUnderWay(t) == sent[t].stage = "sent" /\ sent[t].retried

TokenIsShown ==
  \A t \in Tab : tab[t].shown # Nobody =>
    \/ owner[tab[t].token] = tab[t].shown
    \/ Excused(tab[t].token)
    \/ RetryUnderWay(t) /\ sent[t].token = tab[t].token

SentAsShown ==
  \A t \in Tab : sent[t].stage = "sent" =>
    IF sent[t].retried
      THEN sent[t].token = sent[t].cookie /\ Opened(sent[t].token)
      ELSE /\ Opened(sent[t].token)
           /\ owner[sent[t].token] = sent[t].meant \/ Excused(sent[t].token)

BrowserInv == BrowserTypeOK /\ OpenedOnly /\ TokenIsShown /\ SentAsShown /\ ActsAsShown

LEMMA BrowserInitial == BrowserInit => BrowserInv
  BY BrowserAssumption
     DEF BrowserInit, BrowserInv, BrowserTypeOK, SentState, SessionId, OpenedOnly, Opened,
         TokenIsShown, SentAsShown, ActsAsShown, Idle, RetryUnderWay

\* What was opened stays so, and a token that is excused stays so.
LEMMA ExcusesStay ==
  ASSUME BrowserInv,
         \A k \in 1..MaxSession : owner[k] # Nobody => owner'[k] = owner[k],
         \A k \in 1..MaxSession : owner[k] # Nobody /\ k \notin live => k \notin live',
         actions \subseteq actions'
  PROVE  /\ \A k : Opened(k) => Opened(k)'
         /\ \A k : Excused(k) => Excused(k)'
  BY DEF Opened, Excused

LEMMA BrowserInductive == BrowserInv /\ [BrowserNext]_browserVars => BrowserInv'
<1> SUFFICES ASSUME BrowserInv, [BrowserNext]_browserVars
             PROVE  BrowserInv'
  OBVIOUS
<1> USE DEF BrowserInv
<1>1. ASSUME NEW t \in Tab, NEW a \in Account, SignIn(t, a)
      PROVE  BrowserInv'
  <2>1. PICK s \in Unopened :
          /\ owner' = [owner EXCEPT ![s] = a]
          /\ live' = (live \ {cookie}) \cup {s}
          /\ cookie' = s
          /\ tab' = [tab EXCEPT ![t] = [shown |-> a, token |-> s]]
          /\ UNCHANGED <<sent, actions>>
    BY <1>1 DEF SignIn
  <2>2. s \in 1..MaxSession /\ owner[s] = Nobody /\ a # Nobody /\ s \in SessionId
    BY BrowserAssumption DEF Unopened, SessionId
  <2>3. BrowserTypeOK'
    BY <2>1, <2>2 DEF BrowserTypeOK
  <2>4. owner'[s] = a /\ \A k \in 1..MaxSession : k # s => owner'[k] = owner[k]
    BY <2>1, <2>2 DEF BrowserTypeOK
  <2>5. /\ \A k : Opened(k) => Opened(k)'
        /\ \A k : Excused(k) => Excused(k)'
    BY <2>1, <2>2, <2>4, ExcusesStay
  <2>6. Opened(s)' /\ \A k : Opened(k) => owner'[k] = owner[k]
    BY <2>2, <2>4 DEF Opened
  <2>7. tab'[t] = [shown |-> a, token |-> s] /\ \A u \in Tab : u # t => tab'[u] = tab[u]
    BY <2>1 DEF BrowserTypeOK
  <2>8. OpenedOnly'
    BY <2>1, <2>5, <2>6, <2>7 DEF OpenedOnly
  <2>9. TokenIsShown'
    BY <2>1, <2>4, <2>5, <2>6, <2>7 DEF TokenIsShown, OpenedOnly, RetryUnderWay
  <2>10. SentAsShown'
    BY <2>1, <2>5, <2>6 DEF SentAsShown
  <2> QED
    BY <2>1, <2>3, <2>8, <2>9, <2>10 DEF ActsAsShown
<1>2. ASSUME NEW t \in Tab, SignOut(t) \/ RefetchSession(t)
      PROVE  BrowserInv'
  <2>1. BrowserTypeOK'
    <3>1. 0 \in SessionId /\ live \subseteq SessionId
      BY BrowserAssumption DEF BrowserTypeOK, SessionId
    <3>2. cookie' \in {0, cookie} /\ live' \subseteq live /\ UNCHANGED <<owner, sent, actions>>
      BY <1>2 DEF SignOut, RefetchSession
    <3>3. PICK new \in [shown : Account \cup {Nobody}, token : SessionId] :
            tab' = [tab EXCEPT ![t] = new]
      <4>1. CASE SignOut(t)
        BY <3>1, <4>1 DEF SignOut
      <4>2. CASE RefetchSession(t)
        <5>1. CASE SignedIn
          <6>1. [shown |-> owner[cookie], token |-> cookie]
                  \in [shown : Account \cup {Nobody}, token : SessionId]
            BY <5>1 DEF SignedIn, BrowserTypeOK
          <6> QED
            BY <4>2, <5>1, <6>1 DEF RefetchSession
        <5>2. CASE ~SignedIn
          BY <3>1, <4>2, <5>2 DEF RefetchSession
        <5> QED
          BY <5>1, <5>2
      <4> QED
        BY <1>2, <4>1, <4>2
    <3>4. tab' \in [Tab -> [shown : Account \cup {Nobody}, token : SessionId]]
      BY <3>3 DEF BrowserTypeOK
    <3> QED
      BY <3>1, <3>2, <3>4 DEF BrowserTypeOK
  <2>2. /\ \A k : Opened(k) => Opened(k)'
        /\ \A k : Excused(k) => Excused(k)'
    BY <1>2, ExcusesStay DEF SignOut, RefetchSession
  <2>3. /\ tab'[t].shown # Nobody => SignedIn /\ tab'[t].token = cookie
                                               /\ owner[cookie] = tab'[t].shown
        /\ \A u \in Tab : u # t => tab'[u] = tab[u]
        /\ cookie' \in {0, cookie} /\ live' \subseteq live
        /\ UNCHANGED <<owner, sent, actions>>
    BY <1>2 DEF SignOut, RefetchSession, BrowserTypeOK
  <2>4. OpenedOnly'
    BY <2>2, <2>3 DEF OpenedOnly, SignedIn
  <2> QED
    BY <2>1, <2>2, <2>3, <2>4 DEF TokenIsShown, SentAsShown, ActsAsShown, RetryUnderWay
<1>3. ASSUME NEW s \in live, SessionEnds(s)
      PROVE  BrowserInv'
  <2>1. /\ \A k : Opened(k) => Opened(k)'
        /\ \A k : Excused(k) => Excused(k)'
    BY <1>3, ExcusesStay DEF SessionEnds
  <2> QED
    BY <1>3, <2>1 DEF SessionEnds, BrowserTypeOK, OpenedOnly, TokenIsShown, SentAsShown,
       ActsAsShown, RetryUnderWay
<1>4. ASSUME NEW t \in Tab, Send(t)
      PROVE  BrowserInv'
  <2>1. sent'[t] = [stage |-> "sent", meant |-> tab[t].shown, cookie |-> cookie,
                    token |-> tab[t].token, retried |-> FALSE]
        /\ \A u \in Tab : u # t => sent'[u] = sent[u]
    BY <1>4 DEF Send, BrowserTypeOK
  <2>2. BrowserTypeOK'
    BY <1>4 DEF Send, BrowserTypeOK, SentState, SentRequest
  <2>3. /\ \A k : Opened(k) <=> Opened(k)'
        /\ \A k : Excused(k) <=> Excused(k)'
    BY <1>4 DEF Send, Opened, Excused
  <2> QED
    BY <1>4, <2>1, <2>2, <2>3
       DEF Send, OpenedOnly, TokenIsShown, SentAsShown, ActsAsShown, RetryUnderWay
<1>5. ASSUME NEW t \in Tab, Handle(t)
      PROVE  BrowserInv'
  <2> PICK r : r = sent[t]
    OBVIOUS
  <2> DEFINE did == [meant |-> r.meant, done |-> owner[r.cookie],
                     retried |-> r.retried, token |-> r.token]
  <2>1. /\ r.stage = "sent"
        /\ r \in SentRequest
        /\ UNCHANGED <<owner, live, cookie, tab>>
        /\ sent' = [sent EXCEPT ![t].stage = Outcome(r)]
    <3>1. /\ r.stage = "sent"
          /\ UNCHANGED <<owner, live, cookie, tab>>
          /\ sent' = [sent EXCEPT ![t].stage = Outcome(r)]
      BY <1>5 DEF Handle
    <3>2. r \in SentState
      BY DEF BrowserTypeOK
    <3>3. r # Idle
      BY <3>1 DEF Idle
    <3> QED
      BY <3>1, <3>2, <3>3 DEF SentState
  <2>2. Outcome(r) \in {"done", "refused", "signed out"}
    BY DEF Outcome
  <2>3. actions \subseteq actions' /\ actions' \subseteq actions \cup {did}
    BY <1>5 DEF Handle
  <2>4. ASSUME did \in actions', did \notin actions
        PROVE  /\ Outcome(r) = "done"
               /\ r.cookie \in live /\ r.token = r.cookie
    BY <1>5, <2>4 DEF Handle, Outcome, TokenFits
  <2>5. Outcome(r) = "done" => did \in actions'
    BY <1>5 DEF Handle
  <2>6. BrowserTypeOK'
    <3>1. sent' \in [Tab -> SentState]
      <4>1. [r EXCEPT !.stage = Outcome(r)] \in SentRequest
        BY <2>1, <2>2 DEF SentRequest
      <4>2. sent' = [sent EXCEPT ![t] = [r EXCEPT !.stage = Outcome(r)]]
        BY <2>1
      <4> QED
        BY <4>1, <4>2 DEF BrowserTypeOK, SentState
    <3>2. r.cookie \in live => did \in [meant : Account \cup {Nobody},
                 done : Account \cup {Nobody}, retried : BOOLEAN, token : SessionId]
      BY <2>1 DEF BrowserTypeOK, SentRequest
    <3> QED
      BY <2>1, <2>3, <2>4, <3>1, <3>2 DEF BrowserTypeOK
  <2>7. /\ \A k : Opened(k) <=> Opened(k)'
        /\ \A k : Excused(k) => Excused(k)'
    BY <2>1, <2>3 DEF Opened, Excused
  <2>8. sent'[t].stage # "sent" /\ \A u \in Tab : u # t => sent'[u] = sent[u]
    BY <2>1, <2>2 DEF BrowserTypeOK, SentRequest
  <2>9. r.retried => Excused(r.token)'
    <3>1. CASE r.cookie \notin live
      BY <2>1, <2>7, <3>1 DEF SentAsShown, Excused
    <3>2. CASE r.retried /\ r.cookie \in live
      <4>1. Outcome(r) = "done"
        BY <2>1, <3>2 DEF SentAsShown, Outcome, TokenFits
      <4> QED
        BY <2>5, <3>2, <4>1 DEF Excused
    <3> QED
      BY <3>1, <3>2
  <2>10. OpenedOnly'
    BY <2>1, <2>7 DEF OpenedOnly
  <2>11. TokenIsShown'
    BY <2>1, <2>7, <2>8, <2>9 DEF TokenIsShown, RetryUnderWay
  <2>12. SentAsShown'
    BY <2>1, <2>7, <2>8 DEF SentAsShown
  <2>13. ActsAsShown'
    <3>1. ASSUME NEW a \in actions', a \in actions
          PROVE  a.done = a.meant \/ \E b \in actions' : b.retried /\ b.token = a.token
      BY <2>3, <3>1 DEF ActsAsShown
    <3>2. ASSUME did \in actions', did \notin actions
          PROVE  did.done = did.meant \/ \E b \in actions' : b.retried /\ b.token = did.token
      <4>1. CASE r.retried
        BY <3>2, <4>1
      <4>2. CASE ~r.retried
        BY <2>1, <2>3, <2>4, <3>2, <4>2 DEF SentAsShown, Excused
      <4> QED
        BY <4>1, <4>2
    <3> QED
      BY <2>3, <3>1, <3>2 DEF ActsAsShown
  <2> QED
    BY <2>6, <2>10, <2>11, <2>12, <2>13
<1>6. ASSUME NEW t \in Tab, ArriveSignedOut(t) \/ ArriveDone(t) \/ GiveUp(t)
      PROVE  BrowserInv'
  <2>1. /\ sent' = [sent EXCEPT ![t] = Idle]
        /\ sent[t].stage \in {"signed out", "done", "refused"}
        /\ cookie' \in {0, cookie}
        /\ tab' \in {tab, [tab EXCEPT ![t].shown = Nobody]}
        /\ UNCHANGED <<owner, live, actions>>
    BY <1>6 DEF ArriveSignedOut, ArriveDone, GiveUp
  <2>2. /\ sent'[t].stage = "idle"
        /\ \A u \in Tab : u # t => sent'[u] = sent[u]
    BY <2>1 DEF BrowserTypeOK, Idle
  <2>3. /\ tab'[t].shown # Nobody => tab'[t] = tab[t]
        /\ \A u \in Tab : u # t => tab'[u] = tab[u]
    BY <2>1 DEF BrowserTypeOK
  <2>4. BrowserTypeOK'
    <3>1. 0 \in SessionId
      BY BrowserAssumption DEF SessionId
    <3>2. tab' \in [Tab -> [shown : Account \cup {Nobody}, token : SessionId]]
      BY <2>1 DEF BrowserTypeOK
    <3> QED
      BY <2>1, <3>1, <3>2 DEF BrowserTypeOK, SentState
  <2>5. /\ \A k : Opened(k) <=> Opened(k)'
        /\ \A k : Excused(k) <=> Excused(k)'
    BY <2>1 DEF Opened, Excused
  <2>6. OpenedOnly'
    BY <2>1, <2>3, <2>5 DEF OpenedOnly
  <2>7. TokenIsShown'
    <3>1. ~RetryUnderWay(t)
      BY <2>1 DEF RetryUnderWay
    <3>2. ASSUME NEW u \in Tab, tab'[u].shown # Nobody
          PROVE  /\ tab'[u] = tab[u]
                 /\ RetryUnderWay(u) => sent'[u] = sent[u]
      BY <2>2, <2>3, <3>1, <3>2
    <3> QED
      BY <2>1, <2>5, <3>2 DEF TokenIsShown, RetryUnderWay
  <2>8. SentAsShown'
    BY <2>1, <2>2, <2>5 DEF SentAsShown
  <2> QED
    BY <2>1, <2>4, <2>6, <2>7, <2>8 DEF ActsAsShown
<1>7. ASSUME NEW t \in Tab, Retry(t)
      PROVE  BrowserInv'
  <2>1. /\ sent[t] \in SentRequest
        /\ cookie \in live
        /\ UNCHANGED <<owner, live, cookie, actions>>
    <3>1. sent[t] \in SentState /\ sent[t] # Idle
      BY <1>7 DEF Retry, BrowserTypeOK, Idle
    <3> QED
      BY <1>7, <3>1 DEF Retry, SignedIn, SentState
  <2>2. sent'[t] = [stage |-> "sent", meant |-> sent[t].meant, cookie |-> cookie,
                    token |-> cookie, retried |-> TRUE]
        /\ \A u \in Tab : u # t => sent'[u] = sent[u]
    BY <1>7, <2>1 DEF Retry, BrowserTypeOK, SentRequest
  <2>3. /\ tab'[t].token = cookie
        /\ \A u \in Tab : u # t => tab'[u] = tab[u]
    BY <1>7 DEF Retry, BrowserTypeOK
  <2>4. BrowserTypeOK'
    <3>1. tab' \in [Tab -> [shown : Account \cup {Nobody}, token : SessionId]]
      BY <1>7 DEF Retry, BrowserTypeOK
    <3>2. sent'[t] \in SentState
      <4>1. cookie \in SessionId /\ sent[t].meant \in Account \cup {Nobody}
        BY <2>1 DEF BrowserTypeOK, SentRequest
      <4>2. sent'[t] \in SentRequest
        BY <2>2, <4>1 DEF SentRequest
      <4> QED
        BY <4>2 DEF SentState
    <3>3. sent' \in [Tab -> SentState]
      BY <1>7, <2>2, <3>2 DEF Retry, BrowserTypeOK
    <3> QED
      BY <2>1, <3>1, <3>3 DEF BrowserTypeOK
  <2>5. /\ \A k : Opened(k) <=> Opened(k)'
        /\ \A k : Excused(k) <=> Excused(k)'
    BY <2>1 DEF Opened, Excused
  <2>6. OpenedOnly'
    BY <2>1, <2>3, <2>5 DEF OpenedOnly
  <2>7. TokenIsShown'
    BY <2>1, <2>2, <2>3, <2>5 DEF TokenIsShown, RetryUnderWay
  <2>8. SentAsShown'
    BY <2>1, <2>2, <2>5 DEF SentAsShown, OpenedOnly
  <2> QED
    BY <2>1, <2>4, <2>6, <2>7, <2>8 DEF ActsAsShown
<1>8. CASE UNCHANGED browserVars
  BY <1>8 DEF browserVars, BrowserTypeOK, OpenedOnly, Opened, TokenIsShown, Excused, SentAsShown,
     ActsAsShown, RetryUnderWay
<1> QED
  BY <1>1, <1>2, <1>3, <1>4, <1>5, <1>6, <1>7, <1>8 DEF BrowserNext, TabStep

\* What is done in a tab is done as the account the tab showed, but for the
\* tokens that came with a retry, for any number of tabs and accounts.
THEOREM TabsAct == BrowserSpec => []ActsAsShown
<1>1. BrowserInv => ActsAsShown
  BY DEF BrowserInv
<1> QED
  BY <1>1, BrowserInitial, BrowserInductive, PTL DEF BrowserSpec

-----------------------------------------------------------------------------
(* Migrations. *)

MigratorTypeOK ==
  /\ legacy \in BOOLEAN
  /\ ledger \in [exists : BOOLEAN, rows : SUBSET Migration]
  /\ schema \in Seq(Migration)
  /\ deploy \in [Deployment -> [stage : {"idle", "locked", "applying", "failed", "done"},
                                files : Seq(Migration), pending : SUBSET Nat]]

LockIsDeployments == \A d, e \in Deployment : HasLock(d) /\ HasLock(e) => d = e

\* A legacy database has no ledger, and without a ledger there is nothing.
LegacyUntouched ==
  /\ legacy => ~ledger.exists
  /\ ~ledger.exists => ledger.rows = {} /\ schema = <<>>

\* What is not pending any more is in the ledger, as the files have it.
PendingIsRest ==
  \A d \in Deployment : deploy[d].stage = "applying" =>
    /\ ledger.exists
    /\ deploy[d].pending \subseteq DOMAIN deploy[d].files
    /\ \A i \in DOMAIN deploy[d].files \ deploy[d].pending :
         deploy[d].files[i] \in ledger.rows

MigratorInv ==
  /\ MigratorTypeOK
  /\ LockIsDeployments
  /\ LegacyUntouched
  /\ PendingIsRest
  /\ DeploymentsDoNotRace

LEMMA MigratorInitial == MigratorInit => MigratorInv
<1> SUFFICES ASSUME MigratorInit PROVE MigratorInv
  OBVIOUS
<1> USE DEF MigratorInit, NotDeploying, NoLedger
<1>1. MigratorTypeOK
  BY DEF MigratorTypeOK
<1>2. LockIsDeployments /\ LegacyUntouched /\ PendingIsRest
  BY DEF LockIsDeployments, HasLock, LegacyUntouched, PendingIsRest
<1>3. DeploymentsDoNotRace
  BY DEF DeploymentsDoNotRace, PendingIsFree, DoneIsApplied, LedgerIsSchema, Range
<1> QED
  BY <1>1, <1>2, <1>3 DEF MigratorInv

LEMMA DeploymentChanges ==
  ASSUME MigratorInv, UNCHANGED <<legacy, ledger, schema>>, MigratorTypeOK',
         NEW d \in Deployment, \A e \in Deployment \ {d} : deploy'[e] = deploy[e],
         HasLock(d)' => HasLock(d) \/ LockFree(d),
         deploy'[d].stage \notin {"applying", "done"}
  PROVE  MigratorInv'
<1> USE DEF MigratorInv
<1>1. LockIsDeployments'
  BY DEF LockIsDeployments, LockFree, HasLock
<1>2. LegacyUntouched'
  BY DEF LegacyUntouched
<1>3. PendingIsRest'
  BY DEF PendingIsRest
<1>4. DeploymentsDoNotRace'
  BY DEF DeploymentsDoNotRace, PendingIsFree, DoneIsApplied, LedgerIsSchema, Row
<1> QED
  BY <1>1, <1>2, <1>3, <1>4

LEMMA MigratorInductive == MigratorInv /\ [MigratorNext]_migratorVars => MigratorInv'
<1> SUFFICES ASSUME MigratorInv, [MigratorNext]_migratorVars
             PROVE  MigratorInv'
  OBVIOUS
<1> USE DEF MigratorInv
<1>1. CASE MigrationStatus
  <2>1. /\ ledger'.exists /\ ledger'.rows = ledger.rows
        /\ legacy => ledger.exists
        /\ UNCHANGED <<legacy, schema, deploy>>
    BY <1>1 DEF MigrationStatus, EnsureLedger, MigratorTypeOK
  <2>2. MigratorTypeOK'
    BY <1>1 DEF MigrationStatus, EnsureLedger, MigratorTypeOK
  <2>3. LockIsDeployments' /\ LegacyUntouched' /\ PendingIsRest'
    BY <2>1 DEF LockIsDeployments, HasLock, LegacyUntouched, PendingIsRest
  <2>4. DeploymentsDoNotRace'
    BY <2>1 DEF DeploymentsDoNotRace, PendingIsFree, DoneIsApplied, LedgerIsSchema, Row
  <2> QED
    BY <2>2, <2>3, <2>4
<1>2. ASSUME NEW d \in Deployment, NEW files \in Release, TakeLock(d, files)
      PROVE  MigratorInv'
  <2>1. MigratorTypeOK'
    BY <1>2, ReleaseAssumption DEF TakeLock, MigratorTypeOK
  <2>2. deploy'[d].stage = "locked"
    BY <1>2 DEF TakeLock, MigratorTypeOK
  <2> QED
    BY <1>2, <2>1, <2>2, DeploymentChanges DEF TakeLock, MigratorTypeOK
<1>3. ASSUME NEW d \in Deployment, deploy[d].stage = "locked" \/ HasLock(d), Fail(d)
      PROVE  MigratorInv'
  <2>1. MigratorTypeOK' /\ deploy'[d].stage = "failed"
    BY <1>3 DEF Fail, MigratorTypeOK
  <2> QED
    BY <1>3, <2>1, DeploymentChanges DEF Fail, MigratorTypeOK, HasLock
<1>4. ASSUME NEW d \in Deployment, ReadStatus(d)
      PROVE  MigratorInv'
  <2>1. /\ deploy'[d] = [deploy[d] EXCEPT !.stage = "applying", !.pending = Pending(deploy[d].files)]
        /\ \A e \in Deployment \ {d} : deploy'[e] = deploy[e]
    BY <1>4 DEF ReadStatus, MigratorTypeOK
  <2>2. deploy[d].files \in Seq(Migration) /\ Pending(deploy[d].files) \subseteq Nat
    BY DEF MigratorTypeOK, Pending
  <2>3. MigratorTypeOK'
    BY <1>4, <2>2 DEF ReadStatus, EnsureLedger, MigratorTypeOK
  <2>4. LockIsDeployments' /\ LegacyUntouched'
    BY <1>4, <2>1 DEF ReadStatus, EnsureLedger, LockIsDeployments, HasLock, LegacyUntouched,
       MigratorTypeOK
  <2>5. ledger'.exists /\ ledger'.rows = ledger.rows
    BY <1>4 DEF ReadStatus, EnsureLedger, MigratorTypeOK
  <2>6. /\ deploy'[d].files = deploy[d].files
        /\ deploy'[d].pending = Pending(deploy[d].files)
        /\ deploy'[d].stage = "applying"
    BY <2>1 DEF MigratorTypeOK
  <2>7. \A i \in DOMAIN deploy[d].files \ Pending(deploy[d].files) :
          deploy[d].files[i] \in ledger.rows
    BY <1>4 DEF ReadStatus, Drift, Pending, Range, Row
  <2>8. PendingIsRest'
    BY <2>1, <2>5, <2>6, <2>7 DEF PendingIsRest, Pending
  <2>9. PendingIsFree'
    <3>1. ASSUME NEW e \in Deployment, deploy'[e].stage = "applying", NEW i \in deploy'[e].pending
          PROVE  \/ Row(deploy[e].files[i])' = {}
                 \/ \E j \in 1..i - 1 : Row(deploy[e].files[i])' = {deploy'[e].files[j]}
      <4>1. deploy'[e].files = deploy[e].files
        BY <2>1, <2>6
      <4>2. Row(deploy[e].files[i])' = Row(deploy[e].files[i])
        BY <2>5, <4>1 DEF Row
      <4>3. CASE e = d
        BY <2>6, <3>1, <4>2, <4>3 DEF Pending
      <4>4. CASE e # d
        <5>1. deploy'[e] = deploy[e]
          BY <2>1, <4>4
        <5>2. \/ Row(deploy[e].files[i]) = {}
              \/ \E j \in 1..i - 1 : Row(deploy[e].files[i]) = {deploy[e].files[j]}
          BY <3>1, <5>1 DEF DeploymentsDoNotRace, PendingIsFree
        <5> QED
          BY <4>1, <4>2, <5>2
      <4> QED
        BY <4>3, <4>4
    <3> QED
      BY <3>1 DEF PendingIsFree
  <2>10. DoneIsApplied' /\ LedgerIsSchema' /\ (legacy' => schema' = <<>>)
    BY <1>4, <2>1, <2>5, <2>6
       DEF ReadStatus, DeploymentsDoNotRace, DoneIsApplied, LedgerIsSchema
  <2> QED
    BY <2>3, <2>4, <2>8, <2>9, <2>10 DEF DeploymentsDoNotRace
<1>5. ASSUME NEW d \in Deployment, NEW i \in deploy[d].pending, ApplyNext(d, i)
      PROVE  MigratorInv'
  <2> DEFINE m == deploy[d].files[i]
  <2>1. i \in DOMAIN deploy[d].files /\ m \in Migration /\ ledger.exists
    BY <1>5 DEF ApplyNext, PendingIsRest, MigratorTypeOK
  <2>2. /\ schema' = Append(schema, m) /\ schema' \in Seq(Migration)
        /\ ledger'.exists /\ ledger'.rows = ledger.rows \cup {m}
        /\ deploy'[d].stage = "applying"
        /\ deploy'[d].files = deploy[d].files /\ deploy'[d].pending = deploy[d].pending \ {i}
        /\ \A e \in Deployment \ {d} : deploy'[e] = deploy[e]
        /\ legacy' = legacy
    BY <1>5, <2>1 DEF ApplyNext, MigratorTypeOK
  <2>3. MigratorTypeOK'
    BY <1>5, <2>1, <2>2 DEF ApplyNext, MigratorTypeOK
  <2>4. \A e \in Deployment \ {d} : ~HasLock(e)
    BY <1>5 DEF ApplyNext, LockIsDeployments, HasLock
  <2>5. LockIsDeployments' /\ LegacyUntouched'
    BY <2>1, <2>2, <2>4 DEF LockIsDeployments, HasLock, LegacyUntouched
  <2>6. PendingIsRest'
    <3>1. ASSUME NEW e \in Deployment, deploy'[e].stage = "applying"
          PROVE  e = d
      BY <2>2, <2>4, <3>1 DEF HasLock
    <3>2. /\ ledger'.exists
          /\ deploy'[d].pending \subseteq DOMAIN deploy'[d].files
          /\ \A k \in DOMAIN deploy'[d].files \ deploy'[d].pending :
               deploy'[d].files[k] \in ledger'.rows
      BY <1>5, <2>2 DEF ApplyNext, PendingIsRest
    <3> QED
      BY <3>1, <3>2 DEF PendingIsRest
  <2>7. Len(schema') = Len(schema) + 1 /\ schema'[Len(schema) + 1] = m
        /\ \A k \in DOMAIN schema : schema'[k] = schema[k]
        /\ DOMAIN schema' = DOMAIN schema \cup {Len(schema) + 1}
        /\ DOMAIN schema = 1..Len(schema) /\ Len(schema) \in Nat
    BY <2>1, <2>2 DEF MigratorTypeOK
  <2>8. \A k \in DOMAIN schema : schema[k].version # m.version
    BY <1>5 DEF ApplyNext, Row, DeploymentsDoNotRace, LedgerIsSchema, Range
  <2>9. ledger'.rows = Range(schema')
    BY <2>2, <2>7 DEF DeploymentsDoNotRace, LedgerIsSchema, Range
  <2>10. \A j, k \in DOMAIN schema' : schema'[j].version = schema'[k].version => j = k
    <3>1. \A k \in DOMAIN schema : k # Len(schema) + 1
      BY <2>7
    <3>2. \A j, k \in DOMAIN schema : schema[j].version = schema[k].version => j = k
      BY DEF DeploymentsDoNotRace, LedgerIsSchema
    <3> QED
      BY <2>7, <2>8, <3>1, <3>2
  <2>11. PendingIsFree'
    <3>1. ASSUME NEW e \in Deployment, deploy'[e].stage = "applying"
          PROVE  e = d
      BY <2>2, <2>4, <3>1 DEF HasLock
    <3>2. ASSUME NEW k \in deploy[d].pending \ {i}
          PROVE  \/ Row(deploy[d].files[k])' = {}
                 \/ \E j \in 1..k - 1 : Row(deploy[d].files[k])' = {deploy[d].files[j]}
      <4>1. k \in Nat /\ i \in 1..k - 1
        BY <1>5, <2>1 DEF ApplyNext, MigratorTypeOK
      <4>2. CASE deploy[d].files[k].version = m.version
        <5>1. Row(deploy[d].files[k]) = {}
          BY <1>5, <4>2 DEF ApplyNext, Row
        <5>2. Row(deploy[d].files[k])' = {m}
          BY <2>2, <4>2, <5>1 DEF Row
        <5> QED
          BY <4>1, <5>2
      <4>3. CASE deploy[d].files[k].version # m.version
        <5>1. Row(deploy[d].files[k])' = Row(deploy[d].files[k])
          BY <2>2, <4>3 DEF Row
        <5>2. \/ Row(deploy[d].files[k]) = {}
              \/ \E j \in 1..k - 1 : Row(deploy[d].files[k]) = {deploy[d].files[j]}
          BY <1>5 DEF ApplyNext, DeploymentsDoNotRace, PendingIsFree
        <5> QED
          BY <5>1, <5>2
      <4> QED
        BY <4>2, <4>3
    <3>3. \A k \in deploy'[d].pending :
            \/ Row(deploy[d].files[k])' = {}
            \/ \E j \in 1..k - 1 : Row(deploy[d].files[k])' = {deploy'[d].files[j]}
      BY <2>2, <3>2 DEF Row
    <3> QED
      BY <3>1, <3>3 DEF PendingIsFree
  <2>12. legacy' => schema' = <<>>
    BY <2>1, <2>2 DEF LegacyUntouched
  <2>13. DoneIsApplied'
    BY <2>2 DEF DeploymentsDoNotRace, DoneIsApplied
  <2>14. DeploymentsDoNotRace'
    BY <2>9, <2>10, <2>11, <2>12, <2>13 DEF DeploymentsDoNotRace, LedgerIsSchema
  <2> QED
    BY <2>3, <2>5, <2>6, <2>14
<1>6. ASSUME NEW d \in Deployment, FinishDeployment(d)
      PROVE  MigratorInv'
  <2>1. /\ deploy'[d] = [deploy[d] EXCEPT !.stage = "done"]
        /\ \A e \in Deployment \ {d} : deploy'[e] = deploy[e]
        /\ UNCHANGED <<legacy, ledger, schema>>
    BY <1>6 DEF FinishDeployment, MigratorTypeOK
  <2>2. deploy'[d].stage = "done" /\ deploy'[d].files = deploy[d].files
    BY <2>1 DEF MigratorTypeOK
  <2>3. MigratorTypeOK'
    BY <1>6 DEF FinishDeployment, MigratorTypeOK
  <2>4. Range(deploy[d].files) \subseteq ledger.rows
    BY <1>6 DEF FinishDeployment, PendingIsRest, Range
  <2>5. LockIsDeployments' /\ LegacyUntouched' /\ PendingIsRest'
    BY <2>1, <2>2 DEF LockIsDeployments, HasLock, LegacyUntouched, PendingIsRest
  <2>6. PendingIsFree'
    <3>1. ASSUME NEW e \in Deployment, deploy'[e].stage = "applying", NEW i \in deploy'[e].pending
          PROVE  \/ Row(deploy[e].files[i])' = {}
                 \/ \E j \in 1..i - 1 : Row(deploy[e].files[i])' = {deploy'[e].files[j]}
      <4>1. deploy'[e] = deploy[e]
        BY <2>1, <2>2, <3>1
      <4>2. Row(deploy[e].files[i])' = Row(deploy[e].files[i])
        BY <2>1, <4>1 DEF Row
      <4>3. \/ Row(deploy[e].files[i]) = {}
            \/ \E j \in 1..i - 1 : Row(deploy[e].files[i]) = {deploy[e].files[j]}
        BY <3>1, <4>1 DEF DeploymentsDoNotRace, PendingIsFree
      <4> QED
        BY <4>1, <4>2, <4>3
    <3> QED
      BY <3>1 DEF PendingIsFree
  <2>7. DoneIsApplied'
    BY <2>1, <2>2, <2>4 DEF DeploymentsDoNotRace, DoneIsApplied
  <2>8. LedgerIsSchema' /\ (legacy' => schema' = <<>>)
    BY <2>1 DEF DeploymentsDoNotRace, LedgerIsSchema
  <2> QED
    BY <2>3, <2>5, <2>6, <2>7, <2>8 DEF DeploymentsDoNotRace
<1>7. CASE UNCHANGED migratorVars
  <2> USE <1>7 DEF migratorVars
  <2>1. MigratorTypeOK' /\ LockIsDeployments' /\ LegacyUntouched' /\ PendingIsRest'
    BY DEF MigratorTypeOK, LockIsDeployments, HasLock, LegacyUntouched, PendingIsRest
  <2>2. DeploymentsDoNotRace'
    BY DEF DeploymentsDoNotRace, PendingIsFree, DoneIsApplied, LedgerIsSchema, Row
  <2> QED
    BY <2>1, <2>2
<1> QED
  BY <1>1, <1>2, <1>3, <1>4, <1>5, <1>6, <1>7
     DEF MigratorNext, RefuseLegacy, RefuseDrift, ApplyFails

\* Deployments at the same time, of any releases and cut off anywhere, do not
\* get in each other's way.
THEOREM DeploymentsOrdered == MigratorSpec => []DeploymentsDoNotRace
<1>1. MigratorInv => DeploymentsDoNotRace
  BY DEF MigratorInv
<1> QED
  BY <1>1, MigratorInitial, MigratorInductive, PTL DEF MigratorSpec

-----------------------------------------------------------------------------
(* The workspace. *)

WorkspaceTyped ==
  /\ assigned \subseteq Assignment
  /\ place \in [at : Roles \cup {"LOGIN"}, mess : MessId \cup {NoMess}]

WorkspaceInv == WorkspaceTyped /\ ShowsWhatItWasTold

LEMMA HeldAreRoles == WorkspaceTyped => Held \subseteq Roles
  BY DEF WorkspaceTyped, Held, Assignment, Roles

\* A session that goes on has a role of its user.
LEMMA ResolvedAreHeld == \A role : Resolved(role) \subseteq Held
  BY DEF Resolved

\* Wherever a tab goes with what it is told, it is a workspace of its user, with
\* one of the messes there are to choose from, or none.
LEMMA SettlesWhereToldTo ==
  ASSUME WorkspaceTyped, NEW role \in Held, NEW p \in Settled(Describe(role))
  PROVE  /\ p \in [at : Roles \cup {"LOGIN"}, mess : MessId \cup {NoMess}]
         /\ p.at \in Describe(role).roles
         /\ p.mess \in Options(Describe(role), p.at) \cup {NoMess}
<1> DEFINE d == Describe(role)
           to == Landing(d, IF pending = "NONE" THEN place.at ELSE pending)
<1>1. role \in d.roles /\ d.activeRole = role /\ d.roles = Held /\ Held \subseteq Roles
  BY HeldAreRoles DEF Describe
<1>2. \A w : Options(d, w) \subseteq MessId
  BY DEF Options, Describe, MessesOf
<1>3. \A w : Opening(d, w) \subseteq Options(d, w) \cup {NoMess}
  BY DEF Opening
<1>4. to \in d.roles
  BY <1>1 DEF Landing
<1> HIDE DEF d, to
<1>5. CASE pending = "NONE" /\ place.at \in d.roles
  <2>1. PICK m \in IF place.mess \in Options(d, place.at) \cup {NoMess}
                     THEN {place.mess} ELSE Opening(d, place.at) :
          p = [place EXCEPT !.mess = m]
    BY <1>5 DEF Settled, d
  <2>2. m \in Options(d, place.at) \cup {NoMess}
    BY <2>1, <1>3
  <2>3. p = [at |-> place.at, mess |-> m]
    BY <2>1 DEF WorkspaceTyped
  <2> QED
    BY <1>1, <1>2, <1>5, <2>2, <2>3 DEF d
<1>6. CASE ~(pending = "NONE" /\ place.at \in d.roles)
  <2>1. p \in [at : {to}, mess : Opening(d, to)]
    BY <1>6 DEF Settled, d, to
  <2>2. p = [at |-> to, mess |-> p.mess] /\ p.mess \in Options(d, to) \cup {NoMess}
    BY <2>1, <1>3
  <2> QED
    BY <1>1, <1>2, <1>4, <2>2 DEF d
<1> QED
  BY <1>5, <1>6

LEMMA WorkspaceInitial == WorkspaceInit => WorkspaceInv
  BY DEF WorkspaceInit, WorkspaceInv, WorkspaceTyped, ShowsWhatItWasTold, SignedOut

LEMMA WorkspaceInductive == WorkspaceInv /\ [WorkspaceNext]_workspaceVars => WorkspaceInv'
<1> SUFFICES ASSUME WorkspaceInv, [WorkspaceNext]_workspaceVars
             PROVE  WorkspaceInv'
  OBVIOUS
<1> USE DEF WorkspaceInv, WorkspaceTyped, ShowsWhatItWasTold
<1>1. ASSUME NEW a \in Assignment, GrantRole(a) \/ RevokeRole(a)
      PROVE  WorkspaceInv'
  BY <1>1 DEF GrantRole, RevokeRole, Options
<1>2. ASSUME NEW m \in MessId, SetMessActive(m)
      PROVE  WorkspaceInv'
  BY <1>2 DEF SetMessActive
<1>3. ASSUME NEW m \in MessId, ChooseMess(m)
      PROVE  WorkspaceInv'
  <2>1. place' = [at |-> place.at, mess |-> m]
    BY <1>3 DEF ChooseMess
  <2> QED
    BY <1>3, <2>1 DEF ChooseMess
<1>4. ASSUME LoseSession
      PROVE  WorkspaceInv'
  BY <1>4 DEF LoseSession, SignedOut
<1>5. ASSUME NEW role \in Roles, LogIn(role) \/ SwitchRole(role) \/ SwitchElsewhere(role)
      PROVE  WorkspaceInv'
  BY <1>4, <1>5 DEF LogIn, SwitchRole, SwitchElsewhere
<1>6. ASSUME NEW w \in Roles \cup {"HOME"}, OpenSite(w)
      PROVE  WorkspaceInv'
  BY <1>6 DEF OpenSite, SignedOut
<1>7. ASSUME FetchSession
      PROVE  WorkspaceInv'
  <2>1. CASE LoseSession
    BY <1>4, <2>1
  <2>2. ASSUME NEW role \in Resolved(session),
               told' = Describe(role), place' \in Settled(Describe(role)), UNCHANGED assigned
        PROVE  WorkspaceInv'
    <3>1. role \in Held
      BY ResolvedAreHeld
    <3> QED
      BY <2>2, <3>1, SettlesWhereToldTo
  <2> QED
    BY <1>7, <2>1, <2>2 DEF FetchSession
<1>8. ASSUME CallApi
      PROVE  WorkspaceInv'
  BY <1>4, <1>8 DEF CallApi
<1>9. CASE LogOut \/ Expire
  BY <1>9 DEF LogOut, Expire, SignedOut
<1>10. CASE UNCHANGED workspaceVars
  BY <1>10 DEF workspaceVars
<1> QED
  BY <1>1, <1>2, <1>3, <1>5, <1>6, <1>7, <1>8, <1>9, <1>10 DEF WorkspaceNext

\* What the pages of each workspace need, of all the API can ask for.
LEMMA SupervisorNeeds ==
  \A route \in Routes :
    route.call \in PagesOf("SUPERVISOR") =>
      route.needs \in {"viewOperations", "operateMess", "workKitchen", "viewMessAnalytics",
                       "viewCatalog", "manageCatalog", "signedIn"}
  BY DEF Routes, Route, MessRoutes, SlotRoutes, KitchenRoutes, CatalogRoutes, InstitutionRoutes,
         OrganisationRoutes, AccountRoutes, StudentRoutes, AnyonesRoutes,
         PagesOf, Everywhere, MealsPage, MealDetailPage, CounterCalls, ReconcilePage,
         AppealsPage, IncidentsPage, InventoryPage, CatalogPage, AnalyzePage

LEMMA KitchenNeeds ==
  \A route \in Routes :
    route.call \in PagesOf("KITCHEN_STAFF") =>
      route.needs \in {"viewOperations", "workKitchen", "viewCatalog", "signedIn"}
  BY DEF Routes, Route, MessRoutes, SlotRoutes, KitchenRoutes, CatalogRoutes, InstitutionRoutes,
         OrganisationRoutes, AccountRoutes, StudentRoutes, AnyonesRoutes,
         PagesOf, Everywhere, KitchenPages, IncidentsPage, InventoryPage, CatalogPage

LEMMA AdminNeeds ==
  \A route \in Routes :
    route.call \in PagesOf("INSTITUTION_ADMIN") =>
      route.needs \in {"administer", "viewMessAnalytics", "viewCatalog", "manageCatalog", "signedIn"}
  BY DEF Routes, Route, MessRoutes, SlotRoutes, KitchenRoutes, CatalogRoutes, InstitutionRoutes,
         OrganisationRoutes, AccountRoutes, StudentRoutes, AnyonesRoutes,
         PagesOf, Everywhere, AdminPages, AccountsPages, StructurePage, SettingsPage, AuditPage,
         AnalyzePage, CatalogPage

LEMMA StudentNeeds ==
  \A route \in Routes :
    route.call \in PagesOf("STUDENT") =>
      route.needs \in {"beStudent", "signedIn"} /\ route \notin ForStaff
  BY DEF Routes, Route, MessRoutes, SlotRoutes, KitchenRoutes, CatalogRoutes, InstitutionRoutes,
         OrganisationRoutes, AccountRoutes, StudentRoutes, AnyonesRoutes,
         PagesOf, Everywhere, VotePages, RecordPages, ForStaff, Scoped

LEMMA ServedIfUpToDate == WorkspaceInv => PagesAreServed
<1> SUFFICES ASSUME WorkspaceInv, UpToDate,
                    NEW route \in Routes, route.call \in PagesOf(place.at),
                    NEW m \in IF place.at \in Scoped THEN Options(told, place.at) ELSE MessId
             PROVE  Accepted(route, m)
  BY DEF PagesAreServed
<1>1. /\ told.roles = Held
      /\ told.supervisor = MessesOf("SUPERVISOR")
      /\ told.kitchen = MessesOf("KITCHEN_STAFF")
  BY DEF UpToDate, Describe
<1>2. place.at \in Held /\ place.at \in Roles
  BY <1>1, HeldAreRoles DEF WorkspaceInv, ShowsWhatItWasTold, UpToDate
<1>3. CASE place.at = "SUPERVISOR"
  <2>1. m \in MessesOf("SUPERVISOR")
    BY <1>1, <1>3 DEF Options, Scoped
  <2>2. route.needs \in {"viewOperations", "operateMess", "workKitchen", "viewMessAnalytics",
                        "viewCatalog", "manageCatalog", "signedIn"}
    BY <1>3, SupervisorNeeds
  <2> QED
    BY <1>2, <1>3, <2>1, <2>2 DEF Accepted, Can, Scoped
<1>4. CASE place.at = "KITCHEN_STAFF"
  <2>1. m \in MessesOf("SUPERVISOR") \cup MessesOf("KITCHEN_STAFF")
    BY <1>1, <1>4 DEF Options, Scoped
  <2>2. route.needs \in {"viewOperations", "workKitchen", "viewCatalog", "signedIn"}
    BY <1>4, KitchenNeeds
  <2> QED
    BY <1>2, <1>4, <2>1, <2>2 DEF Accepted, Can, Scoped
<1>5. CASE place.at = "INSTITUTION_ADMIN"
  <2>1. IsAdmin
    BY <1>2, <1>5 DEF IsAdmin
  <2>2. route.needs \in {"administer", "viewMessAnalytics", "viewCatalog", "manageCatalog", "signedIn"}
    BY <1>5, AdminNeeds
  <2> QED
    BY <1>2, <1>5, <2>1, <2>2 DEF Accepted, Can
<1>6. CASE place.at = "STUDENT"
  <2>1. route.needs \in {"beStudent", "signedIn"} /\ route \notin ForStaff
    BY <1>6, StudentNeeds
  <2> QED
    BY <1>2, <1>6, <2>1 DEF Accepted, Can
<1> QED
  BY <1>2, <1>3, <1>4, <1>5, <1>6 DEF Roles, Scoped

LEMMA OfferedIfUpToDate == MessesAreOffered
<1> SUFFICES ASSUME UpToDate, NEW m \in MessId, ~(IsAdmin /\ m \notin activeMess)
             PROVE  /\ Can("operateMess", m) => m \in Options(told, "SUPERVISOR")
                    /\ Can("workKitchen", m) => m \in Options(told, "KITCHEN_STAFF")
  BY DEF MessesAreOffered
<1>1. /\ told.supervisor = MessesOf("SUPERVISOR")
      /\ told.kitchen = MessesOf("KITCHEN_STAFF")
      /\ told.messes = IF IsAdmin THEN activeMess
                       ELSE MessesOf("SUPERVISOR") \cup MessesOf("KITCHEN_STAFF")
  BY DEF UpToDate, Describe
<1> QED
  BY <1>1 DEF Options, Can

\* A tab is in a workspace and a mess of its user, and the pages of a tab that is
\* up to date ask for nothing the API refuses and leave out no mess but the
\* inactive ones of an administrator.
THEOREM WorkspaceCorrect == WorkspaceSpec => []WorkspaceFits
<1>1. WorkspaceInv => WorkspaceFits
  BY ServedIfUpToDate, OfferedIfUpToDate DEF WorkspaceInv, WorkspaceFits
<1> QED
  BY <1>1, WorkspaceInitial, WorkspaceInductive, PTL DEF WorkspaceSpec

-----------------------------------------------------------------------------
(* Forecasts.  A forecast's numbers are fractions in lowest terms; what they   *)
(* stand for is followed through the operations without the terms, by          *)
(* multiplying out.  That Gcd is what its recursion says is shown by           *)
(* induction, as for sums.                                                     *)

GcdStep(g, p) == IF p[2] = 0 THEN p[1] ELSE g[<<p[2], p[1] % p[2]>>]
GcdUpTo(k, g) == g = [p \in Nat \X (0..k) |-> GcdStep(g, p)]

\* Up to every bound of the second number there is a function.
LEMMA GcdStages == \A k \in Nat : \E g : GcdUpTo(k, g)
<1> DEFINE T == {k \in Nat : \E g : GcdUpTo(k, g)}
<1>1. 0 \in T
  <2> DEFINE g == [p \in Nat \X (0..0) |-> p[1]]
  <2>1. \A p \in Nat \X (0..0) : GcdStep(g, p) = p[1]
    BY DEF GcdStep
  <2>2. g = [p \in Nat \X (0..0) |-> GcdStep(g, p)]
    BY <2>1
  <2> HIDE DEF g
  <2> QED
    BY <2>2 DEF GcdUpTo
<1>2. ASSUME NEW k \in T \cap Nat
      PROVE  k + 1 \in T
  <2>1. PICK g : g = [p \in Nat \X (0..k) |-> GcdStep(g, p)]
    BY <1>2 DEF GcdUpTo
  <2> DEFINE h == [p \in Nat \X (0..(k + 1)) |-> GcdStep(g, p)]
  <2>2. ASSUME NEW p \in Nat \X (0..(k + 1))
        PROVE  GcdStep(g, p) = GcdStep(h, p)
    <3>1. CASE p[2] = 0
      BY <3>1 DEF GcdStep
    <3>2. CASE p[2] # 0
      <4> DEFINE q == <<p[2], p[1] % p[2]>>
      <4>0. p[1] \in Nat /\ p[2] \in Nat \ {0} /\ p[2] <= k + 1
        BY <3>2
      <4>1. p[1] % p[2] \in 0..(p[2] - 1)
        BY <4>0, RemainderBelow
      <4>2. q \in Nat \X (0..k) /\ q \in Nat \X (0..(k + 1))
        BY <4>0, <4>1
      <4>3. h[q] = g[q]
        BY <2>1, <4>2
      <4> HIDE DEF h
      <4> QED
        BY <3>2, <4>3 DEF GcdStep
    <3> QED
      BY <3>1, <3>2
  <2>3. h = [p \in Nat \X (0..(k + 1)) |-> GcdStep(h, p)]
    BY <2>2
  <2> HIDE DEF h
  <2> QED
    BY <2>3 DEF GcdUpTo
<1>3. Nat \subseteq T
  <2> HIDE DEF T
  <2> QED
    BY <1>1, <1>2, NatSetInduction
<1> QED
  BY <1>3

\* Which agree where both are defined.
LEMMA GcdStagesAgree ==
  ASSUME NEW j \in Nat, NEW k \in Nat, j <= k, NEW g, GcdUpTo(j, g), NEW h, GcdUpTo(k, h)
  PROVE  \A p \in Nat \X (0..j) : g[p] = h[p]
<1> DEFINE T == {n \in Nat : \A p \in Nat \X (0..j) : p[2] <= n => g[p] = h[p]}
<1>0. \A p \in Nat \X (0..j) : g[p] = GcdStep(g, p) /\ h[p] = GcdStep(h, p)
  BY DEF GcdUpTo
<1>1. 0 \in T
  <2> SUFFICES ASSUME NEW p \in Nat \X (0..j), p[2] <= 0
               PROVE  g[p] = h[p]
    OBVIOUS
  <2>1. p[2] = 0 /\ p \in Nat \X (0..k)
    OBVIOUS
  <2> QED
    BY <1>0, <2>1 DEF GcdStep
<1>2. ASSUME NEW n \in T \cap Nat
      PROVE  n + 1 \in T
  <2> SUFFICES ASSUME NEW p \in Nat \X (0..j), p[2] <= n + 1
               PROVE  g[p] = h[p]
    OBVIOUS
  <2>1. CASE p[2] = 0
    BY <1>0, <2>1 DEF GcdStep
  <2>2. CASE p[2] # 0
    <3> DEFINE q == <<p[2], p[1] % p[2]>>
    <3>0. p[1] \in Nat /\ p[2] \in Nat \ {0} /\ p[2] <= n + 1 /\ p[2] <= j
      BY <2>2
    <3>1. p[1] % p[2] \in 0..(p[2] - 1)
      BY <3>0, RemainderBelow
    <3>2. q \in Nat \X (0..j) /\ q[2] <= n
      BY <3>0, <3>1
    <3>3. g[q] = h[q]
      BY <1>2, <3>2
    <3> QED
      BY <1>0, <2>2, <3>3 DEF GcdStep
  <2> QED
    BY <2>1, <2>2
<1>3. Nat \subseteq T
  <2> HIDE DEF T
  <2> QED
    BY <1>1, <1>2, NatSetInduction
<1> QED
  BY <1>3

\* Gcd is what its recursion says.
LEMMA GcdUnfolds == \A p \in Nat \X Nat : Gcd[p] = GcdStep(Gcd, p)
<1> DEFINE IsGcd(g) == g = [p \in Nat \X Nat |-> GcdStep(g, p)]
           stage(k) == CHOOSE g : GcdUpTo(k, g)
           f == [p \in Nat \X Nat |-> stage(p[2])[p]]
<1>1. \A k \in Nat : GcdUpTo(k, stage(k))
  BY GcdStages
<1> HIDE DEF stage
<1>2. ASSUME NEW p \in Nat \X Nat
      PROVE  f[p] = GcdStep(f, p)
  <2>1. p \in Nat \X (0..p[2]) /\ p[2] \in Nat
    OBVIOUS
  <2>2. f[p] = GcdStep(stage(p[2]), p)
    BY <1>1, <2>1 DEF GcdUpTo
  <2>3. CASE p[2] = 0
    BY <2>2, <2>3 DEF GcdStep
  <2>4. CASE p[2] # 0
    <3> DEFINE q == <<p[2], p[1] % p[2]>>
    <3>1. p[1] % p[2] \in 0..(p[2] - 1)
      BY <2>4, Remainder
    <3>2. q \in Nat \X Nat /\ q[2] \in Nat /\ q[2] <= p[2] /\ q \in Nat \X (0..q[2])
      BY <3>1
    <3>3. stage(q[2])[q] = stage(p[2])[q]
      BY <1>1, <2>1, <3>2, GcdStagesAgree
    <3>4. f[q] = stage(p[2])[q]
      BY <3>2, <3>3
    <3> HIDE DEF f
    <3> QED
      BY <2>2, <2>4, <3>4 DEF GcdStep
  <2> QED
    BY <2>3, <2>4
<1>3. f = [p \in Nat \X Nat |-> GcdStep(f, p)]
  BY <1>2
<1> HIDE DEF f
<1>4. IsGcd(f)
  BY <1>3
<1>5. Gcd = CHOOSE g : IsGcd(g)
  BY DEF Gcd, GcdStep
<1>6. IsGcd(Gcd)
  BY <1>4, <1>5
<1> QED
  BY <1>6

\* It divides both numbers.
LEMMA GcdDivides ==
  ASSUME NEW p \in Nat \X Nat, p # <<0, 0>>
  PROVE  /\ Gcd[p] \in Nat \ {0}
         /\ \E a, b \in Nat : p[1] = a * Gcd[p] /\ p[2] = b * Gcd[p]
<1> DEFINE Divides(q) == /\ Gcd[q] \in Nat \ {0}
                         /\ \E a, b \in Nat : q[1] = a * Gcd[q] /\ q[2] = b * Gcd[q]
           T == {n \in Nat : \A q \in Nat \X Nat : q[2] <= n /\ q # <<0, 0>> => Divides(q)}
<1>1. ASSUME NEW q \in Nat \X Nat, q[2] = 0, q # <<0, 0>>
      PROVE  Divides(q)
  <2>0. q = <<q[1], q[2]>> /\ q[1] \in Nat
    OBVIOUS
  <2>1. Gcd[q] = q[1] /\ q[1] # 0
    BY <1>1, <2>0, GcdUnfolds DEF GcdStep
  <2>2. q[1] = 1 * Gcd[q] /\ q[2] = 0 * Gcd[q]
    BY <1>1, <2>0, <2>1
  <2> QED
    BY <2>0, <2>1, <2>2
<1>2. 0 \in T
  <2>1. ASSUME NEW q \in Nat \X Nat, q[2] <= 0
        PROVE  q[2] = 0
    BY <2>1
  <2> HIDE DEF Divides
  <2> QED
    BY <1>1, <2>1
<1>3. ASSUME NEW n \in T \cap Nat
      PROVE  n + 1 \in T
  <2> SUFFICES ASSUME NEW q \in Nat \X Nat, q[2] <= n + 1, q # <<0, 0>>, q[2] # 0
               PROVE  Divides(q)
    <3> HIDE DEF Divides
    <3> QED
      BY <1>1
  <2> DEFINE r == <<q[2], q[1] % q[2]>>
  <2>1. /\ q[1] % q[2] \in 0..(q[2] - 1)
        /\ q[1] = (q[1] \div q[2]) * q[2] + (q[1] % q[2])
        /\ q[1] \div q[2] \in Nat
    <3>1. q[1] \in Nat /\ q[2] \in Nat \ {0}
      OBVIOUS
    <3>2. q[1] % q[2] \in 0..(q[2] - 1)
      BY <3>1, RemainderBelow
    <3>3. q[1] = (q[1] \div q[2]) * q[2] + (q[1] % q[2]) /\ q[1] \div q[2] \in Nat
      BY <3>1, Remainder
    <3> QED
      BY <3>2, <3>3
  <2>2. r \in Nat \X Nat /\ r[2] <= n /\ r # <<0, 0>>
    BY <2>1
  <2>3. Gcd[r] \in Nat \ {0} /\ \E a, b \in Nat : r[1] = a * Gcd[r] /\ r[2] = b * Gcd[r]
    BY <1>3, <2>2
  <2>4. PICK a \in Nat, b \in Nat : q[2] = a * Gcd[r] /\ q[1] % q[2] = b * Gcd[r]
    BY <2>3
  <2>5. Gcd[q] = Gcd[r]
    BY GcdUnfolds DEF GcdStep
  <2> DEFINE d == q[1] \div q[2]
             c == d * a + b
  <2>6. d \in Nat /\ c \in Nat
    <3>1. d \in Nat
      BY <2>1
    <3> HIDE DEF d
    <3> QED
      BY <3>1
  <2>7. q[1] = c * Gcd[q]
    <3> DEFINE x == Gcd[q]
               y == q[1]
               z == q[2]
               w == q[1] % q[2]
    <3>1. y = d * z + w /\ z = a * x /\ w = b * x /\ x \in Nat
      <4>1. y = d * z + w
        BY <2>1
      <4>2. z = a * x /\ w = b * x
        BY <2>4, <2>5
      <4>3. x \in Nat
        BY <2>3, <2>5
      <4> QED
        BY <4>1, <4>2, <4>3
    <3>2. d \in Nat
      BY <2>6
    <3> HIDE DEF x, y, z, w, d
    <3>3. y = d * (a * x) + b * x
      BY <3>1
    <3>4. d * (a * x) + b * x = (d * a + b) * x
      BY <3>1, <3>2
    <3> QED
      BY <3>3, <3>4 DEF x, y
  <2> HIDE DEF c
  <2> QED
    BY <2>3, <2>4, <2>5, <2>6, <2>7
<1>4. Nat \subseteq T
  <2> HIDE DEF T
  <2> QED
    BY <1>2, <1>3, NatSetInduction
<1>5. p[2] \in Nat
  OBVIOUS
<1> QED
  BY <1>4, <1>5

-----------------------------------------------------------------------------
(* Fractions. *)

Rates == Nat \X (Nat \ {0})

\* A fraction in lowest terms has the value of the fraction.
LEMMA FractionReduces ==
  ASSUME NEW n \in Nat, NEW d \in Nat \ {0}
  PROVE  /\ Fraction(n, d) \in Rates
         /\ Fraction(n, d)[1] * d = n * Fraction(n, d)[2]
<1> DEFINE g == Gcd[<<n, d>>]
<1>1. /\ g \in Nat \ {0}
      /\ \E a, b \in Nat : n = a * g /\ d = b * g
  <2>1. <<n, d>> \in Nat \X Nat /\ <<n, d>> # <<0, 0>>
    OBVIOUS
  <2> QED
    BY <2>1, GcdDivides
<1> HIDE DEF g
<1>2. PICK a \in Nat, b \in Nat : n = a * g /\ d = b * g
  BY <1>1
<1>3. n \div g = a /\ d \div g = b
  BY <1>1, <1>2, ExactQuotient
<1>4. b # 0
  BY <1>1, <1>2
<1>5. Fraction(n, d) = <<a, b>>
  BY <1>3 DEF Fraction, g
<1>6. a * d = n * b
  BY <1>1, <1>2
<1> QED
  BY <1>4, <1>5, <1>6 DEF Rates

\* The operations compute the values they are named for.
LEMMA PlusValue ==
  ASSUME NEW p \in Rates, NEW q \in Rates
  PROVE  /\ Plus(p, q) \in Rates
         /\ Plus(p, q)[1] * (p[2] * q[2]) = (p[1] * q[2] + q[1] * p[2]) * Plus(p, q)[2]
<1>1. p[1] \in Nat /\ q[1] \in Nat /\ p[2] \in Nat \ {0} /\ q[2] \in Nat \ {0}
  BY DEF Rates
<1>2. p[1] * q[2] \in Nat /\ q[1] * p[2] \in Nat /\ p[2] * q[2] \in Nat \ {0}
  BY <1>1, Products
<1>3. p[1] * q[2] + q[1] * p[2] \in Nat
  BY <1>2
<1> QED
  BY <1>2, <1>3, FractionReduces DEF Plus

LEMMA TimesValue ==
  ASSUME NEW p \in Rates, NEW q \in Rates
  PROVE  /\ Times(p, q) \in Rates
         /\ Times(p, q)[1] * (p[2] * q[2]) = (p[1] * q[1]) * Times(p, q)[2]
<1>1. p[1] \in Nat /\ q[1] \in Nat /\ p[2] \in Nat \ {0} /\ q[2] \in Nat \ {0}
  BY DEF Rates
<1>2. p[1] * q[1] \in Nat /\ p[2] * q[2] \in Nat \ {0}
  BY <1>1, Products
<1> QED
  BY <1>2, FractionReduces DEF Times

LEMMA OverValue ==
  ASSUME NEW p \in Rates, NEW q \in Rates, q[1] # 0
  PROVE  /\ Over(p, q) \in Rates
         /\ Over(p, q)[1] * (p[2] * q[1]) = (p[1] * q[2]) * Over(p, q)[2]
<1>1. p[1] \in Nat /\ q[1] \in Nat \ {0} /\ p[2] \in Nat \ {0} /\ q[2] \in Nat \ {0}
  BY DEF Rates
<1>2. p[1] * q[2] \in Nat /\ p[2] * q[1] \in Nat \ {0}
  BY <1>1, Products
<1> QED
  BY <1>2, FractionReduces DEF Over

\* A whole number is itself over 1.
LEMMA WholeValue ==
  ASSUME NEW n \in Nat
  PROVE  Whole(n) \in Rates /\ Whole(n)[1] = n /\ Whole(n)[2] = 1
BY DEF Whole, Rates

-----------------------------------------------------------------------------
(* Rates. *)

Priors == [rate : Rates, strength : Nat]

\* A share of the prior's students and a number of students who did come.
LEMMA Weighted ==
  ASSUME NEW p \in Rates, NEW s \in Nat, NEW n \in Nat
  PROVE  LET w == Plus(Times(p, Whole(s)), Whole(n)) IN
         /\ w \in Rates
         /\ w[1] * p[2] = (p[1] * s + n * p[2]) * w[2]
<1> DEFINE u == Times(p, Whole(s))
           w == Plus(u, Whole(n))
           a == p[1]
           b == p[2]
<1>1. a \in Nat /\ b \in Nat \ {0}
  BY DEF Rates
<1>2. u \in Rates /\ u[1] * (b * 1) = (a * s) * u[2]
  BY TimesValue, WholeValue
<1>3. w \in Rates /\ w[1] * (u[2] * 1) = (u[1] * 1 + n * u[2]) * w[2]
  BY <1>2, PlusValue, WholeValue
<1>4. u[1] \in Nat /\ u[2] \in Nat \ {0} /\ w[1] \in Nat /\ w[2] \in Nat \ {0}
  BY <1>2, <1>3 DEF Rates
<1> DEFINE u1 == u[1]
           u2 == u[2]
           w1 == w[1]
           w2 == w[2]
<1>5. /\ u1 \in Nat /\ u2 \in Nat \ {0} /\ w1 \in Nat /\ w2 \in Nat \ {0}
      /\ u1 * b = (a * s) * u2 /\ w1 * u2 = (u1 + n * u2) * w2
  BY <1>1, <1>2, <1>3, <1>4
<1> HIDE DEF u1, u2, w1, w2, a, b
<1>6. u2 * (w1 * b) = ((u1 + n * u2) * w2) * b
  BY <1>1, <1>5
<1>7. ((u1 + n * u2) * w2) * b = (u1 * b) * w2 + ((n * u2) * w2) * b
  BY <1>1, <1>5
<1>8. (u1 * b) * w2 + ((n * u2) * w2) * b = u2 * ((a * s + n * b) * w2)
  BY <1>1, <1>5
<1>9. w1 * b \in Int /\ (a * s + n * b) * w2 \in Int
  BY <1>1, <1>5
<1>10. w1 * b = (a * s + n * b) * w2
  BY <1>5, <1>6, <1>7, <1>8, <1>9, CancelEqual
<1> QED
  BY <1>3, <1>10 DEF w1, w2, a, b

\* The mean of a group, without the fractions: the prior's attendance and what
\* was seen, by the prior's strength and the students seen.
LEMMA PosteriorMean ==
  ASSUME NEW prior \in Priors, prior.rate[1] <= prior.rate[2],
         NEW n \in Nat, NEW t \in Nat, n <= t
  PROVE  LET m == Posterior(prior, n, t).mean
             a == prior.rate[1]
             b == prior.rate[2]
             s == prior.strength
         IN /\ m \in Rates
            /\ s + t = 0 => m = prior.rate
            /\ m[1] * ((s + t) * b) = (a * s + n * b) * m[2]
<1> DEFINE p == prior.rate
           a == p[1]
           b == p[2]
           s == prior.strength
           alpha == Plus(Times(p, Whole(s)), Whole(n))
           beta == Plus(Times(Rest(p), Whole(s)), Whole(t - n))
           sum == Plus(alpha, beta)
           m == Posterior(prior, n, t).mean
<1>1. /\ p \in Rates /\ s \in Nat /\ a \in Nat /\ b \in Nat \ {0} /\ a <= b
      /\ t - n \in Nat
  BY DEF Priors, Rates
<1>2. Rest(p) \in Rates /\ Rest(p)[1] = b - a /\ Rest(p)[2] = b /\ b - a \in Nat
  BY <1>1 DEF Rest, Rates
<1>3. alpha \in Rates /\ alpha[1] * b = (a * s + n * b) * alpha[2]
  BY <1>1, Weighted
<1>4. beta \in Rates /\ beta[1] * b = ((b - a) * s + (t - n) * b) * beta[2]
  <2> DEFINE q == Rest(p)
             k == t - n
             w == Plus(Times(q, Whole(s)), Whole(k))
  <2>1. q \in Rates /\ q[1] = b - a /\ q[2] = b /\ k \in Nat /\ s \in Nat
    BY <1>1, <1>2
  <2> HIDE DEF q, k, s, a, b
  <2>2. w \in Rates /\ w[1] * q[2] = (q[1] * s + k * q[2]) * w[2]
    BY <2>1, Weighted
  <2>3. w[1] * b = ((b - a) * s + k * b) * w[2]
    BY <2>1, <2>2
  <2> QED
    BY <2>2, <2>3 DEF q, k, s
<1>5. /\ sum \in Rates
      /\ sum[1] * (alpha[2] * beta[2]) = (alpha[1] * beta[2] + beta[1] * alpha[2]) * sum[2]
  BY <1>3, <1>4, PlusValue
<1>6. m = IF sum[1] = 0 THEN p ELSE Over(alpha, sum)
  <2> DEFINE v == Over(Times(alpha, beta), Times(Times(sum, sum), Plus(sum, Whole(1))))
             zero == Whole(0)
  <2>1. Posterior(prior, n, t) =
          IF sum[1] = 0 THEN [mean |-> p, variance |-> zero]
          ELSE [mean |-> Over(alpha, sum), variance |-> v]
    BY DEF Posterior
  <2> HIDE DEF v, alpha, beta, sum, p, zero
  <2>2. Posterior(prior, n, t).mean = IF sum[1] = 0 THEN p ELSE Over(alpha, sum)
    BY <2>1
  <2> QED
    BY <2>2
<1> DEFINE x1 == alpha[1]
           x2 == alpha[2]
           y1 == beta[1]
           y2 == beta[2]
           z1 == sum[1]
           z2 == sum[2]
<1>7. /\ x1 \in Nat /\ x2 \in Nat \ {0} /\ y1 \in Nat /\ y2 \in Nat \ {0}
      /\ z1 \in Nat /\ z2 \in Nat \ {0}
  BY <1>3, <1>4, <1>5 DEF Rates
<1>8. /\ x1 * b = (a * s + n * b) * x2
      /\ y1 * b = ((b - a) * s + (t - n) * b) * y2
      /\ z1 * (x2 * y2) = (x1 * y2 + y1 * x2) * z2
  BY <1>3, <1>4, <1>5
<1>9. z1 # 0 => m \in Rates /\ m[1] * (x2 * z1) = (x1 * z2) * m[2]
  BY <1>3, <1>5, <1>6, OverValue
<1>10. z1 = 0 => m = p
  BY <1>6
<1> HIDE DEF x1, x2, y1, y2, z1, z2, m, s, a, b
<1>11. z1 = (s + t) * z2
  <2>1. (x2 * y2) * (z1 * b) = ((x1 * b) * y2 + (y1 * b) * x2) * z2
    <3>1. (x2 * y2) * (z1 * b) = (z1 * (x2 * y2)) * b
      BY <1>1, <1>7
    <3>2. (z1 * (x2 * y2)) * b = ((x1 * y2 + y1 * x2) * z2) * b
      BY <1>8
    <3>3. ((x1 * y2 + y1 * x2) * z2) * b = ((x1 * b) * y2 + (y1 * b) * x2) * z2
      BY <1>1, <1>7
    <3> QED
      BY <3>1, <3>2, <3>3
  <2> DEFINE k == a * s + n * b
             l == (b - a) * s + (t - n) * b
  <2>2. k \in Int /\ l \in Int /\ k + l = (s + t) * b
    BY <1>1
  <2>3. x1 * b = k * x2 /\ y1 * b = l * y2
    BY <1>8
  <2> HIDE DEF k, l
  <2>4. (x2 * y2) * (z1 * b) = ((k * x2) * y2 + (l * y2) * x2) * z2
    BY <2>1, <2>3
  <2>5. ((k * x2) * y2 + (l * y2) * x2) * z2 = (x2 * y2) * ((k + l) * z2)
    BY <1>7, <2>2
  <2>6. x2 * y2 \in Nat \ {0} /\ z1 * b \in Int /\ (k + l) * z2 \in Int
    BY <1>1, <1>7, <2>2, Products
  <2>7. z1 * b = (k + l) * z2
    BY <2>4, <2>5, <2>6, CancelEqual
  <2>8. b * z1 = b * ((s + t) * z2)
    BY <1>1, <1>7, <2>2, <2>7
  <2>9. (s + t) * z2 \in Int
    BY <1>1, <1>7
  <2> DEFINE r == (s + t) * z2
  <2>10. r \in Int /\ b * z1 = b * r /\ z1 \in Int
    BY <1>7, <2>8, <2>9
  <2> HIDE DEF r
  <2>11. z1 = r
    BY <1>1, <2>10, CancelEqual
  <2> QED
    BY <2>11 DEF r
<1>12. CASE z1 = 0
  <2>1. s + t = 0
    BY <1>1, <1>7, <1>11, <1>12, Products
  <2>2. s = 0 /\ t = 0 /\ n = 0
    BY <1>1, <2>1
  <2>3. m = p
    BY <1>10, <1>12
  <2>4. m[1] = a /\ m[2] = b /\ m \in Rates
    BY <1>1, <2>3 DEF a, b
  <2>5. m[1] * ((s + t) * b) = (a * s + n * b) * m[2]
    BY <1>1, <2>2, <2>4
  <2> QED
    BY <2>3, <2>4, <2>5 DEF m, a, b, s
<1>13. CASE z1 # 0
  <2>1. s + t # 0
    BY <1>1, <1>7, <1>11, <1>13
  <2>2. m \in Rates /\ m[1] * (x2 * z1) = (x1 * z2) * m[2]
    BY <1>9, <1>13
  <2> DEFINE m1 == m[1]
             m2 == m[2]
             k == a * s + n * b
             l == s + t
  <2>3. m1 \in Nat /\ m2 \in Nat \ {0} /\ m1 * (x2 * z1) = (x1 * z2) * m2
    BY <2>2 DEF Rates
  <2>4. k \in Nat /\ l \in Nat /\ x1 * b = k * x2 /\ z1 = l * z2
    BY <1>1, <1>8, <1>11
  <2> HIDE DEF m1, m2, k, l
  <2>5. (x2 * z2) * (m1 * (l * b)) = (m1 * (x2 * (l * z2))) * b
    BY <1>1, <1>7, <2>3, <2>4
  <2>6. (m1 * (x2 * (l * z2))) * b = ((x1 * z2) * m2) * b
    BY <2>3, <2>4
  <2>7. ((x1 * z2) * m2) * b = ((x1 * b) * z2) * m2
    BY <1>1, <1>7, <2>3
  <2>8. ((x1 * b) * z2) * m2 = ((k * x2) * z2) * m2
    BY <2>4
  <2>9. ((k * x2) * z2) * m2 = (x2 * z2) * (k * m2)
    BY <1>7, <2>3, <2>4
  <2>10. x2 * z2 \in Nat \ {0} /\ m1 * (l * b) \in Int /\ k * m2 \in Int
    BY <1>1, <1>7, <2>3, <2>4, Products
  <2>11. m1 * (l * b) = k * m2
    BY <2>5, <2>6, <2>7, <2>8, <2>9, <2>10, CancelEqual
  <2> QED
    BY <2>1, <2>2, <2>11 DEF m1, m2, k, l, m, a, b, s
<1> QED
  BY <1>12, <1>13

\* A mean of two rates lies between them.
LEMMA MeanBetween ==
  ASSUME NEW a \in Nat, NEW b \in Nat \ {0}, a <= b, NEW s \in Nat,
         NEW n \in Nat, NEW t \in Nat, n <= t, s + t # 0,
         NEW x \in Nat, NEW y \in Nat \ {0},
         x * ((s + t) * b) = (a * s + n * b) * y
  PROVE  /\ x <= y
         /\ a * t <= n * b => a * y <= x * b /\ x * t <= n * y
         /\ n * b <= a * t => x * b <= a * y /\ n * y <= x * t
<1> DEFINE k == s + t
           w == a * s + n * b
<1>1. k \in Nat \ {0} /\ w \in Nat /\ x * (k * b) = w * y /\ k * b \in Nat \ {0}
  BY Products
<1>2. w <= k * b
  <2>1. a * s <= b * s /\ n * b <= t * b
    BY Scale
  <2>2. /\ a * s \in Int /\ b * s \in Int /\ n * b \in Int /\ t * b \in Int
        /\ b * s + t * b = k * b
    OBVIOUS
  <2> QED
    BY <2>1, <2>2
<1>3. x <= y
  <2> HIDE DEF k, w
  <2> DEFINE l == k * b
  <2>1. l \in Nat \ {0} /\ w <= l /\ x * l = w * y
    BY <1>1, <1>2
  <2> HIDE DEF l
  <2>2. w * y <= l * y
    BY <1>1, <2>1, Scale
  <2>3. l * x <= l * y
    BY <2>1, <2>2
  <2> QED
    BY <2>1, <2>3, Cancel
<1>4. k * (x * b) = w * y
  <2> HIDE DEF k, w
  <2> QED
    BY <1>1
<1>5. k * (a * y) = (a * s + a * t) * y
  OBVIOUS
<1>6. (k * b) * (x * t) = (w * t) * y
  <2> HIDE DEF k, w
  <2>1. (k * b) * (x * t) = (x * (k * b)) * t
    BY <1>1
  <2>2. (x * (k * b)) * t = (w * y) * t
    BY <1>1
  <2>3. (w * y) * t = (w * t) * y
    BY <1>1
  <2> QED
    BY <2>1, <2>2, <2>3
<1>7. (k * b) * (n * y) = ((n * b) * s + (n * b) * t) * y
  OBVIOUS
<1>8. w * t = (a * t) * s + (n * b) * t
  OBVIOUS
<1> DEFINE at == a * t
           nb == n * b
           as == a * s
           xb == x * b
           ay == a * y
           xt == x * t
           ny == n * y
           kb == k * b
<1>9. /\ at \in Nat /\ nb \in Nat /\ as \in Nat /\ xb \in Nat /\ ay \in Nat
      /\ xt \in Nat /\ ny \in Nat /\ kb \in Nat \ {0}
      /\ k * xb = (as + nb) * y /\ k * ay = (as + at) * y
      /\ kb * xt = (at * s + nb * t) * y /\ kb * ny = (nb * s + nb * t) * y
  BY <1>1, <1>4, <1>5, <1>6, <1>7, <1>8
<1>10. k \in Nat \ {0}
  BY <1>1
<1> HIDE DEF at, nb, as, xb, ay, xt, ny, kb, k, w
<1>11. ASSUME at <= nb
       PROVE  ay <= xb /\ xt <= ny
  <2>1. as + at <= as + nb /\ as + at \in Int /\ as + nb \in Int
    BY <1>9, <1>11
  <2>2. k * ay <= k * xb
    BY <1>9, <2>1, Scale
  <2>3. at * s <= nb * s
    BY <1>9, <1>11, Scale
  <2>4. /\ at * s + nb * t <= nb * s + nb * t
        /\ at * s + nb * t \in Int /\ nb * s + nb * t \in Int
    BY <1>9, <2>3
  <2>5. kb * xt <= kb * ny
    BY <1>9, <2>4, Scale
  <2> QED
    BY <1>9, <1>10, <2>2, <2>5, Cancel
<1>12. ASSUME nb <= at
       PROVE  xb <= ay /\ ny <= xt
  <2>1. as + nb <= as + at /\ as + at \in Int /\ as + nb \in Int
    BY <1>9, <1>12
  <2>2. k * xb <= k * ay
    BY <1>9, <2>1, Scale
  <2>3. nb * s <= at * s
    BY <1>9, <1>12, Scale
  <2>4. /\ nb * s + nb * t <= at * s + nb * t
        /\ at * s + nb * t \in Int /\ nb * s + nb * t \in Int
    BY <1>9, <2>3
  <2>5. kb * ny <= kb * xt
    BY <1>9, <2>4, Scale
  <2> QED
    BY <1>9, <1>10, <2>2, <2>5, Cancel
<1> QED
  BY <1>3, <1>11, <1>12 DEF at, nb, xb, ay, xt, ny

\* With no students seen, or none assumed, it is the other rate.
LEMMA MeanOfOne ==
  ASSUME NEW a \in Nat, NEW b \in Nat \ {0}, NEW s \in Nat \ {0},
         NEW x \in Nat, NEW y \in Nat \ {0}
  PROVE  /\ x * (s * b) = (a * s) * y => x * b = a * y
         /\ x * (s * b) = (a * b) * y => x * s = a * y
<1>1. s * (x * b) = x * (s * b) /\ s * (a * y) = (a * s) * y
  OBVIOUS
<1>2. b * (x * s) = x * (s * b) /\ b * (a * y) = (a * b) * y
  OBVIOUS
<1>3. x * b \in Int /\ a * y \in Int /\ x * s \in Int
  OBVIOUS
<1>4. ASSUME x * (s * b) = (a * s) * y
      PROVE  x * b = a * y
  BY <1>1, <1>3, <1>4, CancelEqual
<1>5. ASSUME x * (s * b) = (a * b) * y
      PROVE  x * s = a * y
  BY <1>2, <1>3, <1>5, CancelEqual
<1> QED
  BY <1>4, <1>5

\* The rate of a group lies between what was assumed and what was seen, and is
\* at most one.
LEMMA RateLearned ==
  ASSUME NEW prior \in Priors, prior.rate[1] <= prior.rate[2],
         NEW n \in Nat, NEW t \in Nat, n <= t
  PROVE  LET m == Posterior(prior, n, t).mean
             seen == <<n, t>>
         IN /\ m \in Rates
            /\ m[1] <= m[2]
            /\ Between(IF prior.strength = 0 /\ t > 0 THEN seen ELSE prior.rate, m,
                       IF t = 0 THEN prior.rate ELSE seen)
<1> DEFINE m == Posterior(prior, n, t).mean
           a == prior.rate[1]
           b == prior.rate[2]
           s == prior.strength
           x == m[1]
           y == m[2]
           seen == <<n, t>>
<1>1. /\ a \in Nat /\ b \in Nat \ {0} /\ a <= b /\ s \in Nat
      /\ prior.rate \in Rates /\ prior.rate = <<a, b>>
  BY DEF Priors, Rates
<1>2. /\ m \in Rates
      /\ s + t = 0 => m = prior.rate
      /\ x * ((s + t) * b) = (a * s + n * b) * y
  BY PosteriorMean
<1>3. x \in Nat /\ y \in Nat \ {0} /\ m = <<x, y>>
  BY <1>2 DEF Rates
<1> HIDE DEF m, a, b, s, x, y
<1>4. CASE s + t = 0
  <2>1. t = 0 /\ x = a /\ y = b
    BY <1>1, <1>2, <1>3, <1>4
  <2>2. Between(prior.rate, m, prior.rate)
    BY <1>1, <1>3, <2>1 DEF Between, AtMost
  <2> QED
    BY <1>1, <1>2, <2>1, <2>2 DEF m, x, y, s
<1>5. CASE s + t # 0
  <2>1. x <= y
    BY <1>1, <1>2, <1>3, <1>5, MeanBetween
  <2>2. CASE t = 0
    <3>1. n = 0 /\ s # 0
      BY <1>1, <1>5, <2>2
    <3>2. x * (s * b) = (a * s) * y
      <4>1. (s + t) * b = s * b /\ a * s + n * b = a * s
        BY <1>1, <2>2, <3>1
      <4> QED
        BY <1>2, <4>1
    <3>3. x * b = a * y
      BY <1>1, <1>3, <3>1, <3>2, MeanOfOne
    <3>4. Between(prior.rate, m, prior.rate)
      BY <1>1, <1>3, <3>3 DEF Between, AtMost
    <3> QED
      BY <1>2, <2>1, <2>2, <3>4 DEF m, x, y
  <2>3. CASE t # 0 /\ s = 0
    <3>1. x * (t * b) = (n * b) * y
      <4>1. (s + t) * b = t * b /\ a * s + n * b = n * b
        BY <1>1, <2>3
      <4> QED
        BY <1>2, <4>1
    <3>2. x * t = n * y
      BY <1>1, <1>3, <2>3, <3>1, MeanOfOne
    <3>3. Between(seen, m, seen)
      BY <1>3, <3>2 DEF Between, AtMost
    <3>4. t > 0
      BY <2>3
    <3> QED
      BY <1>2, <2>1, <2>3, <3>3, <3>4 DEF m, x, y, s
  <2>4. CASE t # 0 /\ s # 0
    <3>1. /\ a * t <= n * b => a * y <= x * b /\ x * t <= n * y
          /\ n * b <= a * t => x * b <= a * y /\ n * y <= x * t
      BY <1>1, <1>2, <1>3, <1>5, MeanBetween
    <3>2. a * t <= n * b \/ n * b <= a * t
      <4>1. a * t \in Int /\ n * b \in Int
        BY <1>1
      <4> QED
        BY <4>1
    <3>3. Between(prior.rate, m, seen)
      BY <1>1, <1>3, <3>1, <3>2 DEF Between, AtMost
    <3> QED
      BY <1>2, <2>1, <2>4, <3>3 DEF m, x, y, s
  <2> QED
    BY <2>2, <2>3, <2>4
<1> QED
  BY <1>4, <1>5

-----------------------------------------------------------------------------
(* The servings. *)

\* As many as are expected, and no more than there are students.
LEMMA ServingsSuffice ==
  ASSUME NEW mean \in Rates, NEW variance, NEW z, Total(Counts) \in Nat,
         mean[1] <= Total(Counts) * mean[2]
  PROVE  /\ Recommended(mean, variance, z) \in 0..Total(Counts)
         /\ mean[1] <= Recommended(mean, variance, z) * mean[2]
<1> DEFINE e == Total(Counts)
           R == {k \in 0..e : Reaches(k, mean, variance, z)}
           S == {e} \cup R
           v == Min(S)
<1>1. v \in S /\ S \subseteq 0..e
  <2>1. S \in SUBSET Nat /\ S # {} /\ S \subseteq 0..e
    OBVIOUS
  <2> HIDE DEF S
  <2> QED
    BY <2>1, LeastOf
<1>2. Recommended(mean, variance, z) = v
  BY DEF Recommended
<1>3. \A k \in R : mean[1] <= k * mean[2]
  <2> SUFFICES ASSUME NEW k \in R
               PROVE  mean[1] <= k * mean[2]
    OBVIOUS
  <2>1. AtMost(mean, Whole(k)) /\ k \in Nat
    BY DEF Reaches
  <2>2. mean[1] * 1 <= k * mean[2] /\ mean[1] \in Nat
    BY <2>1 DEF AtMost, Whole, Rates
  <2> QED
    BY <2>2
<1> HIDE DEF R
<1>4. v = e \/ v \in R
  BY <1>1
<1> HIDE DEF v, S
<1> QED
  BY <1>1, <1>2, <1>3, <1>4

\* The number expected, in hundredths, rounded: between the multiples of a
\* hundred between which it lies.
LEMMA RoundedScaled ==
  ASSUME NEW mean \in Rates
  PROVE  LET p == Rounded(Times(mean, Whole(100))) IN
         /\ p \in Nat
         /\ \A k \in Nat : mean[1] <= k * mean[2] => p <= 100 * k
         /\ \A k \in Nat : k * mean[2] <= mean[1] => 100 * k <= p
<1> DEFINE w == Times(mean, Whole(100))
           p == Rounded(w)
           a == mean[1]
           b == mean[2]
           x == w[1]
           y == w[2]
<1>1. a \in Nat /\ b \in Nat \ {0}
  BY DEF Rates
<1>2. w \in Rates /\ x * (b * 1) = (a * 100) * y
  BY TimesValue, WholeValue
<1>3. x \in Nat /\ y \in Nat \ {0}
  BY <1>2 DEF Rates
<1>4. p = (2 * x + y) \div (2 * y)
  BY DEF Rounded
<1> HIDE DEF w, p, a, b, x, y
<1>5. p \in Nat /\ p * (2 * y) <= 2 * x + y /\ 2 * x + y < p * (2 * y) + 2 * y
  <2> DEFINE n == 2 * x + y
             d == 2 * y
  <2>1. n \in Nat /\ d \in Nat \ {0} /\ p = n \div d
    BY <1>3, <1>4
  <2> HIDE DEF n, d
  <2>2. p \in Nat /\ p * d <= n /\ n < p * d + d
    BY <2>1, DivBounds
  <2> QED
    BY <2>2 DEF n, d
<1>6. b * x = (a * 100) * y
  BY <1>1, <1>2, <1>3
<1>7. /\ p * (2 * y) = y * (2 * p)
      /\ p * (2 * y) + 2 * y = y * (2 * p + 2)
  BY <1>3, <1>5
<1>8. ASSUME NEW k \in Nat, a <= k * b
      PROVE  p <= 100 * k
  <2>1. a * (100 * y) <= (k * b) * (100 * y)
    BY <1>1, <1>3, <1>8, Scale
  <2>2. /\ a * (100 * y) = b * x
        /\ (k * b) * (100 * y) = b * ((100 * k) * y)
        /\ (100 * k) * y \in Int
    BY <1>1, <1>3, <1>6
  <2>3. x <= (100 * k) * y
    BY <1>1, <1>3, <2>1, <2>2, Cancel
  <2>4. 2 * ((100 * k) * y) + y = y * (200 * k + 1)
    BY <1>3
  <2>5. y * (2 * p) <= y * (200 * k + 1)
    BY <1>3, <1>5, <1>7, <2>2, <2>3, <2>4
  <2>6. 2 * p <= 200 * k + 1
    BY <1>3, <1>5, <2>5, Cancel
  <2> QED
    BY <1>5, <2>6
<1>9. ASSUME NEW k \in Nat, k * b <= a
      PROVE  100 * k <= p
  <2>1. (k * b) * (100 * y) <= a * (100 * y)
    BY <1>1, <1>3, <1>9, Scale
  <2>2. /\ a * (100 * y) = b * x
        /\ (k * b) * (100 * y) = b * ((100 * k) * y)
        /\ (100 * k) * y \in Int
    BY <1>1, <1>3, <1>6
  <2>3. (100 * k) * y <= x
    BY <1>1, <1>3, <2>1, <2>2, Cancel
  <2>4. 2 * ((100 * k) * y) + y = y * (200 * k + 1)
    BY <1>3
  <2>5. y * (200 * k + 1) <= y * (2 * p + 2)
    BY <1>3, <1>5, <1>7, <2>2, <2>3, <2>4
  <2>6. 200 * k + 1 <= 2 * p + 2
    BY <1>3, <1>5, <2>5, Cancel
  <2> QED
    BY <1>5, <2>6
<1> QED
  BY <1>5, <1>8, <1>9 DEF p, w, a, b

\* The number expected, rounded up.
LEMMA CeilBounds ==
  ASSUME NEW mean \in Rates, NEW v \in Nat, mean[1] <= v * mean[2]
  PROVE  /\ Ceil(mean) \in 0..v
         /\ mean[1] <= Ceil(mean) * mean[2]
         /\ Ceil(mean) # 0 => (Ceil(mean) - 1) * mean[2] <= mean[1]
<1> DEFINE a == mean[1]
           b == mean[2]
           c == Ceil(mean)
           n == a + b - 1
<1>1. a \in Nat /\ b \in Nat \ {0} /\ a <= v * b
  BY DEF Rates
<1>2. n \in Nat /\ c = n \div b
  BY <1>1 DEF Ceil
<1> HIDE DEF a, b, c
<1>3. c \in Nat /\ c * b <= n /\ n < c * b + b
  <2> HIDE DEF n
  <2> QED
    BY <1>1, <1>2, DivBounds
<1>4. c * b \in Nat /\ v * b \in Nat /\ (c - 1) * b = c * b - b
  BY <1>1, <1>3
<1>5. a <= c * b /\ (c - 1) * b <= a
  BY <1>1, <1>3, <1>4
<1>6. c * b < v * b + b
  BY <1>1, <1>3, <1>4
<1>7. c * b <= v * b
  BY <1>1, <1>3, <1>6, MultiplesOrdered
<1>8. b * c <= b * v
  BY <1>1, <1>3, <1>7
<1>9. c <= v
  BY <1>1, <1>3, <1>8, Cancel
<1> QED
  BY <1>3, <1>5, <1>9 DEF a, b, c

-----------------------------------------------------------------------------
(* The forecast. *)

OutcomesTyped ==
  /\ DOMAIN outcomes \subseteq Past
  /\ \A d \in DOMAIN outcomes : outcomes[d] \in Turnout

\* No more attended than there were, in the sum over the meals learned from.
LEMMA HistoryWeighed ==
  ASSUME OutcomesTyped, NEW g \in Group
  PROVE  /\ LoadHistory.attended[g] \in Nat
         /\ LoadHistory.total[g] \in Nat
         /\ LoadHistory.attended[g] <= LoadHistory.total[g]
<1> DEFINE total == [d \in History |-> outcomes[d].students[g]]
           seen == [d \in History |-> outcomes[d].attended[g]]
<1>1. History \subseteq DOMAIN outcomes /\ IsFiniteSet(History)
  <2>1. History \subseteq DOMAIN outcomes
    BY DEF History, Learnable
  <2> QED
    BY <2>1, FS_Subset, ForecastAssumption DEF OutcomesTyped
<1>2. \A d \in History : seen[d] \in Nat /\ total[d] \in Nat /\ seen[d] <= total[d]
  <2> SUFFICES ASSUME NEW d \in History
               PROVE  seen[d] \in Nat /\ total[d] \in Nat /\ seen[d] <= total[d]
    OBVIOUS
  <2> DEFINE o == outcomes[d]
  <2>1. o \in Turnout
    BY <1>1 DEF OutcomesTyped
  <2>2. o \in [students : [Group -> Nat], attended : [Group -> Nat]]
    BY <2>1, ForecastAssumption
  <2>3. o.attended[g] <= o.students[g]
    BY <2>1, ForecastAssumption
  <2>4. o.attended[g] \in Nat /\ o.students[g] \in Nat
    BY <2>2
  <2> QED
    BY <2>3, <2>4
<1>3. /\ LoadHistory.attended[g] = SumFunctionOnSet(seen, History)
      /\ LoadHistory.total[g] = SumFunctionOnSet(total, History)
  BY DEF LoadHistory
<1> HIDE DEF seen, total
<1>4. SumFunctionOnSet(seen, History) \in Nat /\ SumFunctionOnSet(total, History) \in Nat
  BY <1>1, <1>2, SumNat
<1>5. SumFunctionOnSet(seen, History) <= SumFunctionOnSet(total, History)
  BY <1>1, <1>2, SumOrdered
<1> QED
  BY <1>3, <1>4, <1>5

\* What is expected of a group is no more than its students.
LEMMA ExpectedFits ==
  ASSUME NEW n \in Nat, NEW m \in Rates, m[1] <= m[2]
  PROVE  LET x == Times(Whole(n), m) IN x \in Rates /\ x[1] <= n * x[2]
<1> DEFINE x == Times(Whole(n), m)
           a == m[1]
           b == m[2]
           x1 == x[1]
           x2 == x[2]
<1>1. a \in Nat /\ b \in Nat \ {0} /\ a <= b
  BY DEF Rates
<1>2. x \in Rates /\ x1 * (1 * b) = (n * a) * x2
  BY TimesValue, WholeValue
<1>3. x1 \in Nat /\ x2 \in Nat \ {0}
  BY <1>2 DEF Rates
<1> HIDE DEF a, b, x1, x2
<1>4. b * x1 = a * (n * x2) /\ n * x2 \in Nat
  BY <1>1, <1>2, <1>3
<1>5. a * (n * x2) <= b * (n * x2)
  BY <1>1, <1>4, Scale
<1>6. b * x1 <= b * (n * x2)
  BY <1>4, <1>5
<1>7. x1 <= n * x2
  BY <1>1, <1>3, <1>4, <1>6, Cancel
<1> QED
  BY <1>2, <1>7 DEF x1, x2

\* And so in the sum.
LEMMA PlusFits ==
  ASSUME NEW p \in Rates, NEW q \in Rates, NEW i \in Nat, NEW j \in Nat,
         p[1] <= i * p[2], q[1] <= j * q[2]
  PROVE  Plus(p, q) \in Rates /\ Plus(p, q)[1] <= (i + j) * Plus(p, q)[2]
<1> DEFINE r == Plus(p, q)
           p1 == p[1]
           p2 == p[2]
           q1 == q[1]
           q2 == q[2]
           r1 == r[1]
           r2 == r[2]
<1>1. /\ p1 \in Nat /\ p2 \in Nat \ {0} /\ q1 \in Nat /\ q2 \in Nat \ {0}
      /\ p1 <= i * p2 /\ q1 <= j * q2
  BY DEF Rates
<1>2. r \in Rates /\ r1 * (p2 * q2) = (p1 * q2 + q1 * p2) * r2
  BY PlusValue
<1>3. r1 \in Nat /\ r2 \in Nat \ {0}
  BY <1>2 DEF Rates
<1> HIDE DEF p1, p2, q1, q2, r1, r2
<1>4. p1 * q2 <= (i * p2) * q2 /\ q1 * p2 <= (j * q2) * p2
  BY <1>1, Scale
<1>5. p1 * q2 + q1 * p2 <= (i * p2) * q2 + (j * q2) * p2
  <2>1. /\ p1 * q2 \in Int /\ q1 * p2 \in Int
        /\ (i * p2) * q2 \in Int /\ (j * q2) * p2 \in Int
    BY <1>1
  <2> QED
    BY <1>4, <2>1
<1>6. /\ p1 * q2 + q1 * p2 \in Int
      /\ (i * p2) * q2 + (j * q2) * p2 \in Int
  BY <1>1
<1>7. (p1 * q2 + q1 * p2) * r2 <= ((i * p2) * q2 + (j * q2) * p2) * r2
  BY <1>3, <1>5, <1>6, Scale
<1>8. /\ ((i * p2) * q2 + (j * q2) * p2) * r2 = (p2 * q2) * ((i + j) * r2)
      /\ r1 * (p2 * q2) = (p2 * q2) * r1
      /\ (i + j) * r2 \in Int
  BY <1>1, <1>3
<1>9. p2 * q2 \in Nat \ {0}
  BY <1>1, Products
<1>10. (p2 * q2) * r1 <= (p2 * q2) * ((i + j) * r2)
  BY <1>2, <1>7, <1>8
<1>11. r1 <= (i + j) * r2
  <2> DEFINE k == p2 * q2
             y == (i + j) * r2
  <2>1. k \in Nat \ {0} /\ y \in Int /\ k * r1 <= k * y
    BY <1>8, <1>9, <1>10
  <2> HIDE DEF k, y
  <2>2. r1 <= y
    BY <1>3, <2>1, Cancel
  <2> QED
    BY <2>2 DEF y
<1> QED
  BY <1>2, <1>11 DEF r1, r2

\* What ForecastIsSound says of the latest forecast, of any.
LearnedRates(f) ==
  \A g \in Group :
    LET total == f.history.total[g]
        seen == <<f.history.attended[g], total>>
        assumed == f.priors[g].rate
        weight == f.priors[g].strength
    IN Between(IF weight = 0 /\ total > 0 THEN seen ELSE assumed, f.rates[g],
               IF total = 0 THEN assumed ELSE seen)

SoundForecast(f) ==
  /\ 0 <= f.predicted /\ f.predicted <= 100 * f.servings
  /\ f.servings <= Total(Counts)
  /\ 100 * (f.servings - f.buffer) - f.predicted \in 0..100
  /\ f.method # "FALLBACK" => LearnedRates(f)

\* The model's forecast.
LEMMA AttendanceSound ==
  ASSUME OutcomesTyped, policy \in Beliefs
  PROVE  SoundForecast(ForecastAttendance(LoadHistory))
<1> DEFINE h == LoadHistory
           priors == policy.priors
           post == [g \in Group |-> Posterior(priors[g], h.attended[g], h.total[g])]
           expected(g) == Times(Whole(Counts[g]), post[g].mean)
           spread(g) == Plus(Times(expected(g), Rest(post[g].mean)),
                             Times(Whole(Counts[g] * Counts[g]), post[g].variance))
           mean == Plus(expected("YES"), Plus(expected("NO"), expected("UNVOTED")))
           variance == Plus(spread("YES"), Plus(spread("NO"), spread("UNVOTED")))
           servings == Recommended(mean, variance, policy.z)
           predicted == Rounded(Times(mean, Whole(100)))
           rates == [g \in Group |-> post[g].mean]
           method == IF h.slotCount >= 3 THEN "HISTORY" ELSE "PRIOR"
           buffer == Max({0, servings - Ceil(mean)})
           f == [method |-> method, rates |-> rates, predicted |-> predicted,
                 servings |-> servings, buffer |-> buffer, history |-> h, priors |-> priors]
<1>1. ForecastAttendance(h) = f
  BY DEF ForecastAttendance, SumOver
<1>2. ASSUME NEW g \in Group
      PROVE  /\ priors[g] \in Priors /\ priors[g].rate[1] <= priors[g].rate[2]
             /\ Counts[g] \in Nat
  BY ForecastAssumption DEF Priors, Rates
<1>3. ASSUME NEW g \in Group
      PROVE  /\ h.attended[g] \in Nat /\ h.total[g] \in Nat /\ h.attended[g] <= h.total[g]
  BY HistoryWeighed
<1> HIDE DEF h, priors
<1>4. ASSUME NEW g \in Group
      PROVE  /\ rates[g] \in Rates /\ rates[g][1] <= rates[g][2]
             /\ Between(IF priors[g].strength = 0 /\ h.total[g] > 0
                          THEN <<h.attended[g], h.total[g]>> ELSE priors[g].rate, rates[g],
                       IF h.total[g] = 0 THEN priors[g].rate ELSE <<h.attended[g], h.total[g]>>)
  BY <1>2, <1>3, RateLearned
<1>5. \A g \in Group : expected(g) = Times(Whole(Counts[g]), rates[g])
  OBVIOUS
<1> HIDE DEF post, expected, spread
<1> HIDE DEF rates
<1>6. ASSUME NEW g \in Group
      PROVE  expected(g) \in Rates /\ expected(g)[1] <= Counts[g] * expected(g)[2]
  BY <1>2, <1>4, <1>5, ExpectedFits
<1> HIDE DEF f, servings, predicted, variance
<1>7. mean \in Rates /\ mean[1] <= Total(Counts) * mean[2] /\ Total(Counts) \in Nat
  <2>1. {"YES", "NO", "UNVOTED"} \subseteq Group
    BY DEF Group
  <2> DEFINE y == expected("YES")
             n == expected("NO")
             u == expected("UNVOTED")
             cy == Counts["YES"]
             cn == Counts["NO"]
             cu == Counts["UNVOTED"]
  <2>2. /\ y \in Rates /\ y[1] <= cy * y[2] /\ cy \in Nat
        /\ n \in Rates /\ n[1] <= cn * n[2] /\ cn \in Nat
        /\ u \in Rates /\ u[1] <= cu * u[2] /\ cu \in Nat
    BY <1>2, <1>6, <2>1
  <2>3. Total(Counts) = cy + cn + cu
    BY DEF Total
  <2> HIDE DEF y, n, u, cy, cn, cu
  <2>4. Plus(n, u) \in Rates /\ Plus(n, u)[1] <= (cn + cu) * Plus(n, u)[2]
    BY <2>2, PlusFits
  <2>5. cn + cu \in Nat /\ cy + (cn + cu) = cy + cn + cu /\ cy + cn + cu \in Nat
    BY <2>2
  <2>6. Plus(y, Plus(n, u)) \in Rates
        /\ Plus(y, Plus(n, u))[1] <= (cy + (cn + cu)) * Plus(y, Plus(n, u))[2]
    BY <2>2, <2>4, <2>5, PlusFits
  <2> QED
    BY <2>3, <2>5, <2>6 DEF y, n, u
<1> HIDE DEF mean
<1>8. servings \in 0..Total(Counts) /\ mean[1] <= servings * mean[2]
  BY <1>7, ServingsSuffice DEF servings
<1>9. servings \in Nat
  BY <1>7, <1>8
<1>10. /\ Ceil(mean) \in 0..servings
       /\ mean[1] <= Ceil(mean) * mean[2]
       /\ Ceil(mean) # 0 => (Ceil(mean) - 1) * mean[2] <= mean[1]
  BY <1>7, <1>8, <1>9, CeilBounds
<1>11. /\ predicted \in Nat
       /\ \A k \in Nat : mean[1] <= k * mean[2] => predicted <= 100 * k
       /\ \A k \in Nat : k * mean[2] <= mean[1] => 100 * k <= predicted
  BY <1>7, RoundedScaled DEF predicted
<1> DEFINE c == Ceil(mean)
<1>12. c \in Nat /\ c <= servings /\ predicted <= 100 * servings /\ predicted <= 100 * c
  BY <1>8, <1>9, <1>10, <1>11
<1>13. c # 0 => 100 * (c - 1) <= predicted
  <2> SUFFICES ASSUME c # 0
               PROVE  100 * (c - 1) <= predicted
    OBVIOUS
  <2>1. c - 1 \in Nat /\ (c - 1) * mean[2] <= mean[1]
    BY <1>10, <1>12
  <2> HIDE DEF c
  <2> QED
    BY <1>11, <2>1
<1>14. buffer = servings - c
  <2> HIDE DEF c
  <2>1. servings - c \in Nat
    BY <1>9, <1>12
  <2>2. Max({0, servings - c}) = servings - c
    BY <2>1 DEF Max
  <2> QED
    BY <2>2 DEF c
<1>15. 100 * (servings - buffer) - predicted \in 0..100
  <2> HIDE DEF c, buffer
  <2>1. servings - buffer = c
    BY <1>9, <1>12, <1>14
  <2> QED
    BY <1>11, <1>12, <1>13, <2>1
<1> HIDE DEF c, buffer, method
<1>16. LearnedRates(f)
  <2>1. f.history = h /\ f.priors = priors /\ f.rates = rates
    BY DEF f
  <2> QED
    BY <1>4, <2>1 DEF LearnedRates
<1>17. f.predicted = predicted /\ f.servings = servings /\ f.buffer = buffer
  BY DEF f
<1>18. 0 <= predicted /\ servings <= Total(Counts)
  BY <1>7, <1>8, <1>11
<1>19. SoundForecast(f)
  BY <1>12, <1>15, <1>16, <1>17, <1>18 DEF SoundForecast
<1> QED
  BY <1>1, <1>19 DEF h

\* What takes its place when the model fails.
LEMMA FallbackSound ==
  ASSUME NEW h
  PROVE  SoundForecast(ConservativeFallback(h))
<1> DEFINE f == ConservativeFallback(h)
           n == Counts["YES"] + Counts["UNVOTED"]
<1>1. f.predicted = 100 * n /\ f.servings = n /\ f.buffer = 0 /\ f.method = "FALLBACK"
  BY DEF ConservativeFallback
<1>2. \A g \in {"YES", "NO", "UNVOTED"} : Counts[g] \in Nat
  BY ForecastAssumption DEF Group
<1>3. n \in Nat /\ n <= Total(Counts)
  BY <1>2 DEF Total
<1> HIDE DEF f, n
<1>4. SoundForecast(f)
  BY <1>1, <1>3 DEF SoundForecast
<1> QED
  BY <1>4 DEF f

ForecastInv == OutcomesTyped /\ policy \in Beliefs /\ ForecastIsSound

\* Nothing is forecast at first, and nothing recorded.
LEMMA ForecastInitial == ForecastInit => ForecastInv
BY DEF ForecastInit, ForecastInv, OutcomesTyped, ForecastIsSound, NoForecast

\* Outcomes stay possible ones, policies valid, and every version is sound.
LEMMA ForecastInductive == ForecastInv /\ [ForecastNext]_forecastVars => ForecastInv'
<1> SUFFICES ASSUME ForecastInv, [ForecastNext]_forecastVars
             PROVE  ForecastInv'
  OBVIOUS
<1> USE DEF ForecastInv
<1>1. ASSUME UNCHANGED forecast
      PROVE  ForecastIsSound'
  BY <1>1 DEF ForecastIsSound, RatesAreLearned, NoForecast
<1>2. ASSUME NEW day \in Past, ReconcileMeal(day)
      PROVE  ForecastInv'
  BY <1>1, <1>2 DEF ReconcileMeal, OutcomesTyped
<1>3. ASSUME NEW day \in DOMAIN outcomes, NEW g \in Group, CorrectMeal(day, g)
      PROVE  ForecastInv'
  <2>1. PICK n : outcomes' = [outcomes EXCEPT ![day].attended[g] = n]
    BY <1>3 DEF CorrectMeal
  <2>2. DOMAIN outcomes' = DOMAIN outcomes
    BY <2>1
  <2>3. \A d \in DOMAIN outcomes \ {day} : outcomes'[d] = outcomes[d]
    BY <2>1
  <2>4. OutcomesTyped'
    BY <1>3, <2>2, <2>3 DEF CorrectMeal, OutcomesTyped
  <2> QED
    BY <1>1, <1>3, <2>4 DEF CorrectMeal
<1>4. CASE SaveBeliefs
  BY <1>1, <1>4 DEF SaveBeliefs, OutcomesTyped
<1>5. CASE GenerateForecast
  <2>1. SoundForecast(forecast')
    BY <1>5, AttendanceSound, FallbackSound DEF GenerateForecast
  <2>2. ForecastIsSound'
    BY <2>1 DEF SoundForecast, LearnedRates, ForecastIsSound, RatesAreLearned
  <2> QED
    BY <1>5, <2>2 DEF GenerateForecast, OutcomesTyped
<1>6. CASE UNCHANGED forecastVars
  BY <1>1, <1>6 DEF forecastVars, OutcomesTyped
<1> QED
  BY <1>2, <1>3, <1>4, <1>5, <1>6 DEF ForecastNext

\* Whatever is assumed and has been recorded, a forecast recommends as many
\* servings as students are expected, and no more than there are; its buffer is
\* their difference, and its rates lie between what was assumed and what was seen.
THEOREM ForecastCorrect == ForecastSpec => []ForecastIsSound
<1>1. ForecastInv => ForecastIsSound
  BY DEF ForecastInv
<1> QED
  BY <1>1, ForecastInitial, ForecastInductive, PTL DEF ForecastSpec
=============================================================================
