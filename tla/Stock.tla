------------------------------- MODULE Stock -------------------------------
(***************************************************************************)
(* The stock of one ingredient in one mess: movements recorded by several  *)
(* people, the settings that govern orders, the recipe, and what the page  *)
(* advises to procure for the meals ahead (planning.service.js,            *)
(* catalog.service.js, units.js).  Stock, orders and settings are counted  *)
(* in ten-thousandths of the base unit, the precision of their columns.    *)
(* What a meal needs is a fraction, and computed exactly; requirements are *)
(* rounded to thousandths.  One dish of each menu takes the ingredient.    *)
(*                                                                         *)
(* recordTransaction reads the stock and inserts the movement without a    *)
(* lock: two steps.                                                        *)
(***************************************************************************)
EXTENDS Integers, FiniteSets, FiniteSetsExt

CONSTANTS
  Clerk,         \* the movements the API serves at the same time
  Quantity,      \* quantities of a movement
  MaxStock,      \* bound on the stock and on what is missing from it
  Meal,          \* the meals ahead that are past their cutoff
  Servings,      \* targets; a meal may have none
  Uptake,        \* of each meal's servings, the thousandths that take the dish
  PerServing,    \* quantities in a recipe, in hundred-thousandths
  Yield,         \* yield factors, in ten-thousandths
  Rules,         \* settings: safety stock, pack size, minimum order; 0 for none
  PackPrecision  \* to what part of a pack packs are rounded: 1000000

ASSUME StockAssumption ==
  /\ MaxStock \in Nat
  /\ Quantity \subseteq Nat \ {0}

ASSUME AdviceAssumption ==
  /\ Servings \subseteq Nat
  /\ PerServing \subseteq Nat
  /\ Uptake \in [Meal -> 1..1000]
  /\ Yield \subseteq 1..10000
  /\ Rules \subseteq [safety : Nat, pack : Nat, least : Nat]
  /\ PackPrecision \in Nat \ {0}
  /\ IsFiniteSet(Meal)

VARIABLES
  onHand,    \* the sum of inventory_transactions
  movement,  \* the transaction of each clerk
  warned,    \* since the stock was last not negative: somebody was told
  overlap,   \* and two movements were under way together
  rules,     \* mess_ingredient_settings
  recipe,    \* dish_ingredients
  target     \* approved or recommended servings of each meal; a set of one

stockVars == <<onHand, movement, warned, overlap, rules, recipe, target>>

Recipe == [quantity : PerServing, yield : Yield]
NoMovement == [stage |-> "idle"]

StockInit ==
  /\ onHand = 0
  /\ movement = [c \in Clerk |-> NoMovement]
  /\ warned = FALSE /\ overlap = FALSE
  /\ rules \in Rules
  /\ recipe \in Recipe
  /\ target \in [Meal -> {{n} : n \in Servings} \cup {{}}]

OthersIdle(c) == \A d \in Clerk \ {c} : movement[d] = NoMovement

\* RECEIPT and ADJUSTMENT IN add; ISSUE, SPOILAGE and ADJUSTMENT OUT remove.
ReadStock(c, signed) ==
  /\ movement[c] = NoMovement
  /\ movement' = [movement EXCEPT ![c] =
       [stage |-> "read", before |-> onHand, signed |-> signed]]
  /\ overlap' = (overlap \/ ~OthersIdle(c))
  /\ UNCHANGED <<onHand, warned, rules, recipe, target>>

\* A defect to be caught: the warning looks at the stock before the movement.
NegativeBefore(m) == m.before < 0

\* STOCK_NEGATIVE is computed from the stock that was read, not from the rows.
IsNegativeAfter(m) == m.before + m.signed < 0

InsertMovement(c) ==
  /\ movement[c] # NoMovement
  /\ LET m == movement[c]
         after == onHand + m.signed
     IN  /\ after \in -MaxStock..MaxStock
         /\ onHand' = after
         /\ warned' = (after < 0 /\ (warned \/ IsNegativeAfter(m)))
         /\ overlap' = (overlap /\ (after < 0 \/ ~OthersIdle(c)))
  /\ movement' = [movement EXCEPT ![c] = NoMovement]
  /\ UNCHANGED <<rules, recipe, target>>

AbortMovement(c) ==
  /\ movement[c] # NoMovement
  /\ movement' = [movement EXCEPT ![c] = NoMovement]
  /\ UNCHANGED <<onHand, warned, overlap, rules, recipe, target>>

UpdateStockSettings(r) ==
  /\ r # rules
  /\ rules' = r
  /\ UNCHANGED <<onHand, movement, warned, overlap, recipe, target>>

\* Takes effect on the meals ahead, the approved ones too.
SetDishIngredients(r) ==
  /\ r # recipe
  /\ recipe' = r
  /\ UNCHANGED <<onHand, movement, warned, overlap, rules, target>>

\* A forecast, an approval or the start of the service of a meal.
TargetChanges(m, t) ==
  /\ t # target[m]
  /\ target' = [target EXCEPT ![m] = t]
  /\ UNCHANGED <<onHand, movement, warned, overlap, rules, recipe>>

StockNext ==
  \/ \E c \in Clerk :
       \/ \E q \in Quantity : ReadStock(c, q) \/ ReadStock(c, -q)
       \/ InsertMovement(c)
       \/ AbortMovement(c)
  \/ \E r \in Rules : UpdateStockSettings(r)
  \/ \E r \in Recipe : SetDishIngredients(r)
  \/ \E m \in Meal, t \in {{n} : n \in Servings} \cup {{}} : TargetChanges(m, t)

StockSpec == StockInit /\ [][StockNext]_stockVars

-----------------------------------------------------------------------------
(* What the page advises to order. *)

CeilDiv(a, b) == (a + b - 1) \div b
RoundDiv(a, b) == (2 * a + b) \div (2 * b)

\* computeRequirements: what meal m needs, times recipe.yield, and the figure
\* shown of it and added up.
DishServings(m, n) == CeilDiv(n * Uptake[m], 1000)
Needed(m) ==
  SumFunctionOnSet([n \in Servings |-> DishServings(m, n) * recipe.quantity * 1000], target[m])
Required(m) == RoundDiv(Needed(m), 10 * recipe.yield) * 10

\* Quantities that are no whole numbers are fractions <<a, b>>: what is missing
\* for a need of need / over.
Missing(need, over) == <<need + (rules.safety - onHand) * over, over>>

AtLeast(f, n) == IF f[1] < n * f[2] THEN <<n, 1>> ELSE f

\* Orders are whole packs; without a pack size they are rounded to whole
\* ten-thousandths, as packs of that size are.
Pack == IF rules.pack = 0 THEN 1 ELSE rules.pack
Precision == IF rules.pack = 0 THEN 1 ELSE PackPrecision
InPacks(f) == CeilDiv(RoundDiv(f[1] * Precision, f[2] * Pack), Precision) * Pack

\* A defect to be caught: whole packs first, then the minimum order.
OrderMinimumLast(f) ==
  IF f[1] <= 0 THEN 0 ELSE AtLeast(<<InPacks(f), 1>>, rules.least)[1]

\* applyOrderConstraints: at least the minimum order, in whole packs.
Order(f) == IF f[1] <= 0 THEN 0 ELSE InPacks(AtLeast(f, rules.least))

\* What computeRequirements advises for one meal by itself, from the exact need:
\* what slotRequirements says before the approval, and what the approval freezes.
MealOrder(m) == Order(Missing(Needed(m), recipe.yield))

\* procurementOutlook: the stock is subtracted once from the figures added up.
TotalRequired == SumFunctionOnSet([m \in Meal |-> Required(m)], Meal)
Outlook == Order(Missing(TotalRequired, 1))

-----------------------------------------------------------------------------
\* Recorded stock does not go below zero unseen: whoever's movement took it
\* there, or one of those after it, was warned.  The exception is two movements
\* entered together, each of which counts on the stock without the other.
NegativeStockIsFlagged == onHand < 0 => warned \/ overlap

\* An order is as much as f, but for half of what packs are rounded to.
Attains(order, f) == 2 * Precision * f[2] * order + f[2] * Pack >= 2 * Precision * f[1]

\* An order for what is missing covers it, keeps the supplier's terms, and has
\* no pack too many; and nothing is ordered if nothing is missing.
Suffices(order, missing) ==
  IF missing[1] <= 0 THEN order = 0
  ELSE /\ Attains(order, missing)
       /\ Attains(order, <<rules.least, 1>>)
       /\ order % Pack = 0
       /\ (order - Pack) * missing[2] < missing[1] \/ order - Pack < rules.least

\* For one meal and for all of them together, what is advised to order is what
\* is missing, on the supplier's terms; and although the outlook adds up rounded
\* figures, it brings the stock above the exact needs of all meals and the
\* safety stock, but for half a thousandth a meal: whatever recipe, settings,
\* targets and stock there are.
OutlookSuffices ==
  /\ \A m \in Meal : Suffices(MealOrder(m), Missing(Needed(m), recipe.yield))
  /\ Suffices(Outlook, Missing(TotalRequired, 1))
  /\ LET exact == SumFunctionOnSet([m \in Meal |-> Needed(m)], Meal)
     IN  Attains(Outlook, Missing(exact - 5 * Cardinality(Meal) * recipe.yield, recipe.yield))
=============================================================================
