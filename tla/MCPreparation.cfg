SPECIFICATION Spec

CONSTANTS
  d1 = d1
  d2 = d2
  Dish = {d1, d2}
  Menus <- MCMenus
  Target = {1, 4}
  Kg = {0, 1}
  Cook = {c1, c2}
  Log = {l1, l2}

SYMMETRY MCSymmetry

INVARIANTS
  KitchenFollowsPlan
  LeftoversFitPrepared
  KitchenPageFits

PROPERTIES
  StartedTasksKeepServings
  KnownMetricsStayKnown

CHECK_DEADLOCK FALSE
