---------------------------- MODULE MCPlatform ----------------------------
(***************************************************************************)
(* Instances, for TLC, of eight modules that share no state: the browser's *)
(* tabs, the server processes, the stock of an ingredient, a student's     *)
(* memberships, the policies of an institution, deployments that migrate   *)
(* the database, the forecasts of a meal, and the workspace of a person.   *)
(* A behaviour is about one of them, its subject; the others stay as they  *)
(* began, in one initial state.                                            *)
(***************************************************************************)
EXTENDS Browser, Server, Stock, Residence, Policies, Migrator, Forecast, Workspace, TLC

VARIABLE subject

MCRules ==
  {[safety |-> 0, pack |-> 0, least |-> 0],
   [safety |-> 20, pack |-> 40, least |-> 60],
   [safety |-> 20, pack |-> 0, least |-> 30]}

MCRecipe == [quantity |-> 100, yield |-> 10000]

\* Half of those served at one meal take the dish, and all at the others.
MCUptake == [m \in Meal |-> IF m = CHOOSE n \in Meal : TRUE THEN 500 ELSE 1000]

\* Setting 0 is out of the schema's bounds, as an emptied field is.
MCDefault == [k \in Setting |-> 1]

\* Two releases in a row, one in which an applied migration was edited, and one
\* with two files of the same version.
MCRelease ==
  LET m(v, sum) == [version |-> v, checksum |-> sum] IN
  {<<m(1, "a"), m(2, "a")>>, <<m(1, "a"), m(2, "a"), m(3, "a")>>, <<m(1, "a"), m(2, "b")>>,
   <<m(1, "a"), m(1, "b")>>}

\* A meal as x = <<YES voters served, latecomers served>>.
MCTurnout ==
  {[students |-> [YES |-> 2, NO |-> 0, UNVOTED |-> 2 * x[2]],
    attended |-> [YES |-> x[1], NO |-> 0, UNVOTED |-> x[2]]] :
     x \in {<<1, 0>>, <<2, 0>>, <<2, 1>>}}

MCCounts == [YES |-> 1, NO |-> 1, UNVOTED |-> 1]

\* Service levels of 84 %, 50 % and 98 %; priors of no weight, and of some.
MCBeliefs ==
  LET belief(n, d, k) == [rate |-> <<n, d>>, strength |-> k]
      priors(k) == [YES |-> belief(1, 1, k), NO |-> belief(1, 2, k), UNVOTED |-> belief(1, 2, k)]
  IN {[priors |-> priors(0), z |-> 1, window |-> 4, most |-> 2],
      [priors |-> priors(2), z |-> 0, window |-> 4, most |-> 3],
      [priors |-> priors(2), z |-> 2, window |-> 5, most |-> 3]}

platformVars ==
  <<browserVars, serverVars, stockVars, residenceVars, policyVars, migratorVars,
    forecastVars, workspaceVars, subject>>

StockAtRest ==
  /\ rules = [safety |-> 0, pack |-> 0, least |-> 0]
  /\ recipe = MCRecipe
  /\ target = [m \in Meal |-> {}]

ResidenceAtRest ==
  /\ today = 0
  /\ memberships = {[mess |-> CHOOSE m \in Mess : TRUE, from |-> 0, to |-> {}]}

PoliciesAtRest ==
  /\ stored = <<>>
  /\ zone = CHOOSE z \in Zone : TRUE

ForecastAtRest == policy = CHOOSE b \in Beliefs : TRUE

WorkspaceAtRest == assigned = Assignment

\* A supervisor, who is an administrator as well, or works in the kitchen of
\* another mess; a cook, who is a student as well; an administrator.
MCStaff ==
  LET m == CHOOSE w \in MessId : TRUE
      n == CHOOSE w \in MessId : w # m
      supervisor == [role |-> "SUPERVISOR", mess |-> m]
      admin == [role |-> "INSTITUTION_ADMIN", mess |-> NoMess]
      student == [role |-> "STUDENT", mess |-> NoMess]
      cook(w) == [role |-> "KITCHEN_STAFF", mess |-> w]
  IN {{supervisor}, {supervisor, admin}, {supervisor, cook(n)}, {cook(m)}, {cook(m), student}, {admin}}

PlatformInit ==
  /\ subject \in
       {"browser", "server", "stock", "residence", "policies", "migrator", "forecast", "workspace"}
  /\ BrowserInit
  /\ ServerInit
  /\ StockInit /\ (subject = "stock" \/ StockAtRest)
  /\ ResidenceInit /\ (subject = "residence" \/ ResidenceAtRest)
  /\ PoliciesInit /\ (subject = "policies" \/ PoliciesAtRest)
  /\ MigratorInit /\ (subject = "migrator" \/ ~legacy)
  /\ ForecastInit /\ (subject = "forecast" \/ ForecastAtRest)
  /\ WorkspaceInit /\ (IF subject = "workspace" THEN assigned \in MCStaff ELSE WorkspaceAtRest)

PlatformNext ==
  /\ UNCHANGED subject
  /\ \/ /\ subject = "browser" /\ BrowserNext
        /\ UNCHANGED <<serverVars, stockVars, residenceVars, policyVars, migratorVars,
                       forecastVars, workspaceVars>>
     \/ /\ subject = "server" /\ ServerNext
        /\ UNCHANGED <<browserVars, stockVars, residenceVars, policyVars, migratorVars,
                       forecastVars, workspaceVars>>
     \/ /\ subject = "stock" /\ StockNext
        /\ UNCHANGED <<browserVars, serverVars, residenceVars, policyVars, migratorVars,
                       forecastVars, workspaceVars>>
     \/ /\ subject = "residence" /\ ResidenceNext
        /\ UNCHANGED <<browserVars, serverVars, stockVars, policyVars, migratorVars,
                       forecastVars, workspaceVars>>
     \/ /\ subject = "policies" /\ PoliciesNext
        /\ UNCHANGED <<browserVars, serverVars, stockVars, residenceVars, migratorVars,
                       forecastVars, workspaceVars>>
     \/ /\ subject = "migrator" /\ MigratorNext
        /\ UNCHANGED <<browserVars, serverVars, stockVars, residenceVars, policyVars,
                       forecastVars, workspaceVars>>
     \/ /\ subject = "forecast" /\ ForecastNext
        /\ UNCHANGED <<browserVars, serverVars, stockVars, residenceVars, policyVars,
                       migratorVars, workspaceVars>>
     \/ /\ subject = "workspace" /\ WorkspaceNext
        /\ UNCHANGED <<browserVars, serverVars, stockVars, residenceVars, policyVars, migratorVars,
                       forecastVars>>

PlatformSpec == PlatformInit /\ [][PlatformNext]_platformVars

\* Tabs are interchangeable, and clerks, administrators and deployments.
MCSymmetry ==
  Permutations(Tab) \cup Permutations(Clerk)
    \cup Permutations(Administrator) \cup Permutations(Deployment)
=============================================================================
