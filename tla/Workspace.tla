----------------------------- MODULE Workspace -----------------------------
(***************************************************************************)
(* One person at work: the roles an administrator assigns to him, for a    *)
(* mess or for the institution (accounts.service.js); the workspace of his *)
(* session (middleware/session.js, auth.service.js); what a tab was told   *)
(* of it, the workspace and the mess it shows (session.tsx, App.tsx,       *)
(* messScope.tsx); and what the pages of that workspace ask the API for    *)
(* (AppShell.tsx, pages/) against what the API lets him do                 *)
(* (permissions.js, guards.js and the routes).                             *)
(*                                                                         *)
(* A request is one step: it resolves the session against the roles of     *)
(* that moment.  Signing in and switching workspace are two requests, the  *)
(* change and the fetch of the session.  The mess a tab opens with is any  *)
(* it may offer: the one saved in the browser, or the first by name.       *)
(***************************************************************************)
EXTENDS Naturals

CONSTANTS
  MessId,     \* the messes of the institution
  MaxChanges  \* bound on what administrators change

Scoped == {"SUPERVISOR", "KITCHEN_STAFF"}
Roles == Scoped \cup {"STUDENT", "INSTITUTION_ADMIN"}
NoMess == "noMess"

ASSUME WorkspaceAssumption == NoMess \notin MessId /\ MaxChanges \in Nat

VARIABLES
  assigned,    \* role_assignments not revoked
  activeMess,  \* the messes with is_active
  session,     \* active_role of the session; "ENDED" where there is none
  told,        \* what the tab knows of the session
  place,       \* the workspace and the mess the tab shows
  pending,     \* where the tab goes when the session it asked for arrives
  changes      \* how much has been changed

workspaceVars == <<assigned, activeMess, session, told, place, pending, changes>>

Assignment ==
  [role : Scoped, mess : MessId] \cup [role : Roles \ Scoped, mess : {NoMess}]

\* buildPrincipal.
Held == {a.role : a \in assigned}
MessesOf(role) == {m \in MessId : [role |-> role, mess |-> m] \in assigned}
IsAdmin == "INSTITUTION_ADMIN" \in Held

-----------------------------------------------------------------------------
(* What a request may do: the router of its path asks for a role, the      *)
(* handler for a capability on the mess the resource belongs to.           *)

Can(capability, m) ==
  CASE capability = "operateMess" -> m \in MessesOf("SUPERVISOR")
    [] capability = "workKitchen" -> m \in MessesOf("SUPERVISOR") \cup MessesOf("KITCHEN_STAFF")
    [] capability = "viewOperations" ->
         IsAdmin \/ m \in MessesOf("SUPERVISOR") \cup MessesOf("KITCHEN_STAFF")
    [] capability = "viewMessAnalytics" -> IsAdmin \/ m \in MessesOf("SUPERVISOR")
    [] capability = "manageCatalog" -> IsAdmin \/ MessesOf("SUPERVISOR") # {}
    [] capability = "viewCatalog" ->
         IsAdmin \/ MessesOf("SUPERVISOR") \cup MessesOf("KITCHEN_STAFF") # {}
    [] capability = "administer" -> IsAdmin
    [] capability = "beStudent" -> "STUDENT" \in Held
    [] OTHER -> TRUE  \* requireAuth

Route(capability, calls) == {[call |-> c, needs |-> capability] : c \in calls}

MessRoutes ==
  Route("viewOperations", {"overview", "slots", "inventory", "transactions", "procurement", "incidents"})
  \cup Route("operateMess", {"createSlot", "schedule", "stockSettings", "updateIncident", "resolveAppeal"})
  \cup Route("workKitchen", {"recordTransaction", "reportIncident"})
  \cup Route("viewMessAnalytics", {"accuracy", "warnings", "appeals", "analytics", "export"})

SlotRoutes ==
  Route("viewOperations", {"slot", "requirements"})
  \cup Route("operateMess",
         {"updateSlot", "updateMenu", "publish", "cancel", "lock", "forecast", "approve", "startService",
          "closeService", "attendance", "verify", "voidAttendance", "reconcile", "correct"})
  \cup Route("viewMessAnalytics", {"forecasts", "reconciliation"})

KitchenRoutes ==
  Route("viewOperations", {"board", "slotKitchen", "foodLogs"})
  \cup Route("workKitchen", {"startTask", "completeTask", "addFoodLog", "voidFoodLog"})

CatalogRoutes ==
  Route("viewCatalog", {"ingredients", "dishes", "dish"})
  \cup Route("manageCatalog", {"saveIngredient", "saveDish", "saveRecipe"})

InstitutionRoutes ==
  Route("administer", {"institutionOverview", "institutionAnalytics", "institutionExport", "audit"})

OrganisationRoutes ==
  Route("administer",
    {"institution", "updateInstitution", "updateSettings", "structure", "createCampus", "createHostel",
     "createMess", "updateMess", "saveMealType", "baselines", "createBaseline"})

AccountRoutes ==
  Route("administer",
    {"users", "user", "createUser", "setStatus", "grantRole", "revokeRole", "issueCode",
     "changeMembership", "import"})

StudentRoutes ==
  Route("beStudent", {"myMeals", "vote", "pass", "myHistory", "myWarnings", "appeal"})

AnyonesRoutes ==
  Route("signedIn", {"messes", "mealTypes", "notifications", "changePassword"})

Routes ==
  MessRoutes \cup SlotRoutes \cup KitchenRoutes \cup CatalogRoutes
    \cup InstitutionRoutes \cup OrganisationRoutes \cup AccountRoutes \cup StudentRoutes \cup AnyonesRoutes

\* operationsRouter is for the staff.
ForStaff == MessRoutes \cup SlotRoutes \cup KitchenRoutes

Accepted(route, m) ==
  /\ route \in ForStaff => Held \cap (Scoped \cup {"INSTITUTION_ADMIN"}) # {}
  /\ Can(route.needs, m)

-----------------------------------------------------------------------------
(* What the pages ask for, whatever they show and offer. *)

MealsPage == {"slots", "mealTypes", "dishes", "createSlot", "schedule"}
MealDetailPage ==
  {"slot", "requirements", "dishes", "approve", "updateSlot", "updateMenu", "publish", "cancel", "lock",
   "forecast", "startService", "closeService"}
CounterCalls == {"slots", "attendance", "verify", "voidAttendance"}
ReconcilePage == {"slots", "slot", "reconciliation", "reconcile", "correct"}
AppealsPage == {"appeals", "resolveAppeal"}
KitchenPages ==
  {"board", "slotKitchen", "requirements", "startTask", "completeTask", "addFoodLog", "voidFoodLog"}
\* The page of issues reports them in the kitchen and closes them for a supervisor.
IncidentsPage(w) ==
  {"incidents"} \cup (IF w = "SUPERVISOR" THEN {"updateIncident"} ELSE {"reportIncident", "ingredients"})
InventoryPage == {"inventory", "procurement", "transactions", "recordTransaction"}
CatalogPage(editable) ==
  {"dishes", "ingredients"} \cup (IF editable THEN {"saveIngredient", "saveDish", "saveRecipe"} ELSE {})
AnalyzePage == {"analytics", "export", "mealTypes"}
AccountsPages ==
  {"users", "createUser", "import", "user", "setStatus", "grantRole", "revokeRole", "issueCode",
   "changeMembership", "messes"}
StructurePage == {"structure", "createCampus", "createHostel", "createMess", "updateMess"}
SettingsPage ==
  {"institution", "updateInstitution", "updateSettings", "mealTypes", "saveMealType", "baselines",
   "createBaseline", "messes"}
AuditPage == {"audit", "messes"}
AdminPages ==
  {"institutionOverview", "institutionAnalytics", "institutionExport"}
    \cup AccountsPages \cup StructurePage \cup SettingsPage \cup AuditPage
VotePages == {"myMeals", "vote", "pass"}
RecordPages == {"myHistory", "myWarnings", "appeal"}
Everywhere == {"notifications", "changePassword"}

\* The routes of App.tsx below each workspace, and the frame around them.
PagesOf(w) ==
  Everywhere \cup
  CASE w = "SUPERVISOR" ->
         {"overview"} \cup MealsPage \cup MealDetailPage \cup CounterCalls \cup ReconcilePage \cup AppealsPage
           \cup IncidentsPage(w) \cup InventoryPage \cup CatalogPage(TRUE) \cup AnalyzePage
    [] w = "KITCHEN_STAFF" ->
         KitchenPages \cup IncidentsPage(w) \cup InventoryPage \cup CatalogPage(FALSE)
    [] w = "INSTITUTION_ADMIN" -> AdminPages \cup CatalogPage(TRUE) \cup AnalyzePage
    [] OTHER -> VotePages \cup RecordPages

-----------------------------------------------------------------------------
(* The session and the tab. *)

\* A defect to be caught: the session keeps a role that was revoked.
ResolvedAsItWas(role) == IF Held = {} \/ role = "ENDED" THEN {} ELSE {role}

\* sessionMiddleware: the roles the session may go on with.  It falls back to a
\* role that is held, and ends when there is none.
Resolved(role) ==
  IF role = "ENDED" THEN {} ELSE IF role \in Held THEN {role} ELSE Held

\* describeSession.  The mess of a student is listed too and never chosen.
Describe(role) ==
  [roles |-> Held, activeRole |-> role,
   supervisor |-> MessesOf("SUPERVISOR"), kitchen |-> MessesOf("KITCHEN_STAFF"),
   messes |-> IF IsAdmin THEN activeMess
              ELSE MessesOf("SUPERVISOR") \cup MessesOf("KITCHEN_STAFF")]

\* MessScopeProvider: the messes there are to choose from, and the choice.
Options(d, w) ==
  CASE w = "SUPERVISOR"    -> d.messes \cap d.supervisor
    [] w = "KITCHEN_STAFF" -> d.messes \cap (d.kitchen \cup d.supervisor)
    [] OTHER               -> {}
Opening(d, w) == IF Options(d, w) = {} THEN {NoMess} ELSE Options(d, w)

\* A tab on the way to the page of sign-in, or whose session is on its way.
Unknown == [roles |-> {}, activeRole |-> "ENDED", supervisor |-> {}, kitchen |-> {}, messes |-> {}]
SignedOut == [at |-> "LOGIN", mess |-> NoMess]

\* RequireRole, of where the tab is or goes: the workspace of the session if
\* the other is not held.  "HOME" is neither.
Landing(d, w) == IF w \in d.roles THEN w ELSE d.activeRole

\* A workspace that stays keeps its mess while that is an option, and keeps
\* none if it opened with none.
Settled(d) ==
  IF pending = "NONE" /\ place.at \in d.roles
    THEN {[place EXCEPT !.mess = m] :
            m \in IF place.mess \in Options(d, place.at) \cup {NoMess}
                    THEN {place.mess} ELSE Opening(d, place.at)}
    ELSE LET w == Landing(d, IF pending = "NONE" THEN place.at ELSE pending)
         IN  [at : {w}, mess : Opening(d, w)]

\* createUser gives a role at least, and createMess a mess that is active.
WorkspaceInit ==
  /\ assigned \in SUBSET Assignment \ {{}}
  /\ activeMess = MessId
  /\ session = "ENDED"
  /\ told = Unknown
  /\ place = SignedOut
  /\ pending = "NONE"
  /\ changes = 0

-----------------------------------------------------------------------------
(* Administrators.  Another one is there, so his role may be revoked. *)

Change == changes < MaxChanges /\ changes' = changes + 1

GrantRole(a) ==
  /\ Change
  /\ a.role # "STUDENT" /\ a \notin assigned
  /\ assigned' = assigned \cup {a}
  /\ UNCHANGED <<activeMess, session, told, place, pending>>

RevokeRole(a) ==
  /\ Change
  /\ a.role # "STUDENT" /\ a \in assigned
  /\ assigned' = assigned \ {a}
  /\ UNCHANGED <<activeMess, session, told, place, pending>>

SetMessActive(m) ==
  /\ Change
  /\ activeMess' = IF m \in activeMess THEN activeMess \ {m} ELSE activeMess \cup {m}
  /\ UNCHANGED <<assigned, session, told, place, pending>>

-----------------------------------------------------------------------------
(* The session's user. *)

\* The first request of login: a role that is held, asked for or the first.
LogIn(role) ==
  /\ told = Unknown /\ pending = "NONE"
  /\ role \in Held
  /\ session' = role
  /\ pending' = "HOME"
  /\ UNCHANGED <<assigned, activeMess, told, place, changes>>

\* An address of the site is opened, or reloaded.
OpenSite(w) ==
  /\ told' = Unknown
  /\ place' = SignedOut
  /\ pending' = w
  /\ UNCHANGED <<assigned, activeMess, session, changes>>

\* A request that finds no session: onUnauthorized, or the fetch that returns
\* nobody.
LoseSession ==
  /\ Resolved(session) = {}
  /\ session' = "ENDED"
  /\ told' = Unknown
  /\ place' = SignedOut
  /\ pending' = "NONE"
  /\ UNCHANGED <<assigned, activeMess, changes>>

FetchSession ==
  /\ told # Unknown \/ pending # "NONE"
  /\ \/ LoseSession
     \/ \E role \in Resolved(session) :
          /\ session' = role
          /\ told' = Describe(role)
          /\ place' \in Settled(Describe(role))
          /\ pending' = "NONE"
          /\ UNCHANGED <<assigned, activeMess, changes>>

\* Any other request of the tab.
CallApi ==
  /\ told # Unknown
  /\ \/ LoseSession
     \/ /\ session' \in Resolved(session)
        /\ UNCHANGED <<assigned, activeMess, told, place, pending, changes>>

\* RailFoot lists the other workspaces; the API refuses a role not held by now.
SwitchRole(role) ==
  /\ told # Unknown /\ pending = "NONE"
  /\ role \in told.roles \ {place.at}
  /\ \/ LoseSession
     \/ /\ Resolved(session) # {}
        /\ IF role \in Held
             THEN session' = role /\ pending' = role
             ELSE session' \in Resolved(session) /\ UNCHANGED pending
        /\ UNCHANGED <<assigned, activeMess, told, place, changes>>

\* Another tab of the browser has the same session.
SwitchElsewhere(role) ==
  /\ Resolved(session) # {}
  /\ role \in Held
  /\ session' = role
  /\ UNCHANGED <<assigned, activeMess, told, place, pending, changes>>

\* RailFoot: the tab forgets its session, also if the request did not arrive.
LogOut ==
  /\ told # Unknown
  /\ session' \in {"ENDED", session}
  /\ told' = Unknown
  /\ place' = SignedOut
  /\ pending' = "NONE"
  /\ UNCHANGED <<assigned, activeMess, changes>>

\* It is signed out in another tab, expires or is revoked.
Expire ==
  /\ session # "ENDED"
  /\ session' = "ENDED"
  /\ UNCHANGED <<assigned, activeMess, told, place, pending, changes>>

\* MessSwitcher.
ChooseMess(m) ==
  /\ told # Unknown
  /\ m \in Options(told, place.at)
  /\ place' = [place EXCEPT !.mess = m]
  /\ UNCHANGED <<assigned, activeMess, session, told, pending, changes>>

WorkspaceNext ==
  \/ \E a \in Assignment : GrantRole(a) \/ RevokeRole(a)
  \/ \E m \in MessId : SetMessActive(m) \/ ChooseMess(m)
  \/ \E role \in Roles : LogIn(role) \/ SwitchRole(role) \/ SwitchElsewhere(role)
  \/ \E w \in Roles \cup {"HOME"} : OpenSite(w)
  \/ FetchSession
  \/ CallApi
  \/ LogOut
  \/ Expire

WorkspaceSpec == WorkspaceInit /\ [][WorkspaceNext]_workspaceVars

-----------------------------------------------------------------------------
\* The tab shows a workspace it was told its user has, so the redirect of
\* RequireRole ends; and a mess it was told of, or none.
ShowsWhatItWasTold ==
  told # Unknown =>
    /\ place.at \in told.roles
    /\ place.mess \in Options(told, place.at) \cup {NoMess}

\* What the tab knows is so at present.
UpToDate == told # Unknown /\ told = Describe(told.activeRole)

\* Whatever a page of the workspace asks of a mess it offers is accepted.
PagesAreServed ==
  UpToDate =>
    \A route \in Routes :
      route.call \in PagesOf(place.at) =>
        \A m \in IF place.at \in Scoped THEN Options(told, place.at) ELSE MessId :
          Accepted(route, m)

\* Each mess the API lets him work in is offered; but an administrator is not
\* offered one that is not active, although he may be its supervisor.
MessesAreOffered ==
  UpToDate =>
    \A m \in MessId :
      \/ IsAdmin /\ m \notin activeMess
      \/ /\ place.at = "SUPERVISOR" /\ Can("operateMess", m) => m \in Options(told, "SUPERVISOR")
         /\ place.at = "KITCHEN_STAFF" /\ Can("workKitchen", m) => m \in Options(told, "KITCHEN_STAFF")

\* However roles and messes change meanwhile, in whatever tab the workspace is
\* switched: a tab is in a workspace and a mess of its user, and when it is up to
\* date the API accepts what its pages ask for and they lead to every mess there
\* is to work in.
WorkspaceFits == ShowsWhatItWasTold /\ PagesAreServed /\ MessesAreOffered
=============================================================================
